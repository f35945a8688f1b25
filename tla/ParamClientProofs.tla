-------------------------- MODULE ParamClientProofs --------------------------
(***************************************************************************)
(* Theorems about ParamClient, for every value of its constants: however   *)
(* many parameters, tries, faults and calls, and with replies prompt or    *)
(* late.                                                                   *)
(***************************************************************************)
EXTENDS ParamClient, FiniteSets, FiniteSetTheorems, SequenceTheorems, TLAPS

-----------------------------------------------------------------------------
(* Frames and sequences.                                                   *)

(* What Msg builds is a frame; frames are only taken apart by FrameFields. *)
LEMMA MsgIsFrame ==
    ASSUME NEW c \in Cmds, NEW a \in Nat, NEW v \in Seq(Val),
           c \in Valued => Len(v) = 1,
           c \in Valued \cup {"Read"} => a \in Addr
    PROVE  /\ Msg(c, a, v) \in Frame
           /\ Msg(c, a, v).cmd = c
BY DEF Msg, Frame

(* The fields of a frame.                                                  *)
LEMMA FrameFields ==
    ASSUME NEW f \in Frame
    PROVE  /\ f.cmd \in Cmds /\ f.arg \in Nat /\ f.val \in Seq(Val)
           /\ f.cmd \in Valued => Len(f.val) = 1 /\ f.val[1] \in Val
           /\ f.cmd \in Valued \cup {"Read"} => f.arg \in Addr
BY DEF Frame

(* The value field of one parameter, and of a burn or version reply.       *)
LEMMA OneValue ==
    ASSUME NEW v \in Val
    PROVE  <<v>> \in Seq(Val) /\ Len(<<v>>) = 1 /\ <<v>>[1] = v
OBVIOUS

(* The empty sequence is one of any set's.                                 *)
LEMMA EmptyIsSeq == \A S : <<>> \in Seq(S)
OBVIOUS

(* Taking and appending keep a queue of frames a queue of frames.          *)
LEMMA QueueType ==
    ASSUME NEW S, NEW s \in Seq(S)
    PROVE  /\ \A x \in S : Append(s, x) \in Seq(S)
           /\ \A t \in Seq(S) : s \o t \in Seq(S)
           /\ s # <<>> => Head(s) \in S /\ Tail(s) \in Seq(S)
BY HeadTailProperties, ConcatProperties

(* A reply of one frame.                                                   *)
LEMMA OneFrame ==
    ASSUME NEW f \in Frame
    PROVE  <<f>> \in Seq(Frame)
OBVIOUS

(* A sequence with its head replaced by another element of the set.        *)
LEMMA HeadReplaced ==
    ASSUME NEW S, NEW s \in Seq(S), s # <<>>, NEW x \in S
    PROVE  /\ [s EXCEPT ![1] = x] \in Seq(S)
           /\ Len([s EXCEPT ![1] = x]) = Len(s)
           /\ \A i \in 1..Len(s) : [s EXCEPT ![1] = x][i] = IF i = 1 THEN x ELSE s[i]
<1>1. 1 \in 1..Len(s)
  BY EmptySeq
<1> QED
  BY <1>1, ExceptSeq

(* A function on 1..n is a sequence.                                       *)
LEMMA FunctionIsSeq ==
    ASSUME NEW S, NEW n \in Nat, NEW f \in [1..n -> S]
    PROVE  f \in Seq(S)
OBVIOUS

(* A CRC is a sequence of values.                                          *)
LEMMA CrcType ==
    ASSUME NEW list \in Seq(Param)
    PROVE  CrcOf(list) \in Seq(Val)
<1>1. Len(list) \in Nat /\ DOMAIN list = 1..Len(list)
  BY LenProperties
<1>2. \A i \in 1..Len(list) : list[i] \in Param
  BY ElementOfSeq
<1>3. \A i \in 1..Len(list) : list[i].val \in Val
  BY <1>2 DEF Param
<1>4. CrcOf(list) \in [1..Len(list) -> Val]
  BY <1>1, <1>3 DEF CrcOf
<1> QED
  BY <1>1, <1>4, FunctionIsSeq

(* Writing a list over the live configuration leaves one.                  *)
LEMMA OverlayType ==
    ASSUME NEW live \in [Addr -> Val], NEW list \in Seq(Param)
    PROVE  Overlay(live, list) \in [Addr -> Val]
<1> SUFFICES ASSUME NEW a \in Addr, LastFor(list, a) # {}
             PROVE  list[CHOOSE i \in LastFor(list, a) : TRUE].val \in Val
  BY DEF Overlay
<1> DEFINE k == CHOOSE i \in LastFor(list, a) : TRUE
<1>1. k \in LastFor(list, a)
  OBVIOUS
<1>2. k \in DOMAIN list
  BY <1>1 DEF LastFor
<1>3. list[k] \in Param
  BY <1>2
<1> QED
  BY <1>3 DEF Param

-----------------------------------------------------------------------------
(* Type correctness.  TypeOK is not inductive by itself: a request about   *)
(* to be sent has a try left, and next is 1 between calls.                 *)

TypeInv ==
    /\ TypeOK
    /\ Idle => next = 1
    /\ pc = "send" => req.left > 0

(* What a caller passes.                                                   *)
LEMMA CallFields ==
    ASSUME NEW c \in Calls \cup {NoCall}
    PROVE  /\ c.list \in Seq(Param) /\ Len(c.list) \in Nat
           /\ c.op = "SetParam" => c.arg \in Addr /\ c.val \in Seq(Val) /\ Len(c.val) = 1
           /\ c.op = "ReadParam" => c.arg \in Addr
<1>1. ASSUME NEW list \in Configs, c = Call("WriteAll", list, 0, <<>>)
      PROVE  c.op = "WriteAll" /\ c.list \in Seq(Param)
  BY <1>1, ClientAssumption DEF Call
<1>2. ASSUME NEW p \in Param, c = Call("SetParam", <<>>, p.addr, <<p.val>>)
      PROVE  /\ c.op = "SetParam" /\ c.list = <<>>
             /\ c.arg \in Addr /\ c.val \in Seq(Val) /\ Len(c.val) = 1
  BY <1>2, OneValue DEF Call, Param
<1>3. ASSUME NEW a \in Addr, c = Call("ReadParam", <<>>, a, <<>>)
      PROVE  c.op = "ReadParam" /\ c.list = <<>> /\ c.arg \in Addr
  BY <1>3 DEF Call
<1>4. ASSUME NEW op \in AllOps \ {"WriteAll", "SetParam", "ReadParam"},
             c = Call(op, <<>>, 0, <<>>)
      PROVE  c.op \notin {"SetParam", "ReadParam"} /\ c.list = <<>>
  BY <1>4 DEF Call
<1>5. ASSUME c = NoCall
      PROVE  c.op = "None" /\ c.list = <<>>
  BY <1>5 DEF NoCall, Call
<1>6. c.list \in Seq(Param) => Len(c.list) \in Nat
  BY LenProperties
<1> QED
  BY <1>1, <1>2, <1>3, <1>4, <1>5, <1>6, EmptyIsSeq DEF Calls

(* The part of TypeInv the device and the link may disturb.                *)
LEMMA DeviceType ==
    ASSUME DeviceTypeOK, DeviceStep
    PROVE  DeviceTypeOK'
<1> USE DEF DeviceTypeOK
<1>h. ASSUME toDev # <<>>
      PROVE  /\ Head(toDev) \in Frame /\ Tail(toDev) \in Seq(Frame)
             /\ Head(toDev).cmd \in Valued =>
                  Head(toDev).arg \in Addr /\ Head(toDev).val[1] \in Val
             /\ Head(toDev).cmd = "Read" => Head(toDev).arg \in Addr
  BY <1>h, QueueType, FrameFields
<1>r. ASSUME NEW f \in Seq(Frame), Reply(f)
      PROVE  fromDev' \in Seq(Frame)
  BY <1>r, QueueType DEF Reply
<1>1. CASE DevWriteAll
  <2>1. Msg("WriteAll", 0, <<>>) \in Frame
    BY EmptyIsSeq, MsgIsFrame DEF Cmds, Valued
  <2> QED
    BY <1>1, <1>h, <1>r, <2>1, OneFrame, EmptyIsSeq DEF DevWriteAll, Take, flashVars, envVars
<1>2. CASE DevWriteAllVal
  <2> DEFINE p == [addr |-> Head(toDev).arg, val |-> Head(toDev).val[1]]
  <2>1. p \in Param
    BY <1>2, <1>h DEF DevWriteAllVal, Take, Valued, Param
  <2>2. staged' \in Seq(Param)
    BY <1>2, <2>1 DEF DevWriteAllVal
  <2> QED
    BY <1>2, <1>h, <2>2 DEF DevWriteAllVal, Take, flashVars, envVars
<1>3. CASE DevWriteAllComplete
  <2>1. Len(staged) \in Nat /\ CrcOf(staged) \in Seq(Val)
    BY CrcType
  <2>2. <<Msg("WriteAllComplete", Len(staged), CrcOf(staged))>> \in Seq(Frame)
    BY <2>1, MsgIsFrame DEF Cmds, Valued
  <2>3. store' \in [Addr -> Val]
    BY <1>3, OverlayType DEF DevWriteAllComplete
  <2> QED
    BY <1>3, <1>h, <1>r, <2>2, <2>3 DEF DevWriteAllComplete, Take, flashVars, envVars
<1>4. CASE DevWrite
  <2> DEFINE p == [addr |-> Head(toDev).arg, val |-> Head(toDev).val[1]]
  <2>1. p \in Param
    BY <1>4, <1>h DEF DevWrite, Take, Valued, Param
  <2>2. CASE p \in Rejected
    BY <1>4, <1>h, <2>2 DEF DevWrite, Take, flashVars, envVars
  <2>3. CASE p \notin Rejected
    <3>1. <<p.val>> \in Seq(Val) /\ Len(<<p.val>>) = 1 /\ p.addr \in Addr /\ p.addr \in Nat
      BY <2>1, OneValue, DeviceAssumption DEF Param
    <3>2. Msg("Write", p.addr, <<p.val>>) \in Frame
      BY <3>1, MsgIsFrame DEF Cmds, Valued
    <3>3. store' \in [Addr -> Val] /\ fromDev' \in Seq(Frame)
      BY <1>4, <1>r, <2>1, <2>3, <3>2, OneFrame DEF DevWrite, Param
    <3> QED
      BY <1>4, <1>h, <3>3 DEF DevWrite, Take, flashVars, envVars
  <2> QED
    BY <2>2, <2>3
<1>5. CASE DevRead
  <2> DEFINE a == Head(toDev).arg
  <2>1. a \in Addr /\ a \in Nat
    BY <1>5, <1>h, DeviceAssumption DEF DevRead, Take
  <2>2. <<store[a]>> \in Seq(Val) /\ Len(<<store[a]>>) = 1
    BY <2>1, OneValue
  <2>3. Msg("Read", a, <<store[a]>>) \in Frame
    BY <2>1, <2>2, MsgIsFrame DEF Cmds, Valued
  <2> QED
    BY <1>5, <1>h, <1>r, <2>3, OneFrame DEF DevRead, Take, flashVars, liveVars, envVars
<1>6. CASE DevReadAll
  <2> DEFINE rsps == [i \in DOMAIN order |->
                         Msg("ReadAllRsp", order[i].addr, <<order[i].val>>)]
             ack == <<Msg("ReadAll", 0, <<>>)>>
             end == <<Msg("ReadAllComplete", Len(order), CrcOf(order))>>
  <2>1. ASSUME NEW i \in 1..Len(order)
        PROVE  Msg("ReadAllRsp", order[i].addr, <<order[i].val>>) \in Frame
    <3>1. order[i] \in Param
      BY ElementOfSeq
    <3>2. order[i].addr \in Addr /\ order[i].addr \in Nat /\ order[i].val \in Val
      BY <3>1, DeviceAssumption DEF Param
    <3> QED
      BY <3>2, OneValue, MsgIsFrame DEF Cmds, Valued
  <2>2. Len(order) \in Nat /\ DOMAIN order = 1..Len(order)
    BY LenProperties
  <2>3. rsps \in [1..Len(order) -> Frame]
    BY <2>1, <2>2
  <2>4. rsps \in Seq(Frame)
    BY <2>2, <2>3, FunctionIsSeq
  <2>5. ack \in Seq(Frame)
    BY EmptyIsSeq, MsgIsFrame, OneFrame DEF Cmds, Valued
  <2>6. end \in Seq(Frame)
    BY <2>2, CrcType, MsgIsFrame DEF Cmds, Valued
  <2>7. ack \o rsps \o end \in Seq(Frame)
    BY <2>4, <2>5, <2>6, ConcatProperties
  <2>8. Reply(ack \o rsps \o end)
    BY <1>6 DEF DevReadAll
  <2>9. fromDev' \in Seq(Frame)
    BY <1>r, <2>7, <2>8
  <2> QED
    BY <1>6, <1>h, <2>9 DEF DevReadAll, Take, flashVars, liveVars, envVars
<1>7. CASE DevCheckCrc
  <2>1. <<Msg("CheckCrcRsp", 0, CrcOf(order))>> \in Seq(Frame)
    BY CrcType, MsgIsFrame DEF Cmds, Valued
  <2> QED
    BY <1>7, <1>h, <1>r, <2>1 DEF DevCheckCrc, Take, flashVars, liveVars, envVars
<1>8. CASE DevBurn
  <2>1. ASSUME NEW v \in Val
        PROVE  Msg("BurnSettings", 0, <<v>>) \in Frame
    <3>1. <<v>> \in Seq(Val)
      BY OneValue
    <3> QED
      BY <3>1, MsgIsFrame DEF Cmds, Valued
  <2>2. fromDev' \in Seq(Frame)
    BY <1>8, <1>r, <2>1, OneFrame, DeviceAssumption DEF DevBurn
  <2>3. flash' \in [store : [Addr -> Val], order : Seq(Param)]
    BY <1>8 DEF DevBurn, Live
  <2> QED
    BY <1>8, <1>h, <2>2, <2>3 DEF DevBurn, Take, liveVars, envVars
<1>9. CASE DevVersion
  <2>1. Msg("Version", 0, <<0>>) \in Frame
    BY DeviceAssumption, OneValue, MsgIsFrame DEF Cmds, Valued
  <2> QED
    BY <1>9, <1>h, <1>r, <2>1, OneFrame DEF DevVersion, Take, flashVars, liveVars, envVars
<1>10. CASE DevBootloader
  BY <1>10, EmptyIsSeq DEF DevBootloader, Detach, flashVars
<1> QED
  BY <1>1, <1>2, <1>3, <1>4, <1>5, <1>6, <1>7, <1>8, <1>9, <1>10 DEF DeviceStep

(* A frame whose value was damaged is still a frame with its command.      *)
LEMMA DamagedFrame ==
    ASSUME NEW f \in Frame, f.cmd \in Damageable, NEW g \in Damaged(f)
    PROVE  g \in Frame /\ g.cmd = f.cmd
<1>1. PICK v \in Val : g = [f EXCEPT !.val = <<v>>]
  BY DEF Damaged
<1>2. <<v>> \in Seq(Val) /\ Len(<<v>>) = 1
  BY OneValue
<1>3. f.cmd \in Valued
  BY DeviceAssumption DEF Valued
<1> QED
  BY <1>1, <1>2, <1>3 DEF Frame

(* The link keeps the types.                                               *)
LEMMA LinkType ==
    ASSUME DeviceTypeOK, LinkStep
    PROVE  DeviceTypeOK'
<1> USE DeviceAssumption DEF DeviceTypeOK
<1>1. CASE DropCommand
  BY <1>1, QueueType DEF DropCommand, liveVars, flashVars
<1>2. CASE LoseReply
  BY <1>2, QueueType DEF LoseReply, liveVars, flashVars
<1>3. CASE DamageCommand
  <2>1. PICK f \in Damaged(Head(toDev)) : toDev' = [toDev EXCEPT ![1] = f]
    BY <1>3 DEF DamageCommand
  <2>2. f \in Frame
    BY <1>3, <2>1, QueueType, DamagedFrame DEF DamageCommand
  <2>3. toDev # <<>>
    BY <1>3 DEF DamageCommand
  <2>4. toDev' \in Seq(Frame)
    BY <2>1, <2>2, <2>3, HeadReplaced
  <2> QED
    BY <1>3, <2>4 DEF DamageCommand, liveVars, flashVars
<1>4. CASE DamageReply
  <2>1. PICK f \in Damaged(Head(fromDev)) : fromDev' = [fromDev EXCEPT ![1] = f]
    BY <1>4 DEF DamageReply
  <2>2. f \in Frame
    BY <1>4, <2>1, QueueType, DamagedFrame DEF DamageReply
  <2>3. fromDev # <<>>
    BY <1>4 DEF DamageReply
  <2>4. fromDev' \in Seq(Frame)
    BY <2>1, <2>2, <2>3, HeadReplaced
  <2> QED
    BY <1>4, <2>4 DEF DamageReply, liveVars, flashVars
<1>5. CASE Reset
  <2>1. resets' \in 0..MaxResets
    BY <1>5 DEF Reset
  <2>2. store' \in [Addr -> Val] /\ order' \in Seq(Param)
    BY <1>5 DEF Reset, Detach
  <2> QED
    BY <1>5, <2>1, <2>2, EmptyIsSeq DEF Reset, Detach, flashVars
<1> QED
  BY <1>1, <1>2, <1>3, <1>4, <1>5 DEF LinkStep

(* The types hold at the start.                                            *)
LEMMA InitType == Init => TypeInv
<1> SUFFICES ASSUME Init PROVE TypeInv
  OBVIOUS
<1> USE DeviceAssumption, ClientAssumption, EmptyIsSeq
<1>1. DeviceTypeOK
  BY DEF Init, DeviceInit, DeviceTypeOK, Live
<1>2. Msg("Version", 0, <<>>) \in Frame
  BY MsgIsFrame DEF Cmds, Valued
<1>3. call = NoCall /\ 1 \in 1..(Len(call.list) + 1)
  BY DEF Init, ClientInit, NoCall, Call
<1>4. req \in [cmd : Frame, left : 0..Tries]
  BY <1>2 DEF Init, ClientInit, NoReq
<1>5. ret \in [ok : BOOLEAN, val : Seq(Val), list : Seq(Param)]
  BY DEF Init, ClientInit, NoRet
<1>6. pc = "idle" /\ next = 1 /\ out = <<>> /\ primed = FALSE /\ sends = 0
      /\ calls = 0 /\ burns = 0
  BY DEF Init, ClientInit
<1>7. 0 \in 0..DumpSends
  BY ClientAssumption
<1> QED
  BY <1>1, <1>3, <1>4, <1>5, <1>6, <1>7, EmptyIsSeq DEF TypeInv, TypeOK, Idle

-----------------------------------------------------------------------------
(* The steps of the client.                                                *)

(* The request there is when there is none.                                *)
LEMMA NoReqType == NoReq \in [cmd : Frame, left : 0..Tries]
<1>1. Msg("Version", 0, <<>>) \in Frame
  BY EmptyIsSeq, MsgIsFrame DEF Cmds, Valued
<1> QED
  BY <1>1, ClientAssumption DEF NoReq

(* What Return sets, whatever it returns.                                  *)
LEMMA ReturnType ==
    ASSUME TypeOK, UNCHANGED callVars, DeviceTypeOK',
           NEW ok \in BOOLEAN, NEW v \in Seq(Val), NEW list \in Seq(Param),
           Return(ok, v, list)
    PROVE  TypeInv'
<1>1. Len(call.list) \in Nat
  BY CallFields DEF TypeOK
<1>2. next' = 1 /\ next' \in 1..(Len(call'.list) + 1)
  BY <1>1 DEF Return, callVars
<1>3. req' \in [cmd : Frame, left : 0..Tries]
  BY NoReqType DEF Return
<1>4. pc' = "idle" /\ out' = <<>> /\ primed' = FALSE /\ sends' = 0 /\ 0 \in 0..DumpSends
      /\ ret' \in [ok : BOOLEAN, val : Seq(Val), list : Seq(Param)]
  BY ClientAssumption DEF Return
<1>5. /\ call' \in Calls \cup {NoCall}
      /\ calls' \in Nat /\ burns' \in Nat
  BY DEF TypeOK, callVars
<1> QED
  BY <1>2, <1>3, <1>4, <1>5, EmptyIsSeq DEF TypeInv, TypeOK, Idle

(* Failing keeps the types.                                                *)
LEMMA FailType ==
    ASSUME TypeOK, UNCHANGED callVars, DeviceTypeOK', Fail
    PROVE  TypeInv'
BY ReturnType, EmptyIsSeq DEF Fail

(* A request sets pc and req only.                                         *)
LEMMA RequestType ==
    ASSUME NEW c, NEW a, NEW v, Msg(c, a, v) \in Frame,
           NEW n \in 1..Tries, Request(c, a, v, n)
    PROVE  /\ pc' = "send"
           /\ req' \in [cmd : Frame, left : 0..Tries] /\ req'.left > 0
BY ClientAssumption DEF Request

(* The commands without an argument.                                       *)
LEMMA PlainFrame ==
    ASSUME NEW c \in Cmds \ (Valued \cup {"Read"})
    PROVE  Msg(c, 0, <<>>) \in Frame
BY EmptyIsSeq, MsgIsFrame DEF Valued

(* Beginning a call keeps the types.                                       *)
LEMMA BeginType ==
    ASSUME TypeInv, NEW c \in Calls, Begin(c), DeviceTypeOK'
    PROVE  TypeInv'
<1> USE ClientAssumption DEF TypeInv, TypeOK
<1>1. DeviceTypeOK'
  OBVIOUS
<1>2. c.op = "SetParam" => c.arg \in Addr /\ c.val \in Seq(Val) /\ Len(c.val) = 1
  BY CallFields
<1>3. c.op = "ReadParam" => c.arg \in Addr
  BY CallFields
<1>4. Len(c.list) \in Nat
  BY CallFields
<1>5. Addr \subseteq Nat
  BY DeviceAssumption
<1>6. \/ /\ pc' = "send"
         /\ req' \in [cmd : Frame, left : 0..Tries] /\ req'.left > 0
      \/ pc' = "dump" /\ req' = req
  <2>a. ASSUME NEW cmd \in Cmds \ (Valued \cup {"Read"}), NEW n \in 1..Tries,
               Request(cmd, 0, <<>>, n)
        PROVE  /\ pc' = "send"
               /\ req' \in [cmd : Frame, left : 0..Tries] /\ req'.left > 0
    BY <2>a, PlainFrame, RequestType
  <2>b. Tries \in 1..Tries /\ 1 \in 1..Tries
    OBVIOUS
  <2>1. CASE c.op = "WriteAll" /\ Request("WriteAll", 0, <<>>, Tries)
    BY <2>1, <2>a, <2>b DEF Cmds, Valued
  <2>2. CASE c.op = "SetParam" /\ Request("Write", c.arg, c.val, Tries)
    <3>1. Msg("Write", c.arg, c.val) \in Frame
      BY <2>2, <1>2, <1>5, MsgIsFrame DEF Cmds, Valued
    <3> QED
      BY <2>2, <2>b, <3>1, RequestType
  <2>3. CASE c.op = "ReadParam" /\ Request("Read", c.arg, <<>>, Tries)
    <3>1. Msg("Read", c.arg, <<>>) \in Frame
      BY <2>3, <1>3, <1>5, EmptyIsSeq, MsgIsFrame DEF Cmds, Valued
    <3> QED
      BY <2>3, <2>b, <3>1, RequestType
  <2>4. CASE c.op = "CheckCrc" /\ Request("CheckCrc", 0, <<>>, Tries)
    BY <2>4, <2>a, <2>b DEF Cmds, Valued
  <2>5. CASE c.op = "Version" /\ Request("Version", 0, <<>>, Tries)
    BY <2>5, <2>a, <2>b DEF Cmds, Valued
  <2>6. CASE c.op = "Burn" /\ Request("BurnSettings", 0, <<>>, BurnTries)
    BY <2>6, <2>a, <2>b DEF Cmds, Valued, BurnTries
  <2>7. CASE c.op = "Bootloader" /\ Request("Bootloader", 0, <<>>, 1)
    BY <2>7, <2>a, <2>b DEF Cmds, Valued
  <2> QED
    BY <2>1, <2>2, <2>3, <2>4, <2>5, <2>6, <2>7 DEF Begin
<1>7. next' = 1 /\ next' \in 1..(Len(call'.list) + 1)
  BY <1>4 DEF Begin, Idle
<1>8. ret' \in [ok : BOOLEAN, val : Seq(Val), list : Seq(Param)]
  BY EmptyIsSeq DEF Begin, NoRet
<1> QED
  BY <1>1, <1>6, <1>7, <1>8 DEF Begin, Idle, readVars

(* A step that leaves the device alone.                                    *)
LEMMA DeviceTypeKept ==
    ASSUME DeviceTypeOK, UNCHANGED deviceVars
    PROVE  DeviceTypeOK'
BY DEF DeviceTypeOK, deviceVars, linkVars, liveVars, flashVars, envVars

(* What the client's steps leave alone of the device, and what they do to  *)
(* the link: nothing, one frame sent, or one received.                     *)
LEMMA ClientLinkType ==
    ASSUME DeviceTypeOK, UNCHANGED <<liveVars, flashVars, envVars>>,
           \/ UNCHANGED linkVars
           \/ UNCHANGED toDev /\ Receive
           \/ UNCHANGED fromDev /\ \E f \in Frame : Send(f)
    PROVE  DeviceTypeOK'
<1> USE DEF DeviceTypeOK, liveVars, flashVars, envVars
<1>1. CASE UNCHANGED linkVars
  BY <1>1 DEF linkVars
<1>2. CASE UNCHANGED toDev /\ Receive
  <2>1. fromDev' \in Seq(Frame)
    BY <1>2, QueueType DEF Receive
  <2> QED
    BY <1>2, <2>1
<1>3. CASE UNCHANGED fromDev /\ \E f \in Frame : Send(f)
  <2>1. toDev' \in Seq(Frame)
    BY <1>3, QueueType DEF Send
  <2> QED
    BY <1>3, <2>1
<1> QED
  BY <1>1, <1>2, <1>3

(* A reply received: its fields, and its parameter if it is of a dump.     *)
LEMMA AnswerType ==
    ASSUME TypeOK, fromDev # <<>>
    PROVE  /\ Answer \in Frame /\ Answer.val \in Seq(Val)
           /\ Answer.cmd = "ReadAllRsp" =>
                [addr |-> Answer.arg, val |-> Answer.val[1]] \in Param
<1>1. Answer \in Frame
  BY QueueType DEF TypeOK, DeviceTypeOK, Answer
<1> QED
  BY <1>1, FrameFields DEF Valued, Param

(* Taking the answer to a single request keeps the types.                  *)
LEMMA AnsweredType ==
    ASSUME TypeOK, NEW cmd, Answered(cmd),
           NEW ok \in BOOLEAN, NEW v \in Seq(Val), NEW list \in Seq(Param),
           Return(ok, v, list)
    PROVE  TypeInv'
<1>1. DeviceTypeOK'
  BY ClientLinkType DEF TypeOK, Answered
<1> QED
  BY <1>1, ReturnType DEF Answered

(* The steps of the request loop, shared by every operation.               *)
LEMMA RequestLoopType ==
    ASSUME TypeInv, SendRequest \/ SendError \/ Timeout \/ SkipReply
    PROVE  TypeInv'
<1> USE ClientAssumption
<1>1. CASE SendRequest
  <2>1. req.cmd \in Frame /\ req.left \in 1..Tries
    BY <1>1 DEF SendRequest, TypeInv, TypeOK
  <2>2. DeviceTypeOK'
    BY <1>1, <2>1, ClientLinkType DEF SendRequest, TypeInv, TypeOK
  <2>3. CASE req.cmd.cmd = "Bootloader"
    <3>1. UNCHANGED callVars /\ Return(TRUE, <<>>, <<>>)
      BY <1>1, <2>3 DEF SendRequest
    <3> QED
      BY <2>2, <3>1, ReturnType, EmptyIsSeq DEF TypeInv
  <2>4. CASE req.cmd.cmd # "Bootloader"
    <3>0. req' = [req EXCEPT !.left = @ - 1] /\ req \in [cmd : Frame, left : 0..Tries]
      BY <1>1, <2>4 DEF SendRequest, TypeInv, TypeOK
    <3>1. req' \in [cmd : Frame, left : 0..Tries]
      BY <2>1, <3>0
    <3>2. pc' = "wait" /\ UNCHANGED <<next, readVars, ret, callVars>>
      BY <1>1, <2>4 DEF SendRequest
    <3> QED
      BY <2>2, <3>1, <3>2 DEF TypeInv, TypeOK, Idle, readVars, callVars
  <2> QED
    BY <2>3, <2>4
<1>2. CASE SendError
  BY <1>2, FailType, ClientLinkType
  DEF SendError, TypeInv, TypeOK, deviceVars
<1>3. CASE Timeout
  <2>1. DeviceTypeOK' /\ UNCHANGED callVars
    BY <1>3, ClientLinkType DEF Timeout, TypeInv, TypeOK, deviceVars
  <2>2. CASE Fail
    BY <2>1, <2>2, FailType DEF TypeInv
  <2>3. CASE req.left > 0 /\ pc' = "send" /\ UNCHANGED <<req, next, readVars, ret>>
    BY <2>1, <2>3 DEF TypeInv, TypeOK, Idle, readVars, callVars
  <2> QED
    BY <1>3, <2>2, <2>3 DEF Timeout
<1>4. CASE SkipReply
  <2>1. DeviceTypeOK'
    BY <1>4, ClientLinkType DEF SkipReply, TypeInv, TypeOK
  <2> QED
    BY <1>4, <2>1
    DEF SkipReply, TypeInv, TypeOK, Idle, clientVars, readVars, callVars
<1> QED
  BY <1>1, <1>2, <1>3, <1>4

(* The steps of WriteAll keep the types.                                   *)
LEMMA WriteAllType ==
    ASSUME TypeInv, WriteAllStarted \/ SendVal \/ ValsSent \/ WriteAllAnswered
    PROVE  TypeInv'
<1>1. Len(call.list) \in Nat /\ call.list \in Seq(Param)
  BY CallFields DEF TypeInv, TypeOK
<1>2. CASE WriteAllStarted
  <2>1. DeviceTypeOK'
    BY <1>2, ClientLinkType DEF WriteAllStarted, Answered, TypeInv, TypeOK
  <2>2. pc' = "vals" /\ next' = 1 /\ UNCHANGED <<callVars, readVars, ret>>
    BY <1>2 DEF WriteAllStarted, Answered
  <2>3. req' \in [cmd : Frame, left : 0..Tries]
    BY <1>2, NoReqType DEF WriteAllStarted
  <2>4. next' \in 1..(Len(call'.list) + 1)
    BY <1>1, <2>2 DEF callVars
  <2> QED
    BY <2>1, <2>2, <2>3, <2>4 DEF TypeInv, TypeOK, Idle, readVars, callVars
<1>3. CASE SendVal
  <2> DEFINE p == call.list[next]
  <2>1. next \in 1..Len(call.list)
    BY <1>1, <1>3 DEF SendVal, TypeInv, TypeOK
  <2>2. p \in Param
    BY <1>1, <2>1, ElementOfSeq
  <2>3. p.addr \in Addr /\ p.addr \in Nat /\ <<p.val>> \in Seq(Val) /\ Len(<<p.val>>) = 1
    BY <2>2, OneValue, DeviceAssumption DEF Param
  <2>4. Msg("WriteAllVal", p.addr, <<p.val>>) \in Frame
    BY <2>3, MsgIsFrame DEF Cmds, Valued
  <2>5. DeviceTypeOK'
    BY <1>3, <2>4, ClientLinkType DEF SendVal, TypeInv, TypeOK
  <2>6. pc' = "vals" /\ next' = next + 1 /\ UNCHANGED <<callVars, req, readVars, ret>>
    BY <1>3 DEF SendVal
  <2>7. next' \in 1..(Len(call'.list) + 1)
    BY <1>1, <2>1, <2>6 DEF callVars
  <2> QED
    BY <2>5, <2>6, <2>7 DEF TypeInv, TypeOK, Idle, readVars, callVars
<1>4. CASE ValsSent
  <2>1. DeviceTypeOK'
    BY <1>4, ClientLinkType DEF ValsSent, TypeInv, TypeOK, deviceVars
  <2>2. Msg("WriteAllComplete", Len(call.list), <<>>) \in Frame
    BY <1>1, EmptyIsSeq, MsgIsFrame DEF Cmds, Valued
  <2>3. Tries \in 1..Tries
    BY ClientAssumption
  <2>4. /\ pc' = "send"
        /\ req' \in [cmd : Frame, left : 0..Tries] /\ req'.left > 0
    BY <1>4, <2>2, <2>3, RequestType DEF ValsSent
  <2>5. UNCHANGED <<callVars, next, readVars, ret>>
    BY <1>4 DEF ValsSent
  <2> QED
    BY <2>1, <2>4, <2>5 DEF TypeInv, TypeOK, Idle, readVars, callVars
<1>5. CASE WriteAllAnswered
  BY <1>5, AnsweredType, EmptyIsSeq DEF WriteAllAnswered, TypeInv, Verified
<1> QED
  BY <1>2, <1>3, <1>4, <1>5

(* The operations that are one request.                                    *)
LEMMA OneRequestType ==
    ASSUME TypeInv,
           \/ SetParamAnswered \/ ReadParamAnswered \/ VersionAnswered
           \/ BurnAnswered \/ CrcAnswered
    PROVE  TypeInv'
<1> USE EmptyIsSeq DEF TypeInv
<1>1. ASSUME fromDev # <<>> PROVE Answer.val \in Seq(Val)
  BY <1>1, AnswerType
<1>2. CASE SetParamAnswered
  BY <1>2, AnsweredType DEF SetParamAnswered
<1>3. CASE ReadParamAnswered
  BY <1>3, <1>1, AnsweredType DEF ReadParamAnswered, Answered, Receive
<1>4. CASE VersionAnswered
  BY <1>4, <1>1, AnsweredType DEF VersionAnswered, Answered, Receive
<1>5. CASE BurnAnswered
  BY <1>5, AnsweredType DEF BurnAnswered
<1>6. CASE CrcAnswered
  <2>1. out \in Seq(Param) /\ Answer.val \in Seq(Val)
    BY <1>6, <1>1 DEF TypeOK, CrcAnswered, Answered, Receive
  <2>2. Answered("CheckCrc")
    BY <1>6 DEF CrcAnswered
  <2>3. CASE call.op = "ReadAll"
    BY <1>6, <2>1, <2>2, <2>3, AnsweredType DEF CrcAnswered
  <2>4. CASE call.op # "ReadAll"
    BY <1>6, <2>1, <2>2, <2>4, AnsweredType DEF CrcAnswered
  <2> QED
    BY <2>3, <2>4
<1> QED
  BY <1>2, <1>3, <1>4, <1>5, <1>6

(* The steps of ReadAll keep the types.                                    *)
LEMMA DumpType ==
    ASSUME TypeInv,
           \/ DumpSend \/ DumpRsp \/ DumpComplete \/ DumpSkip
           \/ DumpQuiet \/ DumpGiveUp
    PROVE  TypeInv'
<1> USE EmptyIsSeq
<1>1. ASSUME DumpReceive PROVE DeviceTypeOK' /\ UNCHANGED callVars /\ fromDev # <<>>
  BY <1>1, ClientLinkType DEF DumpReceive, Receive, TypeInv, TypeOK
<1>2. CASE DumpSend
  <2>1. DeviceTypeOK'
    BY <1>2, PlainFrame, ClientLinkType DEF DumpSend, TypeInv, TypeOK, Cmds, Valued
  <2>2. sends' \in 0..DumpSends
    BY <1>2, ClientAssumption DEF DumpSend, TypeInv, TypeOK
  <2>3. pc' = "dump" /\ UNCHANGED <<callVars, req, next, out, primed, ret>>
    BY <1>2 DEF DumpSend
  <2> QED
    BY <2>1, <2>2, <2>3 DEF TypeInv, TypeOK, Idle, callVars
<1>3. CASE DumpRsp
  <2>1. out' \in Seq(Param)
    BY <1>1, <1>3, AnswerType, QueueType DEF DumpRsp, TypeInv, TypeOK
  <2>2. primed' = TRUE /\ UNCHANGED <<callVars, pc, req, next, sends, ret>>
    BY <1>1, <1>3 DEF DumpRsp
  <2>3. DeviceTypeOK'
    BY <1>1, <1>3 DEF DumpRsp
  <2> QED
    BY <2>1, <2>2, <2>3 DEF TypeInv, TypeOK, Idle, callVars
<1>4. CASE DumpComplete
  <2>1. out \in Seq(Param)
    BY DEF TypeInv, TypeOK
  <2> QED
    BY <1>1, <1>4, <2>1, ReturnType DEF DumpComplete, TypeInv, Verified
<1>5. CASE DumpSkip
  BY <1>1, <1>5 DEF DumpSkip, TypeInv, TypeOK, Idle, readVars, callVars
<1>6. CASE DumpQuiet
  <2>1. DeviceTypeOK'
    BY <1>6, ClientLinkType DEF DumpQuiet, TypeInv, TypeOK, deviceVars
  <2>2. Msg("CheckCrc", 0, <<>>) \in Frame
    BY PlainFrame DEF Cmds, Valued
  <2>3. Tries \in 1..Tries
    BY ClientAssumption
  <2>4. /\ pc' = "send"
        /\ req' \in [cmd : Frame, left : 0..Tries] /\ req'.left > 0
    BY <1>6, <2>2, <2>3, RequestType DEF DumpQuiet
  <2>5. UNCHANGED <<callVars, next, readVars, ret>>
    BY <1>6 DEF DumpQuiet
  <2> QED
    BY <2>1, <2>4, <2>5 DEF TypeInv, TypeOK, Idle, readVars, callVars
<1>7. CASE DumpGiveUp
  BY <1>7, FailType, ClientLinkType DEF DumpGiveUp, TypeInv, TypeOK, deviceVars
<1> QED
  BY <1>2, <1>3, <1>4, <1>5, <1>6, <1>7

(* Every step keeps the types.                                             *)
LEMMA StepType == TypeInv /\ [Next]_vars => TypeInv'
<1> SUFFICES ASSUME TypeInv, [Next]_vars PROVE TypeInv'
  OBVIOUS
<1>1. CASE Begins
  BY <1>1, BeginType, DeviceTypeKept DEF Begins, TypeInv, TypeOK
<1>2. CASE ClientStep
  BY <1>2, RequestLoopType, WriteAllType, OneRequestType, DumpType DEF ClientStep
<1>3. CASE EnvStep
  <2>1. DeviceTypeOK'
    BY <1>3, DeviceType, LinkType DEF EnvStep, TypeInv, TypeOK
  <2> QED
    BY <1>3, <2>1 DEF EnvStep, TypeInv, TypeOK, Idle, clientVars, readVars, callVars
<1>4. CASE UNCHANGED vars
  BY <1>4 DEF TypeInv, TypeOK, DeviceTypeOK, Idle, vars, clientVars, readVars, callVars,
              deviceVars, linkVars, liveVars, flashVars, envVars
<1> QED
  BY <1>1, <1>2, <1>3, <1>4 DEF Next

(* Type correctness (TypeOK) for any set of parameters, values and         *)
(* configurations, any number of tries, faults and calls.                  *)
THEOREM TypeCorrect == Spec => []TypeOK
<1>1. TypeInv => TypeOK
  BY DEF TypeInv
<1> QED
  BY <1>1, InitType, StepType, PTL DEF Spec

-----------------------------------------------------------------------------
(* The flash is written at most once per Burn.  The invariant counts what  *)
(* may still write it: the burn commands on their way to the device, and   *)
(* one more if Burn has not sent its command yet.                          *)

BurnsIn(s) == {i \in DOMAIN s : s[i].cmd = "BurnSettings"}
BurnCount(s) == Cardinality(BurnsIn(s))
IsBurn(f) == f.cmd = "BurnSettings"
One(b) == IF b THEN 1 ELSE 0

(* The burns in a sequence are counted by a natural number.                *)
LEMMA BurnCountType ==
    ASSUME NEW s \in Seq(Frame)
    PROVE  BurnCount(s) \in Nat /\ IsFiniteSet(BurnsIn(s))
<1>1. DOMAIN s = 1..Len(s) /\ Len(s) \in Nat
  BY LenProperties
<1>2. IsFiniteSet(1..Len(s))
  BY <1>1, FS_Interval
<1>3. BurnsIn(s) \in SUBSET (1..Len(s))
  BY <1>1 DEF BurnsIn
<1>4. IsFiniteSet(BurnsIn(s))
  BY <1>2, <1>3, FS_Subset
<1> QED
  BY <1>4, FS_CardinalityType DEF BurnCount

(* There are none in the empty sequence.                                   *)
LEMMA BurnCountEmpty == BurnCount(<<>>) = 0
<1>1. BurnsIn(<<>>) = {}
  BY DEF BurnsIn
<1> QED
  BY <1>1, FS_EmptySet DEF BurnCount

(* Sending one more frame adds one if it is a burn.                        *)
LEMMA BurnCountAppend ==
    ASSUME NEW s \in Seq(Frame), NEW f \in Frame
    PROVE  BurnCount(Append(s, f)) = BurnCount(s) + One(IsBurn(f))
<1> DEFINE t == Append(s, f)
           n == Len(s) + 1
<1>1. /\ Len(s) \in Nat /\ DOMAIN s = 1..Len(s)
      /\ DOMAIN t = 1..n
      /\ \A i \in 1..Len(s) : t[i] = s[i]
      /\ t[n] = f
  BY AppendProperties, LenProperties
<1>2. n \notin BurnsIn(s)
  BY <1>1 DEF BurnsIn
<1>3. CASE IsBurn(f)
  <2>1. BurnsIn(t) = BurnsIn(s) \cup {n}
    BY <1>1, <1>3 DEF BurnsIn, IsBurn
  <2> QED
    BY <1>2, <1>3, <2>1, BurnCountType, FS_AddElement DEF BurnCount, One
<1>4. CASE ~IsBurn(f)
  <2>1. BurnsIn(t) = BurnsIn(s)
    BY <1>1, <1>4 DEF BurnsIn, IsBurn
  <2> QED
    BY <1>4, <2>1, BurnCountType DEF BurnCount, One
<1> QED
  BY <1>3, <1>4

(* Taking the head off removes the head's count: the positions after it    *)
(* move down by one.                                                       *)
LEMMA BurnCountTail ==
    ASSUME NEW s \in Seq(Frame), s # <<>>
    PROVE  BurnCount(s) = BurnCount(Tail(s)) + One(IsBurn(Head(s)))
<1> DEFINE t == Tail(s)
           B == BurnsIn(s) \ {1}
           f == [i \in BurnsIn(t) |-> i + 1]
<1>1. /\ Len(s) \in Nat /\ Len(s) > 0 /\ DOMAIN s = 1..Len(s)
      /\ t \in Seq(Frame) /\ Len(t) = Len(s) - 1 /\ DOMAIN t = 1..Len(t)
      /\ \A i \in 1..Len(t) : t[i] = s[i + 1]
      /\ Head(s) = s[1]
  BY HeadTailProperties, LenProperties, EmptySeq
<1>2. f \in [BurnsIn(t) -> B]
  BY <1>1 DEF BurnsIn
<1>3. f \in Injection(BurnsIn(t), B)
  BY <1>1, <1>2 DEF Injection, IsInjective, BurnsIn
<1>4. \A j \in B : j - 1 \in BurnsIn(t) /\ f[j - 1] = j
  BY <1>1 DEF BurnsIn
<1>5. f \in Surjection(BurnsIn(t), B)
  BY <1>2, <1>4 DEF Surjection
<1>6. IsFiniteSet(BurnsIn(t)) /\ IsFiniteSet(BurnsIn(s)) /\ BurnCount(t) \in Nat
  BY <1>1, BurnCountType
<1>7. Cardinality(B) = BurnCount(t)
  BY <1>3, <1>5, <1>6, FS_Surjection DEF BurnCount
<1>8. 1 \in BurnsIn(s) <=> IsBurn(Head(s))
  BY <1>1 DEF BurnsIn, IsBurn
<1>9. Cardinality(B) = IF 1 \in BurnsIn(s) THEN BurnCount(s) - 1 ELSE BurnCount(s)
  BY <1>6, FS_RemoveElement DEF BurnCount
<1>10. BurnCount(s) \in Nat
  BY BurnCountType
<1> QED
  BY <1>6, <1>7, <1>8, <1>9, <1>10 DEF One

(* A damaged command is the same command.                                  *)
LEMMA BurnCountDamage ==
    ASSUME NEW s \in Seq(Frame), s # <<>>, NEW f \in Frame, f.cmd = Head(s).cmd
    PROVE  BurnCount([s EXCEPT ![1] = f]) = BurnCount(s)
<1> DEFINE t == [s EXCEPT ![1] = f]
<1>1. /\ DOMAIN t = DOMAIN s /\ DOMAIN s = 1..Len(s) /\ Head(s) = s[1]
      /\ \A i \in 1..Len(s) : t[i] = IF i = 1 THEN f ELSE s[i]
  BY HeadReplaced, LenProperties
<1>2. BurnsIn(t) = BurnsIn(s)
  BY <1>1 DEF BurnsIn
<1> QED
  BY <1>2 DEF BurnCount

(* Flash writes that have happened or are on their way.                    *)
Committed == flashes + BurnCount(toDev)

BurnInv ==
    /\ Committed + One(pc = "send" /\ IsBurn(req.cmd)) <= burns
    /\ IsBurn(req.cmd) => req.left = One(pc = "send")

(* So are the burns the device can still make, and those it has made.      *)
LEMMA CommittedType == TypeInv => Committed \in Nat /\ burns \in Nat
<1> SUFFICES ASSUME TypeInv PROVE Committed \in Nat /\ burns \in Nat
  OBVIOUS
<1>1. toDev \in Seq(Frame) /\ flashes \in Nat /\ burns \in Nat
  BY DEF TypeInv, TypeOK, DeviceTypeOK
<1>2. BurnCount(toDev) \in Nat
  BY <1>1, BurnCountType
<1> QED
  BY <1>1, <1>2 DEF Committed

(* The device writes the flash once for a burn command it takes; faults    *)
(* only lose commands.                                                     *)
LEMMA CommittedByEnv ==
    ASSUME TypeInv, DeviceStep \/ LinkStep
    PROVE  Committed' <= Committed
<1> USE DEF Committed
<1>1. toDev \in Seq(Frame) /\ flashes \in Nat
  BY DEF TypeInv, TypeOK, DeviceTypeOK
<1>2. BurnCount(toDev) \in Nat
  BY <1>1, BurnCountType
<1>3. ASSUME toDev # <<>>, toDev' = Tail(toDev)
      PROVE  /\ BurnCount(toDev') \in Nat
             /\ BurnCount(toDev) = BurnCount(toDev') + One(IsBurn(Head(toDev)))
  BY <1>1, <1>3, BurnCountType, BurnCountTail, HeadTailProperties
<1>4. CASE \/ DevWriteAll \/ DevWriteAllVal \/ DevWriteAllComplete \/ DevWrite
           \/ DevRead \/ DevReadAll \/ DevCheckCrc \/ DevVersion
  <2>1. toDev # <<>> /\ toDev' = Tail(toDev) /\ flashes' = flashes
    BY <1>4 DEF DevWriteAll, DevWriteAllVal, DevWriteAllComplete, DevWrite,
                DevRead, DevReadAll, DevCheckCrc, DevVersion, Take, flashVars
  <2> QED
    BY <1>1, <1>2, <1>3, <2>1 DEF One
<1>5. CASE DevBurn
  <2>1. toDev # <<>> /\ toDev' = Tail(toDev) /\ flashes' = flashes + 1
    BY <1>5 DEF DevBurn, Take
  <2>2. IsBurn(Head(toDev))
    BY <1>5 DEF DevBurn, Take, IsBurn
  <2> QED
    BY <1>1, <1>2, <1>3, <2>1, <2>2 DEF One
<1>6. CASE DropCommand
  <2>1. toDev # <<>> /\ toDev' = Tail(toDev) /\ flashes' = flashes
    BY <1>6 DEF DropCommand, flashVars
  <2> QED
    BY <1>1, <1>2, <1>3, <2>1 DEF One
<1>7. CASE DevBootloader \/ Reset
  <2>1. toDev' = <<>> /\ flashes' = flashes
    BY <1>7 DEF DevBootloader, Reset, Detach, flashVars
  <2> QED
    BY <1>1, <1>2, <2>1, BurnCountEmpty
<1>8. CASE LoseReply \/ DamageReply
  <2>1. toDev' = toDev /\ flashes' = flashes
    BY <1>8 DEF LoseReply, DamageReply, flashVars
  <2> QED
    BY <1>1, <1>2, <2>1
<1>9. CASE DamageCommand
  <2>1. PICK f \in Damaged(Head(toDev)) : toDev' = [toDev EXCEPT ![1] = f]
    BY <1>9 DEF DamageCommand
  <2>2. f \in Frame /\ f.cmd = Head(toDev).cmd /\ toDev # <<>>
    BY <1>1, <1>9, <2>1, HeadTailProperties, DamagedFrame DEF DamageCommand
  <2>3. BurnCount(toDev') = BurnCount(toDev)
    BY <1>1, <2>1, <2>2, BurnCountDamage
  <2>4. flashes' = flashes
    BY <1>9 DEF DamageCommand, flashVars
  <2> QED
    BY <1>1, <1>2, <2>3, <2>4
<1> QED
  BY <1>4, <1>5, <1>6, <1>7, <1>8, <1>9 DEF DeviceStep, LinkStep

(* Sending a frame adds its own count.                                     *)
LEMMA CommittedBySend ==
    ASSUME TypeInv, NEW f \in Frame, Send(f), UNCHANGED flashes
    PROVE  Committed' = Committed + One(IsBurn(f))
<1>1. toDev \in Seq(Frame) /\ flashes \in Nat
  BY DEF TypeInv, TypeOK, DeviceTypeOK
<1>2. BurnCount(toDev) \in Nat
  BY <1>1, BurnCountType
<1>3. BurnCount(toDev') = BurnCount(toDev) + One(IsBurn(f))
  BY <1>1, BurnCountAppend DEF Send
<1> QED
  BY <1>1, <1>2, <1>3 DEF Committed, One

(* Every step that neither begins nor sends a burn: the request stays what *)
(* it was, or becomes one that is no burn.                                 *)
LEMMA BurnInvKept ==
    ASSUME TypeInv, TypeInv', BurnInv, UNCHANGED burns, Committed' <= Committed,
           ~IsBurn(req'.cmd) \/ UNCHANGED <<pc, req>>
    PROVE  BurnInv'
<1> DEFINE due == One(pc = "send" /\ IsBurn(req.cmd))
<1>1. Committed \in Nat /\ burns \in Nat /\ burns' \in Nat
  BY CommittedType
<1>2. toDev' \in Seq(Frame) /\ flashes' \in Nat
  BY DEF TypeInv, TypeOK, DeviceTypeOK
<1>3. BurnCount(toDev') \in Nat
  BY <1>2, BurnCountType
<1>4. flashes' + BurnCount(toDev') <= Committed
  BY DEF Committed
<1>5. due \in {0, 1} /\ Committed + due <= burns'
  BY DEF BurnInv, One
<1>6. \A k \in {0, due} : flashes' + BurnCount(toDev') + k <= burns'
  <2> HIDE DEF due
  <2> QED
    BY <1>1, <1>2, <1>3, <1>4, <1>5
<1>7. CASE ~IsBurn(req'.cmd)
  <2>1. due' = 0
    BY <1>7 DEF One
  <2> QED
    BY <1>6, <1>7, <2>1 DEF BurnInv, Committed
<1>8. CASE UNCHANGED <<pc, req>>
  <2>1. due' = due
    BY <1>8
  <2>2. IsBurn(req'.cmd) => req'.left = One(pc' = "send")
    BY <1>8 DEF BurnInv
  <2> QED
    BY <1>6, <2>1, <2>2 DEF BurnInv, Committed
<1> QED
  BY <1>7, <1>8

(* A call that has returned has no burn to send.                           *)
LEMMA ReturnIsNoBurn ==
    ASSUME NEW ok, NEW v, NEW list, Return(ok, v, list)
    PROVE  ~IsBurn(req'.cmd)
BY DEF Return, NoReq, Msg, IsBurn

(* Beginning a call keeps the burn invariant.                              *)
LEMMA BeginBurn ==
    ASSUME TypeInv, TypeInv', BurnInv, NEW c \in Calls, Begin(c), UNCHANGED <<toDev, flashes>>
    PROVE  BurnInv'
<1>1. Committed' = Committed /\ Committed \in Nat /\ burns \in Nat
  BY CommittedType DEF Committed
<1>2. pc = "idle" /\ Committed <= burns
  BY <1>1 DEF BurnInv, Begin, Idle, One
<1>3. CASE c.op = "Burn"
  <2>1. pc' = "send" /\ burns' = burns + 1 /\ req'.left = 1
    BY <1>3 DEF Begin, Request, BurnTries
  <2> QED
    BY <1>1, <1>2, <2>1 DEF BurnInv, One
<1>4. CASE c.op = "ReadAll"
  <2>1. pc' = "dump" /\ burns' = burns /\ req' = req
    BY <1>4 DEF Begin
  <2> QED
    BY <1>1, <1>2, <2>1 DEF BurnInv, One
<1>5. CASE c.op \notin {"Burn", "ReadAll"}
  <2>1. ~IsBurn(req'.cmd) /\ burns' = burns
    BY <1>5 DEF Begin, Request, Msg, IsBurn
  <2> QED
    BY <1>1, <2>1, BurnInvKept
<1> QED
  BY <1>3, <1>4, <1>5

(* The client's steps keep it.                                             *)
LEMMA ClientBurn ==
    ASSUME TypeInv, TypeInv', BurnInv, ClientStep
    PROVE  BurnInv'
<1>0. Committed \in Nat /\ burns \in Nat
  BY CommittedType
<1>1. UNCHANGED burns /\ UNCHANGED flashes
  BY DEF ClientStep, SendRequest, SendError, Timeout, SkipReply, WriteAllStarted, SendVal,
         ValsSent, WriteAllAnswered, SetParamAnswered, ReadParamAnswered, VersionAnswered,
         BurnAnswered, CrcAnswered, DumpSend, DumpRsp, DumpComplete, DumpSkip, DumpQuiet,
         DumpGiveUp, DumpReceive, Answered, clientVars, callVars, deviceVars, flashVars
<1>2. ASSUME UNCHANGED toDev PROVE Committed' <= Committed
  BY <1>0, <1>1, <1>2 DEF Committed
<1>3. CASE SendRequest
  <2>1. req.cmd \in Frame /\ Send(req.cmd) /\ pc = "send"
    BY <1>3 DEF SendRequest, TypeInv, TypeOK
  <2>2. Committed' = Committed + One(IsBurn(req.cmd))
    BY <1>1, <2>1, CommittedBySend
  <2>3. CASE req.cmd.cmd = "Bootloader"
    <3>1. ~IsBurn(req.cmd) /\ ~IsBurn(req'.cmd)
      BY <1>3, <2>3, ReturnIsNoBurn DEF SendRequest, IsBurn
    <3> QED
      BY <1>0, <1>1, <2>2, <3>1, BurnInvKept DEF One
  <2>4. CASE req.cmd.cmd # "Bootloader"
    <3>1. pc' = "wait" /\ req'.cmd = req.cmd /\ req'.left = req.left - 1
      BY <1>3, <2>4 DEF SendRequest, TypeInv, TypeOK
    <3> QED
      BY <1>0, <1>1, <2>1, <2>2, <3>1 DEF BurnInv, One
  <2> QED
    BY <2>3, <2>4
<1>4. CASE Timeout
  <2>1. UNCHANGED toDev /\ pc = "wait"
    BY <1>4 DEF Timeout, deviceVars, linkVars
  <2>2. CASE req.left > 0
    <3>1. ~IsBurn(req.cmd) /\ req' = req
      BY <1>4, <2>1, <2>2 DEF Timeout, BurnInv, One
    <3> QED
      BY <1>1, <1>2, <2>1, <3>1, BurnInvKept
  <2>3. CASE ~(req.left > 0)
    <3>1. ~IsBurn(req'.cmd)
      BY <1>4, <2>3, ReturnIsNoBurn DEF Timeout, Fail
    <3> QED
      BY <1>1, <1>2, <2>1, <3>1, BurnInvKept
  <2> QED
    BY <2>2, <2>3
<1>5. CASE SendVal \/ DumpSend
  <2>1. PICK f \in Frame : Send(f) /\ ~IsBurn(f)
    <3>1. CASE DumpSend
      BY <3>1, PlainFrame DEF DumpSend, Cmds, Valued, IsBurn, Msg
    <3>2. CASE SendVal
      <4> DEFINE p == call.list[next]
      <4>1. call.list \in Seq(Param) /\ next \in 1..Len(call.list)
        BY <3>2, CallFields DEF SendVal, TypeInv, TypeOK
      <4>2. p \in Param
        BY <4>1, ElementOfSeq
      <4>3. p.addr \in Addr /\ p.addr \in Nat /\ <<p.val>> \in Seq(Val) /\ Len(<<p.val>>) = 1
        BY <4>2, OneValue, DeviceAssumption DEF Param
      <4>4. Msg("WriteAllVal", p.addr, <<p.val>>) \in Frame
        BY ZenonT(30), <4>3, MsgIsFrame DEF Cmds, Valued
      <4>5. ~IsBurn(Msg("WriteAllVal", p.addr, <<p.val>>))
        BY DEF IsBurn, Msg
      <4> QED
        BY <3>2, <4>4, <4>5 DEF SendVal
    <3> QED
      BY <1>5, <3>1, <3>2
  <2>2. Committed' <= Committed
    BY <1>0, <1>1, <2>1, CommittedBySend DEF One
  <2>3. UNCHANGED <<pc, req>>
    BY <1>5 DEF SendVal, DumpSend
  <2> QED
    BY <1>1, <2>2, <2>3, BurnInvKept
<1>6. CASE SkipReply \/ DumpRsp \/ DumpSkip
  <2>1. UNCHANGED <<toDev, pc, req>>
    BY <1>6 DEF SkipReply, DumpRsp, DumpSkip, DumpReceive, clientVars
  <2> QED
    BY <1>1, <1>2, <2>1, BurnInvKept
<1>7. CASE WriteAllStarted \/ ValsSent \/ DumpQuiet
  <2>1. UNCHANGED toDev
    BY <1>7 DEF WriteAllStarted, Answered, ValsSent, DumpQuiet, deviceVars, linkVars
  <2>2. ~IsBurn(req'.cmd)
    BY <1>7 DEF WriteAllStarted, ValsSent, DumpQuiet, Request, NoReq, Msg, IsBurn
  <2> QED
    BY <1>1, <1>2, <2>1, <2>2, BurnInvKept
<1>8. CASE \/ SendError \/ WriteAllAnswered \/ SetParamAnswered \/ ReadParamAnswered
           \/ VersionAnswered \/ BurnAnswered \/ CrcAnswered \/ DumpComplete \/ DumpGiveUp
  <2>1. UNCHANGED toDev
    BY <1>8 DEF SendError, WriteAllAnswered, SetParamAnswered, ReadParamAnswered,
                VersionAnswered, BurnAnswered, CrcAnswered, DumpComplete, DumpGiveUp,
                DumpReceive, Answered, deviceVars, linkVars
  <2>2. ~IsBurn(req'.cmd)
    BY <1>8, ReturnIsNoBurn
    DEF SendError, WriteAllAnswered, SetParamAnswered, ReadParamAnswered,
        VersionAnswered, BurnAnswered, CrcAnswered, DumpComplete, DumpGiveUp, Fail
  <2> QED
    BY <1>1, <1>2, <2>1, <2>2, BurnInvKept
<1> QED
  BY <1>3, <1>4, <1>5, <1>6, <1>7, <1>8 DEF ClientStep

(* It holds at the start.                                                  *)
LEMMA InitBurn == Init => BurnInv
<1> SUFFICES ASSUME Init PROVE BurnInv
  OBVIOUS
<1>1. flashes = 0 /\ toDev = <<>> /\ burns = 0 /\ ~IsBurn(req.cmd)
  BY DEF Init, DeviceInit, ClientInit, NoReq, Msg, IsBurn
<1> QED
  BY <1>1, BurnCountEmpty DEF BurnInv, Committed, One

(* Every step keeps it.                                                    *)
LEMMA StepBurn ==
    TypeInv /\ TypeInv' /\ BurnInv /\ [Next]_vars => BurnInv'
<1> SUFFICES ASSUME TypeInv, TypeInv', BurnInv, [Next]_vars PROVE BurnInv'
  OBVIOUS
<1>1. CASE Begins
  BY <1>1, BeginBurn DEF Begins, deviceVars, linkVars, flashVars
<1>2. CASE ClientStep
  BY <1>2, ClientBurn
<1>3. CASE EnvStep
  BY <1>3, CommittedByEnv, BurnInvKept DEF EnvStep, clientVars, callVars
<1>4. CASE UNCHANGED vars
  BY <1>4, CommittedType, BurnInvKept
  DEF vars, clientVars, callVars, deviceVars, linkVars, flashVars, Committed
<1> QED
  BY <1>1, <1>2, <1>3, <1>4 DEF Next

(* OneFlashPerBurn (protocol.go:276-277): whatever is dropped, lost, late, *)
(* reset or given up, the flash is written at most once for a call of Burn.*)
THEOREM FlashedOnce == Spec => []OneFlashPerBurn
<1>1. TypeInv /\ BurnInv => OneFlashPerBurn
  <2> SUFFICES ASSUME TypeInv, BurnInv PROVE flashes <= burns
    BY DEF OneFlashPerBurn
  <2>1. flashes \in Nat /\ BurnCount(toDev) \in Nat /\ burns \in Nat
    BY BurnCountType DEF TypeInv, TypeOK, DeviceTypeOK
  <2> QED
    BY <2>1 DEF BurnInv, Committed, One
<1> QED
  BY <1>1, InitType, StepType, InitBurn, StepBurn, PTL DEF Spec

-----------------------------------------------------------------------------
(* What is on the link while WriteAll is under way: w commands that start  *)
(* it, the values of the parameters b+1 to n of the list, and commands     *)
(* that complete it, unless values are still being sent (open).  The link  *)
(* loses at its head only, so that the values on it are consecutive.       *)

Of(cs) == {f \in Frame : f.cmd \in cs}

OnLink(s, list, w, b, n, open) ==
    /\ w \in Nat /\ b \in Nat /\ n \in Nat /\ b <= n /\ n <= Len(list)
    /\ w + n - b <= Len(s)
    /\ \A i \in 1..Len(s) :
          /\ i <= w => s[i].cmd = "WriteAll"
          /\ w < i /\ i <= w + n - b =>
                s[i].cmd = "WriteAllVal" /\ s[i].arg = list[b + i - w].addr
          /\ w + n - b < i => s[i].cmd = "WriteAllComplete" /\ ~open

(* What the device may have staged when b values have left the link: some  *)
(* of the first b parameters, in order.  The i-th of them has i - 1 before *)
(* it in the list and the rest of the staged ones after it.                *)
StagedOf(s, list, b) ==
    \A i \in 1..Len(s) : \E p \in i..(b - (Len(s) - i)) : s[i].addr = list[p].addr

(* The link's oldest command, and what is left when it is taken off.       *)
LEMMA OnLinkHead ==
    ASSUME NEW s \in Seq(Frame), s # <<>>, NEW list \in Seq(Param),
           NEW w, NEW b, NEW n, NEW open, OnLink(s, list, w, b, n, open)
    PROVE  \/ /\ Head(s).cmd = "WriteAll"
              /\ \E u \in Nat : OnLink(Tail(s), list, u, b, n, open)
           \/ /\ Head(s).cmd = "WriteAllVal" /\ w = 0 /\ b < n
              /\ Head(s).arg = list[b + 1].addr
              /\ OnLink(Tail(s), list, 0, b + 1, n, open)
           \/ /\ Head(s).cmd = "WriteAllComplete" /\ ~open /\ w = 0 /\ b = n
              /\ OnLink(Tail(s), list, 0, n, n, open)
<1> DEFINE t == Tail(s)
<1>1. /\ Len(s) \in Nat /\ Len(s) > 0 /\ Len(t) = Len(s) - 1 /\ Head(s) = s[1]
      /\ \A i \in 1..Len(t) : t[i] = s[i + 1]
  BY HeadTailProperties, LenProperties, EmptySeq
<1>2. 1 \in 1..Len(s) /\ \A i \in 1..Len(t) : i + 1 \in 1..Len(s)
  BY <1>1
<1>3. w \in Nat /\ b \in Nat /\ n \in Nat /\ b <= n /\ n <= Len(list) /\ w + n - b <= Len(s)
  BY DEF OnLink
<1>4. \A i \in 1..Len(s) :
          /\ i <= w => s[i].cmd = "WriteAll"
          /\ w < i /\ i <= w + n - b =>
                s[i].cmd = "WriteAllVal" /\ s[i].arg = list[b + i - w].addr
          /\ w + n - b < i => s[i].cmd = "WriteAllComplete" /\ ~open
  BY DEF OnLink
<1> HIDE DEF t
<1>5. CASE w > 0
  <2>1. Head(s).cmd = "WriteAll"
    BY <1>1, <1>2, <1>3, <1>4, <1>5
  <2>2. \A i \in 1..Len(t) :
          /\ i <= w - 1 => t[i].cmd = "WriteAll"
          /\ w - 1 < i /\ i <= (w - 1) + n - b =>
                t[i].cmd = "WriteAllVal" /\ t[i].arg = list[b + i - (w - 1)].addr
          /\ (w - 1) + n - b < i => t[i].cmd = "WriteAllComplete" /\ ~open
    <3> TAKE i \in 1..Len(t)
    <3>1. i + 1 \in 1..Len(s) /\ t[i] = s[i + 1] /\ b + i - (w - 1) = b + (i + 1) - w
      BY <1>1, <1>2, <1>3, <1>5
    <3> QED
      BY <1>3, <1>4, <1>5, <3>1
  <2>3. w - 1 \in Nat /\ (w - 1) + n - b <= Len(t)
    BY <1>1, <1>3, <1>5
  <2>4. OnLink(t, list, w - 1, b, n, open)
    BY <1>3, <2>2, <2>3 DEF OnLink
  <2> QED
    BY <2>1, <2>3, <2>4 DEF t
<1>6. CASE w = 0 /\ b < n
  <2>1. Head(s).cmd = "WriteAllVal" /\ Head(s).arg = list[b + 1].addr
    BY <1>1, <1>2, <1>3, <1>4, <1>6
  <2>2. \A i \in 1..Len(t) :
          /\ i <= 0 => t[i].cmd = "WriteAll"
          /\ 0 < i /\ i <= 0 + n - (b + 1) =>
                t[i].cmd = "WriteAllVal" /\ t[i].arg = list[(b + 1) + i - 0].addr
          /\ 0 + n - (b + 1) < i => t[i].cmd = "WriteAllComplete" /\ ~open
    <3> TAKE i \in 1..Len(t)
    <3>1. i + 1 \in 1..Len(s) /\ t[i] = s[i + 1] /\ (b + 1) + i - 0 = b + (i + 1) - w
      BY <1>1, <1>2, <1>3, <1>6
    <3> QED
      BY <1>3, <1>4, <1>6, <3>1
  <2>3. b + 1 \in Nat /\ b + 1 <= n /\ 0 + n - (b + 1) <= Len(t)
    BY <1>1, <1>3, <1>6
  <2>4. OnLink(t, list, 0, b + 1, n, open)
    BY <1>3, <2>2, <2>3 DEF OnLink
  <2> QED
    BY <1>6, <2>1, <2>4 DEF t
<1>7. CASE w = 0 /\ b = n
  <2>1. Head(s).cmd = "WriteAllComplete" /\ ~open
    BY <1>1, <1>2, <1>3, <1>4, <1>7
  <2>2. \A i \in 1..Len(t) : t[i].cmd = "WriteAllComplete"
    BY <1>1, <1>2, <1>3, <1>4, <1>7
  <2>3. OnLink(t, list, 0, n, n, open)
    BY <1>1, <1>3, <1>7, <2>1, <2>2 DEF OnLink
  <2> QED
    BY <1>7, <2>1, <2>3 DEF t
<1> QED
  BY <1>3, <1>5, <1>6, <1>7

(* The next value is sent, while values are being sent.                    *)
LEMMA OnLinkValue ==
    ASSUME NEW s \in Seq(Frame), NEW list \in Seq(Param), NEW f \in Frame,
           NEW w, NEW b, NEW n, OnLink(s, list, w, b, n, TRUE), n < Len(list),
           f.cmd = "WriteAllVal", f.arg = list[n + 1].addr
    PROVE  OnLink(Append(s, f), list, w, b, n + 1, TRUE)
<1> DEFINE t == Append(s, f)
<1>1. /\ Len(s) \in Nat /\ Len(t) = Len(s) + 1 /\ t[Len(s) + 1] = f
      /\ \A i \in 1..Len(s) : t[i] = s[i]
  BY AppendProperties, LenProperties
<1>2. w \in Nat /\ b \in Nat /\ n \in Nat /\ b <= n /\ n <= Len(list) /\ w + n - b <= Len(s)
      /\ Len(list) \in Nat
  BY LenProperties DEF OnLink
<1>3. \A i \in 1..Len(s) :
          /\ i <= w => s[i].cmd = "WriteAll"
          /\ w < i /\ i <= w + n - b =>
                s[i].cmd = "WriteAllVal" /\ s[i].arg = list[b + i - w].addr
          /\ i <= w + n - b
  BY DEF OnLink
<1> HIDE DEF t
<1>4. Len(s) = w + n - b
  <2>1. CASE Len(s) = 0
    BY <1>1, <1>2, <2>1
  <2>2. CASE Len(s) > 0
    <3>1. Len(s) \in 1..Len(s)
      BY <1>1, <2>2
    <3>2. \A i \in 1..Len(s) : i <= w + n - b
      BY <1>3, Zenon
    <3>3. Len(s) <= w + n - b
      BY <3>1, <3>2, Zenon
    <3>4. /\ Len(s) \in Nat /\ w \in Nat /\ n \in Nat /\ b \in Nat
          /\ w + n - b <= Len(s)
      BY <1>1, <1>2
    <3> QED
      BY <3>3, <3>4
  <2> QED
    BY <1>1, <2>1, <2>2
<1>5. /\ f.cmd = "WriteAllVal" /\ f.arg = list[n + 1].addr /\ n + 1 <= Len(list)
      /\ Len(t) = w + (n + 1) - b
  BY <1>1, <1>2, <1>4
<1>6. ASSUME NEW i \in 1..Len(s)
      PROVE  /\ i <= w => t[i].cmd = "WriteAll"
             /\ w < i => t[i].cmd = "WriteAllVal" /\ t[i].arg = list[b + i - w].addr
  BY <1>1, <1>3
<1>7. /\ Len(s) + 1 > w /\ b + (Len(s) + 1) - w = n + 1
      /\ 1..Len(t) = 1..Len(s) \cup {Len(s) + 1}
  BY <1>1, <1>2, <1>4
<1>8. ASSUME NEW i \in 1..Len(t)
      PROVE  /\ i <= w => t[i].cmd = "WriteAll"
             /\ w < i => t[i].cmd = "WriteAllVal" /\ t[i].arg = list[b + i - w].addr
  <2>1. CASE i \in 1..Len(s)
    BY <1>6, <2>1
  <2>2. CASE i = Len(s) + 1
    <3>1. t[i] = f /\ ~(i <= w) /\ b + i - w = n + 1
      BY <1>1, <1>2, <1>7, <2>2
    <3> QED
      BY <1>5, <3>1
  <2> QED
    BY <1>7, <2>1, <2>2
<1>9. n + 1 \in Nat /\ b <= n + 1 /\ \A i \in 1..Len(t) : ~(w + (n + 1) - b < i)
  BY SMTT(30), <1>1, <1>2, <1>5
<1>10. OnLink(t, list, w, b, n + 1, TRUE)
  BY <1>1, <1>2, <1>5, <1>8, <1>9 DEF OnLink
<1> QED
  BY <1>10 DEF t

(* Every value is sent, and a completion may be.                           *)
LEMMA OnLinkClosed ==
    ASSUME NEW s \in Seq(Frame), NEW list \in Seq(Param), NEW f \in Frame,
           NEW w, NEW b, NEW n, NEW open, OnLink(s, list, w, b, n, open),
           f.cmd = "WriteAllComplete"
    PROVE  OnLink(s, list, w, b, n, FALSE) /\ OnLink(Append(s, f), list, w, b, n, FALSE)
<1> DEFINE t == Append(s, f)
<1>1. /\ Len(s) \in Nat /\ Len(t) = Len(s) + 1 /\ t[Len(s) + 1] = f
      /\ \A i \in 1..Len(s) : t[i] = s[i]
  BY AppendProperties, LenProperties
<1>2. w \in Nat /\ b \in Nat /\ n \in Nat /\ b <= n /\ n <= Len(list) /\ w + n - b <= Len(s)
  BY DEF OnLink
<1>3. OnLink(s, list, w, b, n, FALSE)
  BY DEF OnLink
<1>4. \A i \in 1..Len(s) :
          /\ i <= w => s[i].cmd = "WriteAll"
          /\ w < i /\ i <= w + n - b =>
                s[i].cmd = "WriteAllVal" /\ s[i].arg = list[b + i - w].addr
          /\ w + n - b < i => s[i].cmd = "WriteAllComplete"
  BY DEF OnLink
<1> HIDE DEF t
<1>5. ASSUME NEW i \in 1..Len(t)
      PROVE  /\ i <= w => t[i].cmd = "WriteAll"
             /\ w < i /\ i <= w + n - b =>
                   t[i].cmd = "WriteAllVal" /\ t[i].arg = list[b + i - w].addr
             /\ w + n - b < i => t[i].cmd = "WriteAllComplete"
  <2>1. CASE i \in 1..Len(s)
    BY <1>1, <1>4, <2>1
  <2>2. CASE i = Len(s) + 1
    BY <1>1, <1>2, <2>2
  <2> QED
    BY <1>1, <2>1, <2>2
<1>6. OnLink(t, list, w, b, n, FALSE)
  BY <1>1, <1>2, <1>5 DEF OnLink
<1> QED
  BY <1>3, <1>6 DEF t

(* A damaged command keeps its place.                                      *)
LEMMA OnLinkDamage ==
    ASSUME NEW s \in Seq(Frame), s # <<>>, NEW list, NEW f \in Frame,
           f.cmd = Head(s).cmd, f.arg = Head(s).arg,
           NEW w, NEW b, NEW n, NEW open, OnLink(s, list, w, b, n, open)
    PROVE  OnLink([s EXCEPT ![1] = f], list, w, b, n, open)
<1> DEFINE t == [s EXCEPT ![1] = f]
<1>1. /\ Len(t) = Len(s) /\ Head(s) = s[1]
      /\ \A i \in 1..Len(s) : t[i] = IF i = 1 THEN f ELSE s[i]
  BY HeadReplaced, HeadTailProperties
<1> HIDE DEF t
<1>2. \A i \in 1..Len(s) : t[i].cmd = s[i].cmd /\ t[i].arg = s[i].arg
  BY <1>1
<1>3. OnLink(t, list, w, b, n, open)
  BY <1>1, <1>2 DEF OnLink
<1> QED
  BY <1>3 DEF t

(* A value is staged, or it is not; a start empties what is staged.        *)
LEMMA StagedNext ==
    ASSUME NEW s \in Seq(Param), NEW list, NEW b \in Nat, StagedOf(s, list, b)
    PROVE  /\ StagedOf(s, list, b + 1)
           /\ \A x \in Param : x.addr = list[b + 1].addr => StagedOf(Append(s, x), list, b + 1)
<1>0. Len(s) \in Nat
  BY LenProperties
<1>1. \A i \in 1..Len(s) : \E p \in i..(b - (Len(s) - i)) : s[i].addr = list[p].addr
  BY DEF StagedOf
<1>2. Len(s) <= b
  <2>1. CASE Len(s) = 0
    BY <1>0, <2>1
  <2>2. CASE Len(s) > 0
    <3>1. Len(s) \in 1..Len(s)
      BY <1>0, <2>2
    <3>2. PICK p \in Len(s)..(b - (Len(s) - Len(s))) : TRUE
      BY <1>1, <3>1
    <3> QED
      BY <1>0, <3>2
  <2> QED
    BY <1>0, <2>1, <2>2
<1>3. StagedOf(s, list, b + 1)
  <2> SUFFICES ASSUME NEW i \in 1..Len(s)
               PROVE  \E p \in i..((b + 1) - (Len(s) - i)) : s[i].addr = list[p].addr
    BY DEF StagedOf
  <2>1. PICK p \in i..(b - (Len(s) - i)) : s[i].addr = list[p].addr
    BY <1>1
  <2>2. p \in i..((b + 1) - (Len(s) - i))
    BY <1>0
  <2> QED
    BY <2>1, <2>2
<1>4. ASSUME NEW x \in Param, x.addr = list[b + 1].addr
      PROVE  StagedOf(Append(s, x), list, b + 1)
  <2> DEFINE t == Append(s, x)
  <2>1. /\ Len(t) = Len(s) + 1 /\ t[Len(s) + 1] = x
        /\ \A i \in 1..Len(s) : t[i] = s[i]
    BY AppendProperties
  <2> HIDE DEF t
  <2>2. ASSUME NEW i \in 1..Len(t)
        PROVE  \E p \in i..((b + 1) - (Len(t) - i)) : t[i].addr = list[p].addr
    <3>1. CASE i \in 1..Len(s)
      <4>1. PICK p \in i..(b - (Len(s) - i)) : s[i].addr = list[p].addr
        BY <1>1, <3>1
      <4>2. p \in i..((b + 1) - (Len(t) - i)) /\ t[i] = s[i]
        BY <1>0, <2>1, <3>1
      <4> QED
        BY <4>1, <4>2
    <3>2. CASE i = Len(s) + 1
      <4>1. b + 1 \in i..((b + 1) - (Len(t) - i)) /\ t[i] = x
        BY <1>0, <1>2, <2>1, <3>2
      <4> QED
        BY <1>4, <4>1
    <3> QED
      BY <1>0, <2>1, <3>1, <3>2
  <2> QED
    BY <2>2 DEF StagedOf, t
<1> QED
  BY <1>3, <1>4

(* As many staged as the list has, with its CRC: the list itself.          *)
LEMMA StagedWhole ==
    ASSUME NEW s \in Seq(Param), NEW list \in Seq(Param), NEW b \in Nat, b <= Len(list),
           StagedOf(s, list, b), Len(s) = Len(list), CrcOf(s) = CrcOf(list)
    PROVE  s = list
<1>1. Len(s) \in Nat /\ DOMAIN s = 1..Len(s) /\ DOMAIN list = 1..Len(s)
  BY LenProperties
<1>2. \A i \in 1..Len(s) : \E p \in i..(b - (Len(s) - i)) : s[i].addr = list[p].addr
  BY DEF StagedOf
<1>3. ASSUME NEW i \in 1..Len(s) PROVE s[i] = list[i]
  <2>1. PICK p \in i..(b - (Len(s) - i)) : s[i].addr = list[p].addr
    BY <1>2
  <2>2. p = i
    BY <1>1
  <2>3. CrcOf(s)[i] = s[i].val /\ CrcOf(list)[i] = list[i].val
    BY <1>1 DEF CrcOf
  <2>4. s[i] \in Param /\ list[i] \in Param
    BY <1>1, ElementOfSeq
  <2> QED
    BY <2>1, <2>2, <2>3, <2>4 DEF Param
<1> QED
  BY <1>1, <1>3, SeqEqual

-----------------------------------------------------------------------------
(* Queues of frames.                                                       *)

(* A sequence over a set is one over any larger set.                       *)
LEMMA WiderSeq ==
    ASSUME NEW S, NEW T, S \subseteq T, NEW s \in Seq(S)
    PROVE  s \in Seq(T)
<1>1. Len(s) \in Nat /\ s \in [1..Len(s) -> S]
  BY LenProperties, ElementOfSeq
<1>2. s \in [1..Len(s) -> T]
  BY <1>1
<1> QED
  BY <1>1, <1>2, FunctionIsSeq

(* A sequence whose elements are all in T is a sequence of T's.            *)
LEMMA SeqOf ==
    ASSUME NEW S, NEW T, NEW s \in Seq(S), \A i \in 1..Len(s) : s[i] \in T
    PROVE  s \in Seq(T)
<1>1. Len(s) \in Nat /\ s \in [1..Len(s) -> S]
  BY LenProperties, ElementOfSeq
<1>2. s \in [1..Len(s) -> T]
  BY <1>1
<1> QED
  BY <1>1, <1>2, FunctionIsSeq

(* The oldest frame and the rest.                                          *)
LEMMA HeadIn ==
    ASSUME NEW S, NEW s \in Seq(S), s # <<>>
    PROVE  Head(s) \in S /\ Tail(s) \in Seq(S)
BY QueueType

(* Parameters of different addresses do not overwrite one another.         *)
LEMMA OverlayHolds ==
    ASSUME NEW live \in [Addr -> Val], NEW list \in Configs, NEW i \in DOMAIN list
    PROVE  Overlay(live, list)[list[i].addr] = list[i].val
<1>1. list \in Seq(Param) /\ \A j, k \in DOMAIN list : list[j].addr = list[k].addr => j = k
  BY ClientAssumption
<1>2. Len(list) \in Nat /\ DOMAIN list = 1..Len(list)
  BY <1>1, LenProperties
<1>3. list[i] \in Param
  BY <1>1, <1>2, ElementOfSeq
<1>4. list[i].addr \in Addr
  BY <1>3 DEF Param
<1>5. LastFor(list, list[i].addr) = {i}
  BY <1>1, <1>2 DEF LastFor
<1>6. (CHOOSE k \in LastFor(list, list[i].addr) : TRUE) = i
  BY <1>5
<1> QED
  BY <1>4, <1>5, <1>6 DEF Overlay

(* Storing the same list twice stores what storing it once does.           *)
LEMMA OverlayTwice ==
    ASSUME NEW live, NEW list
    PROVE  Overlay(Overlay(live, list), list) = Overlay(live, list)
BY DEF Overlay

(* A link that carries only commands of some kinds, and one more.          *)
LEMMA OfQueue ==
    ASSUME NEW C, NEW s \in Seq(Of(C))
    PROVE  /\ s \in Seq(Frame)
           /\ s # <<>> => /\ Head(s) \in Frame /\ Head(s).cmd \in C
                          /\ Tail(s) \in Seq(Of(C))
           /\ \A f \in Frame : f.cmd \in C => Append(s, f) \in Seq(Of(C))
<1>1. Of(C) \subseteq Frame /\ \A f \in Of(C) : f.cmd \in C
  BY DEF Of
<1>2. s \in Seq(Frame)
  BY <1>1, WiderSeq
<1>3. s # <<>> => Head(s) \in Of(C) /\ Tail(s) \in Seq(Of(C))
  BY HeadIn
<1>4. ASSUME NEW f \in Frame, f.cmd \in C PROVE Append(s, f) \in Seq(Of(C))
  <2>1. f \in Of(C)
    BY <1>4 DEF Of
  <2> QED
    BY <2>1, QueueType
<1> QED
  BY <1>1, <1>2, <1>3, <1>4

(* An answer of the expected kind leaves only such answers on the link.    *)
LEMMA ReplyAppended ==
    ASSUME NEW S, NEW s \in Seq(S), NEW f \in S
    PROVE  s \o <<f>> \in Seq(S)
<1>1. <<f>> \in Seq(S)
  OBVIOUS
<1> QED
  BY <1>1, QueueType

(* A frame with one value.                                                 *)
LEMMA OneValueFrame ==
    ASSUME NEW c \in Cmds, NEW a \in Nat, NEW v \in Val,
           c \in Valued \cup {"Read"} => a \in Addr
    PROVE  Msg(c, a, <<v>>) \in Frame /\ Msg(c, a, <<v>>).cmd = c
<1>1. <<v>> \in Seq(Val) /\ Len(<<v>>) = 1
  BY OneValue
<1> QED
  BY <1>1 DEF Msg, Frame

(* Nothing is left on the link but completions: the rest of the list is    *)
(* with the device, or lost.                                               *)
LEMMA OnlyCompletions ==
    ASSUME NEW s \in Seq(Frame), NEW list, NEW n \in Nat, NEW open,
           OnLink(s, list, 0, n, n, open)
    PROVE  s \in Seq(Of({"WriteAllComplete"}))
<1>1. \A i \in 1..Len(s) : s[i].cmd = "WriteAllComplete"
  BY DEF OnLink
<1>2. \A i \in 1..Len(s) : s[i] \in Frame
  BY ElementOfSeq
<1>3. \A i \in 1..Len(s) : s[i] \in Of({"WriteAllComplete"})
  BY <1>1, <1>2 DEF Of
<1> QED
  BY <1>3, SeqOf

-----------------------------------------------------------------------------
(* The steps, from what they leave alone.                                  *)
Requesting(cmd) == pc \in {"send", "wait"} /\ req.cmd.cmd = cmd

(* What every step of the client leaves alone.                             *)
LEMMA ClientFacts ==
    ASSUME ClientStep
    PROVE  /\ ~Idle /\ UNCHANGED <<call, store, order, staged, flash, attached>>
           /\ UNCHANGED toDev \/ attached
           /\ UNCHANGED fromDev \/ Receive
<1> USE DEF Idle, callVars, deviceVars, linkVars, liveVars, flashVars, envVars, clientVars
<1>1. CASE SendRequest \/ SendVal \/ DumpSend
  BY <1>1 DEF SendRequest, SendVal, DumpSend
<1>2. CASE SendError \/ Timeout \/ ValsSent \/ DumpQuiet \/ DumpGiveUp
  BY <1>2 DEF SendError, Timeout, ValsSent, DumpQuiet, DumpGiveUp
<1>3. CASE SkipReply
  BY <1>3 DEF SkipReply
<1>4. ASSUME NEW cmd, Answered(cmd)
      PROVE  /\ ~Idle /\ UNCHANGED <<call, toDev, store, order, staged, flash, attached>>
             /\ Receive
  BY <1>4 DEF Answered
<1>5. CASE \/ WriteAllStarted \/ WriteAllAnswered \/ SetParamAnswered \/ ReadParamAnswered
           \/ VersionAnswered \/ BurnAnswered \/ CrcAnswered
  <2>1. PICK cmd \in Cmds : Answered(cmd)
    BY <1>5 DEF WriteAllStarted, WriteAllAnswered, SetParamAnswered, ReadParamAnswered,
                VersionAnswered, BurnAnswered, CrcAnswered, Cmds
  <2> QED
    BY <1>4, <2>1
<1>6. CASE DumpRsp \/ DumpComplete \/ DumpSkip
  <2>1. DumpReceive
    BY <1>6 DEF DumpRsp, DumpComplete, DumpSkip
  <2> QED
    BY <2>1 DEF DumpReceive
<1> QED
  BY <1>1, <1>2, <1>3, <1>5, <1>6 DEF ClientStep

(* What the link does to a queue, and what detaching does.                 *)
LEMMA EnvFacts ==
    ASSUME DeviceStep \/ LinkStep
    PROVE  \/ ~attached' /\ toDev' = <<>> /\ UNCHANGED <<flash, fromDev>>
           \/ UNCHANGED attached /\ (toDev' # <<>> => toDev # <<>>)
<1> USE DEF flashVars, envVars
<1>1. CASE \/ DevWriteAll \/ DevWriteAllVal \/ DevWriteAllComplete \/ DevWrite
           \/ DevRead \/ DevReadAll \/ DevCheckCrc \/ DevVersion \/ DevBurn
  BY <1>1 DEF DevWriteAll, DevWriteAllVal, DevWriteAllComplete, DevWrite, DevBurn,
              DevRead, DevReadAll, DevCheckCrc, DevVersion, Take
<1>2. CASE DevBootloader \/ Reset
  BY <1>2 DEF DevBootloader, Reset, Detach
<1>3. CASE DropCommand \/ LoseReply \/ DamageCommand \/ DamageReply
  BY <1>3 DEF DropCommand, LoseReply, DamageCommand, DamageReply
<1> QED
  BY <1>1, <1>2, <1>3 DEF DeviceStep, LinkStep

(* The steps of the device and the link that can be told from the oldest   *)
(* command: the others have another.                                       *)
LEMMA EnvCases ==
    ASSUME DeviceStep \/ LinkStep, attached',
           toDev # <<>> => Head(toDev).cmd \in {"WriteAll", "WriteAllVal", "WriteAllComplete"},
           fromDev # <<>> => Head(fromDev).cmd # "ReadAllRsp"
    PROVE  \/ DevWriteAll \/ DevWriteAllVal \/ DevWriteAllComplete
           \/ DropCommand \/ LoseReply
           \/ DamageCommand /\ Head(toDev).cmd = "WriteAllVal"
<1>1. CASE DevBootloader \/ Reset
  BY <1>1 DEF DevBootloader, Reset, Detach
<1>2. CASE DevWrite \/ DevRead \/ DevReadAll \/ DevCheckCrc \/ DevVersion \/ DevBurn
  BY <1>2 DEF DevWrite, DevRead, DevReadAll, DevCheckCrc, DevVersion, DevBurn, Take
<1>3. CASE DamageReply
  BY <1>3 DEF DamageReply
<1>4. CASE DamageCommand
  BY <1>4, DeviceAssumption DEF DamageCommand
<1>5. CASE DevWriteAll \/ DevWriteAllVal \/ DevWriteAllComplete \/ DropCommand \/ LoseReply
  BY <1>5
<1> QED
  BY <1>1, <1>2, <1>3, <1>4, <1>5 DEF DeviceStep, LinkStep

(* While values are being sent, the client sends the next or asks for      *)
(* completion.                                                             *)
LEMMA ValsStep ==
    ASSUME pc = "vals", attached, ClientStep
    PROVE  SendVal \/ ValsSent
<1>1. CASE SendRequest \/ SendError \/ Timeout \/ SkipReply
  BY <1>1 DEF SendRequest, SendError, Timeout, SkipReply
<1>2. CASE \/ WriteAllStarted \/ WriteAllAnswered \/ SetParamAnswered \/ ReadParamAnswered
           \/ VersionAnswered \/ BurnAnswered \/ CrcAnswered
  BY <1>2 DEF WriteAllStarted, WriteAllAnswered, SetParamAnswered, ReadParamAnswered,
              VersionAnswered, BurnAnswered, CrcAnswered, Answered
<1>3. CASE DumpSend \/ DumpRsp \/ DumpComplete \/ DumpSkip \/ DumpQuiet \/ DumpGiveUp
  BY <1>3 DEF DumpSend, DumpRsp, DumpComplete, DumpSkip, DumpQuiet, DumpGiveUp, DumpReceive
<1> QED
  BY <1>1, <1>2, <1>3 DEF ClientStep

(* A call leaves the client in a request or in a dump, never returned.     *)
LEMMA BeginFacts ==
    ASSUME NEW c, Begin(c)
    PROVE  /\ call' = c /\ ~Idle'
           /\ c.op = "WriteAll" => Requesting("WriteAll")'
           /\ c.op = "SetParam" => pc' = "send" /\ req'.cmd = Msg("Write", c.arg, c.val)
           /\ c.op = "Burn" => Requesting("BurnSettings")'
BY DEF Begin, Idle, Requesting, Request, Msg

-----------------------------------------------------------------------------
(***************************************************************************)
(* With prompt replies, ParamClient implements ConfigStore, for every      *)
(* value of its other constants.                                           *)
(***************************************************************************)

(* What is on the link.  A queue that holds frames of B only, but for its  *)
(* last one, which may be of F.                                            *)
AllBut(s, B, F) == \A i \in 1..Len(s) : s[i] \in B \/ (i = Len(s) /\ s[i] \in F)

Boot == Of({"Bootloader"})
Dump == Of({"ReadAll", "ReadAllRsp", "ReadAllComplete"})

(* What a request may find on the link: resets that an earlier call asked  *)
(* for without waiting, and the rest of the dump that a ReadAll gave up.   *)
Junk == IF call.op = "ReadAll" THEN Dump ELSE {}

(* A dump of the list of which w acknowledgements (one or none), the       *)
(* parameters after the b-th and the completion are on the link.           *)
DumpOnLink(s, list, w, b) ==
    /\ w \in {0, 1} /\ b \in Nat /\ b <= Len(list) /\ (w = 1 => b = 0)
    /\ Len(s) = w + Len(list) - b + 1
    /\ \A i \in 1..Len(s) :
          /\ i <= w => s[i].cmd = "ReadAll"
          /\ w < i /\ i < Len(s) =>
                s[i].cmd = "ReadAllRsp" /\ s[i].arg = list[b + i - w].addr
          /\ i = Len(s) /\ w < i =>
                s[i].cmd = "ReadAllComplete" /\ s[i].arg = Len(list) /\ s[i].val = CrcOf(list)

(* No parameter is staged twice.                                           *)
Distinct(s) == \A i, j \in DOMAIN s : s[i].addr = s[j].addr => i = j

-----------------------------------------------------------------------------
(* A call that has returned left nothing behind, and what it promised      *)
(* is still true.                                                          *)
Returned ==
    /\ Idle /\ toDev \in Seq(Boot) /\ fromDev = <<>>
    /\ ~primed /\ out = <<>>
    /\ ret.ok => CS!Promise(call, ret)

(* A request of one command, its copies on the link, and its answers.      *)
Fits ==
    \/ call.op = "WriteAll"   /\ req.cmd.cmd = "WriteAll"
    \/ call.op = "SetParam"   /\ req.cmd.cmd = "Write" /\ req.cmd.arg = call.arg
    \/ call.op = "ReadParam"  /\ req.cmd.cmd = "Read" /\ req.cmd.arg = call.arg
    \/ call.op = "CheckCrc"   /\ req.cmd.cmd = "CheckCrc"
    \/ call.op = "ReadAll"    /\ req.cmd.cmd = "CheckCrc"
    \/ call.op = "Burn"       /\ req.cmd.cmd = "BurnSettings"
    \/ call.op = "Version"    /\ req.cmd.cmd = "Version"
    \/ call.op = "Bootloader" /\ req.cmd.cmd = "Bootloader"

Asked == {f \in Frame : f.cmd = req.cmd.cmd /\ f.arg = req.cmd.arg}

Answers ==
    {f \in Frame :
        /\ f.cmd = Want(req.cmd.cmd)
        /\ f.cmd = "WriteAll" => staged = <<>>
        /\ f.cmd \in {"Read", "Write"} => f.val = <<store[req.cmd.arg]>>
        /\ f.cmd = "CheckCrcRsp" => f.val = CrcOf(order)
        /\ f.cmd = "BurnSettings" /\ f.val = <<1>> => flash = Live}

Asking ==
    /\ pc \in {"send", "wait"} /\ Fits
    /\ call.op = "ReadAll" => StagedOf(out, order, Len(order))
    /\ \/ AllBut(toDev, Boot, IF pc = "wait" THEN Asked ELSE {}) /\ fromDev \in Seq(Junk)
       \/ pc = "wait" /\ toDev = <<>> /\ AllBut(fromDev, Junk, Answers)

(* WriteAll after its start: the values of the parameters after the b-th   *)
(* and at most one completion are on the link, or the device has committed *)
(* what it had staged and its answer is.                                   *)
Begun == IF pc = "vals" THEN next - 1 ELSE Len(call.list)

Sending ==
    /\ call.op = "WriteAll" /\ fromDev = <<>>
    /\ pc = "vals" \/ Requesting("WriteAllComplete")
    /\ \E b \in Nat : /\ OnLink(toDev, call.list, 0, b, Begun, pc # "wait")
                      /\ Len(toDev) <= Begun - b + 1
                      /\ StagedOf(staged, call.list, b)
    /\ Distinct(staged)

TheReply == Msg("WriteAllComplete", Len(staged), CrcOf(staged))

Stored ==
    /\ call.op = "WriteAll" /\ pc = "wait" /\ req.cmd.cmd = "WriteAllComplete"
    /\ toDev = <<>> /\ fromDev = <<TheReply>>
    /\ order = staged /\ store = Overlay(store, staged)
    /\ StagedOf(staged, call.list, Len(call.list)) /\ Distinct(staged)

(* ReadAll: nothing of the dump has come yet; or the rest of it is on the  *)
(* link and what was collected is from the part before; or that was all.   *)
Dumping ==
    /\ call.op = "ReadAll" /\ pc = "dump"
    /\ ~primed => out = <<>>
    /\ \/ /\ ~primed /\ fromDev = <<>>
          /\ AllBut(toDev, Boot, IF sends > 0 THEN Of({"ReadAll"}) ELSE {})
       \/ /\ sends > 0 /\ toDev = <<>>
          /\ \E w, b \in Nat : DumpOnLink(fromDev, order, w, b) /\ StagedOf(out, order, b)
       \/ /\ sends > 0 /\ toDev = <<>> /\ fromDev = <<>>
          /\ StagedOf(out, order, Len(order))

Phase == Returned \/ Asking \/ Sending \/ Stored \/ Dumping

StoreInv ==
    /\ TypeInv /\ BurnInv
    /\ toDev # <<>> => attached
    /\ attached => Phase

-----------------------------------------------------------------------------
(* Queues with a last frame of their own.                                  *)

(* The empty queue, and a queue of B's.                                    *)
LEMMA AllButPlain ==
    ASSUME NEW B, NEW F, NEW s \in Seq(B)
    PROVE  AllBut(s, B, F)
BY ElementOfSeq DEF AllBut

(* Without a last frame of its own it is a queue of B's.                   *)
LEMMA AllButNothing ==
    ASSUME NEW B, NEW s \in Seq(Frame), AllBut(s, B, {})
    PROVE  s \in Seq(B)
<1>1. \A i \in 1..Len(s) : s[i] \in B
  BY DEF AllBut
<1> QED
  BY <1>1, SeqOf

(* More may be its last frame than is.                                     *)
LEMMA AllButMore ==
    ASSUME NEW B, NEW F, NEW G, NEW s, AllBut(s, B, F), F \subseteq G
    PROVE  AllBut(s, B, G)
BY DEF AllBut

(* The oldest frame is of B, or it is the only one.                        *)
LEMMA AllButHead ==
    ASSUME NEW B, NEW F, NEW s \in Seq(Frame), s # <<>>, AllBut(s, B, F)
    PROVE  /\ Head(s) \in B \/ (Head(s) \in F /\ Tail(s) = <<>>)
           /\ AllBut(Tail(s), B, F)
<1> DEFINE t == Tail(s)
<1>1. /\ Len(s) \in Nat /\ Len(s) > 0 /\ Len(t) = Len(s) - 1 /\ Head(s) = s[1]
      /\ t \in Seq(Frame) /\ \A i \in 1..Len(t) : t[i] = s[i + 1]
  BY HeadTailProperties, LenProperties, EmptySeq
<1> HIDE DEF t
<1>2. \A i \in 1..Len(s) : s[i] \in B \/ (i = Len(s) /\ s[i] \in F)
  BY DEF AllBut
<1>3. 1 \in 1..Len(s)
  BY <1>1
<1>4. s[1] \in B \/ (1 = Len(s) /\ s[1] \in F)
  BY <1>2, <1>3
<1>5. 1 = Len(s) => t = <<>>
  BY <1>1, EmptySeq
<1>6. ASSUME NEW i \in 1..Len(t) PROVE t[i] \in B \/ (i = Len(t) /\ t[i] \in F)
  <2>1. i + 1 \in 1..Len(s) /\ t[i] = s[i + 1] /\ (i + 1 = Len(s) => i = Len(t))
    BY <1>1
  <2> QED
    BY <1>2, <2>1
<1>7. AllBut(t, B, F)
  BY <1>6 DEF AllBut
<1> QED
  BY <1>1, <1>4, <1>5, <1>7 DEF t

(* The last frame is sent, or answered.                                    *)
LEMMA AllButAppend ==
    ASSUME NEW B, NEW F, NEW s \in Seq(Frame), s \in Seq(B), NEW f \in Frame, f \in F
    PROVE  AllBut(Append(s, f), B, F) /\ AllBut(s \o <<f>>, B, F)
<1> DEFINE t == Append(s, f)
<1>1. /\ Len(s) \in Nat /\ Len(t) = Len(s) + 1 /\ t[Len(s) + 1] = f
      /\ \A i \in 1..Len(s) : t[i] = s[i]
  BY AppendProperties, LenProperties
<1>2. \A i \in 1..Len(s) : s[i] \in B
  BY ElementOfSeq
<1> HIDE DEF t
<1>3. ASSUME NEW i \in 1..Len(t) PROVE t[i] \in B \/ (i = Len(t) /\ t[i] \in F)
  <2>1. CASE i \in 1..Len(s)
    BY <1>1, <1>2, <2>1
  <2>2. CASE i = Len(s) + 1
    BY <1>1, <2>2
  <2> QED
    BY <1>1, <2>1, <2>2
<1>4. AllBut(t, B, F)
  BY <1>3 DEF AllBut
<1>5. t = s \o <<f>>
  BY AppendIsConcat DEF t
<1> QED
  BY <1>4, <1>5 DEF t

(* The oldest frame is damaged.                                            *)
LEMMA AllButDamage ==
    ASSUME NEW B, NEW F, NEW s \in Seq(Frame), s # <<>>, AllBut(s, B, F),
           NEW f \in Frame, Head(s) \in B => f \in B, Head(s) \in F => f \in F
    PROVE  AllBut([s EXCEPT ![1] = f], B, F)
<1> DEFINE t == [s EXCEPT ![1] = f]
<1>1. /\ Len(t) = Len(s) /\ Head(s) = s[1]
      /\ \A i \in 1..Len(s) : t[i] = IF i = 1 THEN f ELSE s[i]
  BY HeadReplaced, HeadTailProperties
<1> HIDE DEF t
<1>2. \A i \in 1..Len(s) : s[i] \in B \/ (i = Len(s) /\ s[i] \in F)
  BY DEF AllBut
<1>3. ASSUME NEW i \in 1..Len(t) PROVE t[i] \in B \/ (i = Len(t) /\ t[i] \in F)
  <2>1. CASE i = 1
    BY <1>1, <1>2, <2>1
  <2>2. CASE i # 1
    BY <1>1, <1>2, <2>2
  <2> QED
    BY <2>1, <2>2
<1>4. AllBut(t, B, F)
  BY <1>3 DEF AllBut
<1> QED
  BY <1>4 DEF t

-----------------------------------------------------------------------------
(* The dump on the link.                                                   *)

(* It comes in order, and its last frame leaves the link empty.            *)
LEMMA DumpHead ==
    ASSUME NEW s \in Seq(Frame), NEW list \in Seq(Param), NEW w, NEW b,
           DumpOnLink(s, list, w, b)
    PROVE  /\ s # <<>>
           /\ \/ Head(s).cmd = "ReadAll" /\ w = 1 /\ b = 0 /\ DumpOnLink(Tail(s), list, 0, 0)
              \/ /\ Head(s).cmd = "ReadAllRsp" /\ b < Len(list)
                 /\ Head(s).arg = list[b + 1].addr
                 /\ DumpOnLink(Tail(s), list, 0, b + 1)
              \/ /\ Head(s).cmd = "ReadAllComplete" /\ b = Len(list)
                 /\ Head(s).arg = Len(list) /\ Head(s).val = CrcOf(list)
                 /\ Tail(s) = <<>>
<1> DEFINE t == Tail(s)
           n == Len(list)
<1>1. /\ w \in {0, 1} /\ b \in Nat /\ b <= n /\ (w = 1 => b = 0) /\ n \in Nat
      /\ Len(s) = w + n - b + 1
  BY LenProperties DEF DumpOnLink
<1>2. \A i \in 1..Len(s) :
          /\ i <= w => s[i].cmd = "ReadAll"
          /\ w < i /\ i < Len(s) =>
                s[i].cmd = "ReadAllRsp" /\ s[i].arg = list[b + i - w].addr
          /\ i = Len(s) /\ w < i =>
                s[i].cmd = "ReadAllComplete" /\ s[i].arg = n /\ s[i].val = CrcOf(list)
  BY DEF DumpOnLink
<1>3. s # <<>>
  BY <1>1, EmptySeq
<1>4. /\ Len(t) = Len(s) - 1 /\ Head(s) = s[1] /\ t \in Seq(Frame)
      /\ \A i \in 1..Len(t) : t[i] = s[i + 1]
  BY <1>3, HeadTailProperties
<1>5. 1 \in 1..Len(s) /\ \A i \in 1..Len(t) : i + 1 \in 1..Len(s)
  BY <1>1, <1>4
<1> HIDE DEF t, n
<1>6. CASE w = 1
  <2>1. Head(s).cmd = "ReadAll"
    BY <1>1, <1>2, <1>4, <1>5, <1>6
  <2>2. ASSUME NEW i \in 1..Len(t)
        PROVE  /\ i <= 0 => t[i].cmd = "ReadAll"
               /\ 0 < i /\ i < Len(t) =>
                     t[i].cmd = "ReadAllRsp" /\ t[i].arg = list[0 + i - 0].addr
               /\ i = Len(t) /\ 0 < i =>
                     t[i].cmd = "ReadAllComplete" /\ t[i].arg = n /\ t[i].val = CrcOf(list)
    <3>1. i + 1 \in 1..Len(s) /\ t[i] = s[i + 1]
      BY <1>4, <1>5
    <3>2. i \in Nat /\ Len(s) \in Nat /\ Len(t) = Len(s) - 1 /\ w \in {0, 1} /\ b \in Nat
      BY <1>1, <1>4
    <3>3. i < Len(t) => i + 1 < Len(s)
      BY <3>2
    <3>4. /\ w < i + 1 /\ (i = Len(t) => i + 1 = Len(s))
          /\ b + (i + 1) - w = 0 + i - 0
      BY <1>1, <1>6, <3>1, <3>2
    <3> QED
      BY <1>2, <3>1, <3>3, <3>4
  <2>3. DumpOnLink(t, list, 0, 0)
    BY <1>1, <1>4, <1>6, <2>2 DEF DumpOnLink, n
  <2> QED
    BY <1>1, <1>3, <1>6, <2>1, <2>3 DEF t
<1>7. CASE w = 0 /\ b < n
  <2>1. Head(s).cmd = "ReadAllRsp" /\ Head(s).arg = list[b + 1].addr
    <3>1. 0 < 1 /\ 1 < Len(s) /\ b + 1 - w = b + 1
      BY <1>1, <1>7
    <3> QED
      BY <1>2, <1>4, <1>5, <1>7, <3>1
  <2>2. ASSUME NEW i \in 1..Len(t)
        PROVE  /\ i <= 0 => t[i].cmd = "ReadAll"
               /\ 0 < i /\ i < Len(t) =>
                     t[i].cmd = "ReadAllRsp" /\ t[i].arg = list[(b + 1) + i - 0].addr
               /\ i = Len(t) /\ 0 < i =>
                     t[i].cmd = "ReadAllComplete" /\ t[i].arg = n /\ t[i].val = CrcOf(list)
    <3>1. i + 1 \in 1..Len(s) /\ t[i] = s[i + 1]
      BY <1>4, <1>5
    <3>2. i \in Nat /\ Len(s) \in Nat /\ Len(t) = Len(s) - 1 /\ w \in {0, 1} /\ b \in Nat
      BY <1>1, <1>4
    <3>3. i < Len(t) => i + 1 < Len(s)
      BY <3>2
    <3>4. /\ w < i + 1 /\ (i = Len(t) => i + 1 = Len(s))
          /\ b + (i + 1) - w = (b + 1) + i - 0
      BY <1>1, <1>7, <3>1, <3>2
    <3> QED
      BY <1>2, <3>1, <3>3, <3>4
  <2>3. b + 1 \in Nat /\ b + 1 <= n /\ Len(t) = 0 + n - (b + 1) + 1
    BY <1>1, <1>4, <1>7
  <2>4. /\ 0 \in {0, 1} /\ b + 1 \in Nat /\ b + 1 <= Len(list) /\ (0 = 1 => b + 1 = 0)
        /\ Len(t) = 0 + Len(list) - (b + 1) + 1
    BY <2>3 DEF n
  <2>5. \A i \in 1..Len(t) :
            /\ i <= 0 => t[i].cmd = "ReadAll"
            /\ 0 < i /\ i < Len(t) =>
                  t[i].cmd = "ReadAllRsp" /\ t[i].arg = list[(b + 1) + i - 0].addr
            /\ i = Len(t) /\ 0 < i =>
                  t[i].cmd = "ReadAllComplete" /\ t[i].arg = Len(list) /\ t[i].val = CrcOf(list)
    BY <2>2 DEF n
  <2>6. DumpOnLink(t, list, 0, b + 1)
    BY <2>4, <2>5 DEF DumpOnLink
  <2> QED
    BY <1>3, <1>7, <2>1, <2>6 DEF t, n
<1>8. CASE w = 0 /\ b = n
  <2>1. Len(s) = 1 /\ Len(t) = 0
    BY <1>1, <1>4, <1>8
  <2>2. Head(s).cmd = "ReadAllComplete" /\ Head(s).arg = n /\ Head(s).val = CrcOf(list)
    BY <1>2, <1>4, <1>5, <1>8, <2>1
  <2>3. t = <<>>
    BY <1>4, <2>1, EmptySeq
  <2> QED
    BY <1>3, <1>8, <2>2, <2>3 DEF t, n
<1> QED
  BY <1>1, <1>6, <1>7, <1>8

(* Every frame of it is one of a dump.                                     *)
LEMMA DumpFrames ==
    ASSUME NEW s \in Seq(Frame), NEW list \in Seq(Param), NEW w, NEW b,
           DumpOnLink(s, list, w, b)
    PROVE  s \in Seq(Dump)
<1>1. Len(s) \in Nat
  BY LenProperties
<1>2. ASSUME NEW i \in 1..Len(s)
      PROVE  s[i].cmd \in {"ReadAll", "ReadAllRsp", "ReadAllComplete"}
  <2>1. /\ w \in {0, 1}
        /\ i <= w => s[i].cmd = "ReadAll"
        /\ w < i /\ i < Len(s) => s[i].cmd = "ReadAllRsp"
        /\ i = Len(s) /\ w < i => s[i].cmd = "ReadAllComplete"
    BY DEF DumpOnLink
  <2>2. i <= w \/ (w < i /\ i < Len(s)) \/ (i = Len(s) /\ w < i)
    BY <1>1, <2>1
  <2> QED
    BY <2>1, <2>2
<1>3. \A i \in 1..Len(s) : s[i] \in Frame
  BY ElementOfSeq
<1>4. \A i \in 1..Len(s) : s[i] \in Dump
  BY <1>2, <1>3 DEF Dump, Of
<1> QED
  BY <1>4, SeqOf

(* A damaged parameter keeps its place in it.                              *)
LEMMA DumpDamage ==
    ASSUME NEW s \in Seq(Frame), NEW list, NEW w, NEW b, DumpOnLink(s, list, w, b),
           s # <<>>, NEW f \in Frame, Head(s).cmd = "ReadAllRsp",
           f.cmd = Head(s).cmd, f.arg = Head(s).arg
    PROVE  DumpOnLink([s EXCEPT ![1] = f], list, w, b)
<1> DEFINE t == [s EXCEPT ![1] = f]
<1>1. /\ Len(t) = Len(s) /\ Head(s) = s[1]
      /\ \A i \in 1..Len(s) : t[i] = IF i = 1 THEN f ELSE s[i]
  BY HeadReplaced, HeadTailProperties
<1> HIDE DEF t
<1>2. \A i \in 1..Len(s) :
          /\ t[i].cmd = s[i].cmd /\ t[i].arg = s[i].arg
          /\ s[i].cmd = "ReadAllComplete" => t[i].val = s[i].val
  BY <1>1
<1>3. ASSUME NEW i \in 1..Len(t)
      PROVE  /\ i <= w => t[i].cmd = "ReadAll"
             /\ w < i /\ i < Len(t) =>
                   t[i].cmd = "ReadAllRsp" /\ t[i].arg = list[b + i - w].addr
             /\ i = Len(t) /\ w < i =>
                   t[i].cmd = "ReadAllComplete" /\ t[i].arg = Len(list) /\ t[i].val = CrcOf(list)
  <2>1. /\ i <= w => s[i].cmd = "ReadAll"
        /\ w < i /\ i < Len(s) => s[i].cmd = "ReadAllRsp" /\ s[i].arg = list[b + i - w].addr
        /\ i = Len(s) /\ w < i =>
              s[i].cmd = "ReadAllComplete" /\ s[i].arg = Len(list) /\ s[i].val = CrcOf(list)
    BY <1>1 DEF DumpOnLink
  <2> QED
    BY <1>1, <1>2, <2>1
<1>4. DumpOnLink(t, list, w, b)
  BY <1>1, <1>3 DEF DumpOnLink
<1> QED
  BY <1>4 DEF t

(* The device's answer to ReadAll is a whole dump.                         *)
TheDump ==
    LET rsps == [i \in DOMAIN order |-> Msg("ReadAllRsp", order[i].addr, <<order[i].val>>)]
    IN  <<Msg("ReadAll", 0, <<>>)>> \o rsps
          \o <<Msg("ReadAllComplete", Len(order), CrcOf(order))>>

LEMMA DumpBegins ==
    ASSUME DeviceTypeOK
    PROVE  DumpOnLink(<<>> \o TheDump, order, 1, 0)
<1> DEFINE n == Len(order)
           rsps == [i \in DOMAIN order |->
                       Msg("ReadAllRsp", order[i].addr, <<order[i].val>>)]
           first == Msg("ReadAll", 0, <<>>)
           last == Msg("ReadAllComplete", n, CrcOf(order))
           front == <<first>> \o rsps
           s == front \o <<last>>
<1>1. order \in Seq(Param) /\ n \in Nat /\ DOMAIN order = 1..n
  BY LenProperties DEF DeviceTypeOK
<1>2. ASSUME NEW i \in 1..n
      PROVE  Msg("ReadAllRsp", order[i].addr, <<order[i].val>>) \in Frame
  <2>1. order[i] \in Param
    BY <1>1, ElementOfSeq
  <2>2. order[i].addr \in Addr /\ order[i].val \in Val /\ order[i].addr \in Nat
    BY <2>1, DeviceAssumption DEF Param
  <2> QED
    BY <2>2, OneValueFrame DEF Cmds
<1>3. first \in Frame /\ first.cmd = "ReadAll"
  <2>1. <<>> \in Seq(Val)
    BY EmptyIsSeq
  <2>2. Msg("ReadAll", 0, <<>>) \in Frame /\ Msg("ReadAll", 0, <<>>).cmd = "ReadAll"
    BY <2>1 DEF Msg, Frame, Cmds, Valued
  <2> QED
    BY <2>2
<1>4. last \in Frame /\ last.cmd = "ReadAllComplete" /\ last.arg = n /\ last.val = CrcOf(order)
  <2>1. CrcOf(order) \in Seq(Val)
    BY <1>1, CrcType
  <2> QED
    BY <1>1, <2>1, MsgIsFrame DEF Cmds, Valued, Msg
<1>5. /\ rsps \in [1..n -> Frame] /\ rsps \in Seq(Frame) /\ Len(rsps) = n
      /\ \A i \in 1..n : rsps[i].cmd = "ReadAllRsp" /\ rsps[i].arg = order[i].addr
  <2>1. rsps \in [1..n -> Frame]
    BY <1>1, <1>2
  <2>2. rsps \in Seq(Frame)
    BY <1>1, <2>1, FunctionIsSeq
  <2>3. Len(rsps) \in Nat /\ DOMAIN rsps = 1..Len(rsps) /\ DOMAIN rsps = 1..n
    BY <1>1, <2>2, LenProperties
  <2>4. Len(rsps) = n
    BY <1>1, <2>3
  <2>5. \A i \in 1..n : rsps[i].cmd = "ReadAllRsp" /\ rsps[i].arg = order[i].addr
    BY <1>1 DEF Msg
  <2> QED
    BY <2>1, <2>2, <2>4, <2>5
<1>6. /\ <<first>> \in Seq(Frame) /\ Len(<<first>>) = 1 /\ <<first>>[1] = first
      /\ <<last>> \in Seq(Frame) /\ Len(<<last>>) = 1 /\ <<last>>[1] = last
  BY <1>3, <1>4, OneFrame
<1> HIDE DEF first, last, rsps
<1>7. /\ front \in Seq(Frame) /\ Len(front) = 1 + n
      /\ \A i \in 1..(1 + n) : front[i] = IF i <= 1 THEN <<first>>[i] ELSE rsps[i - 1]
  BY <1>5, <1>6, ConcatProperties
<1> HIDE DEF front
<1>8. /\ s \in Seq(Frame) /\ Len(s) = (1 + n) + 1
      /\ \A i \in 1..((1 + n) + 1) :
            s[i] = IF i <= 1 + n THEN front[i] ELSE <<last>>[i - (1 + n)]
  BY <1>6, <1>7, ConcatProperties
<1> HIDE DEF s
<1>9. ASSUME NEW i \in 1..Len(s)
      PROVE  /\ i <= 1 => s[i].cmd = "ReadAll"
             /\ 1 < i /\ i < Len(s) =>
                   s[i].cmd = "ReadAllRsp" /\ s[i].arg = order[0 + i - 1].addr
             /\ i = Len(s) /\ 1 < i =>
                   s[i].cmd = "ReadAllComplete" /\ s[i].arg = n /\ s[i].val = CrcOf(order)
  <2>0. i \in Nat /\ i >= 1 /\ i <= n + 2
    BY <1>1, <1>8
  <2>1. CASE i = 1
    <3>0. n \in Nat
      BY <1>1
    <3>1. i \in 1..((1 + n) + 1) /\ i \in 1..(1 + n) /\ i <= 1 + n
      BY <2>1, <3>0
    <3>2. s[i] = front[i]
      BY <1>8, <3>1
    <3>3. front[i] = <<first>>[i]
      BY <1>7, <2>1, <3>1
    <3>4. s[i] = first
      BY <1>6, <2>1, <3>2, <3>3
    <3> QED
      BY <1>3, <2>1, <3>4
  <2>2. CASE 1 < i /\ i < n + 2
    <3>0. i \in Nat /\ n \in Nat
      BY <1>1, <2>0
    <3>1. /\ i \in 1..((1 + n) + 1) /\ i \in 1..(1 + n) /\ i <= 1 + n /\ ~(i <= 1)
          /\ i - 1 \in 1..n /\ 0 + i - 1 = i - 1
      BY <2>2, <3>0
    <3>2. s[i] = rsps[i - 1]
      BY <1>7, <1>8, <3>1
    <3>3. i # Len(s)
      BY <1>1, <1>8, <2>0, <2>2
    <3> QED
      BY <1>5, <2>2, <3>1, <3>2, <3>3
  <2>3. CASE i = n + 2
    <3>1. i \in 1..((1 + n) + 1) /\ ~(i <= 1 + n) /\ i - (1 + n) = 1 /\ i = Len(s) /\ 1 < i
      BY <1>1, <1>8, <2>3
    <3>2. s[i] = last
      BY <1>6, <1>8, <3>1
    <3> QED
      BY <1>1, <1>4, <1>8, <2>0, <2>3, <3>1, <3>2
  <2> QED
    BY <1>1, <2>0, <2>1, <2>2, <2>3
<1>10. Len(s) = 1 + n - 0 + 1 /\ 0 \in Nat /\ 0 <= n
  BY <1>1, <1>8
<1>11. DumpOnLink(s, order, 1, 0)
  BY <1>9, <1>10 DEF DumpOnLink, n
<1>12. <<>> \o s = s
  BY <1>8, ConcatEmptySeq
<1>13. s = TheDump
  BY DEF s, front, rsps, first, last, n, TheDump
<1> QED
  BY <1>11, <1>12, <1>13

-----------------------------------------------------------------------------
(* What is staged or collected.                                            *)

(* What came from the first b parameters came from the first c.            *)
LEMMA StagedLater ==
    ASSUME NEW s \in Seq(Param), NEW list, NEW b \in Nat, NEW c \in Nat, b <= c,
           StagedOf(s, list, b)
    PROVE  StagedOf(s, list, c)
<1>0. Len(s) \in Nat
  BY LenProperties
<1>1. \A i \in 1..Len(s) : \E p \in i..(b - (Len(s) - i)) : s[i].addr = list[p].addr
  BY DEF StagedOf
<1>2. ASSUME NEW i \in 1..Len(s)
      PROVE  \E p \in i..(c - (Len(s) - i)) : s[i].addr = list[p].addr
  <2>1. PICK p \in i..(b - (Len(s) - i)) : s[i].addr = list[p].addr
    BY <1>1
  <2>2. p \in i..(c - (Len(s) - i))
    BY <1>0, <2>1
  <2> QED
    BY <2>1, <2>2
<1> QED
  BY <1>2 DEF StagedOf

(* The next parameter of the list is not among the staged ones.            *)
LEMMA DistinctNext ==
    ASSUME NEW s \in Seq(Param), NEW list \in Configs, NEW b \in Nat, b < Len(list),
           StagedOf(s, list, b), Distinct(s),
           NEW x \in Param, x.addr = list[b + 1].addr
    PROVE  Distinct(Append(s, x))
<1> DEFINE t == Append(s, x)
<1>1. list \in Seq(Param) /\ \A j, k \in DOMAIN list : list[j].addr = list[k].addr => j = k
  BY ClientAssumption
<1>2. Len(list) \in Nat /\ DOMAIN list = 1..Len(list) /\ Len(s) \in Nat /\ DOMAIN s = 1..Len(s)
  BY <1>1, LenProperties
<1>3. /\ t \in Seq(Param) /\ Len(t) = Len(s) + 1 /\ t[Len(s) + 1] = x
      /\ \A i \in 1..Len(s) : t[i] = s[i]
  BY AppendProperties
<1> HIDE DEF t
<1>4. DOMAIN t = 1..(Len(s) + 1)
  BY <1>3, LenProperties
<1>5. ASSUME NEW i \in 1..Len(s) PROVE s[i].addr # x.addr
  <2>1. PICK p \in i..(b - (Len(s) - i)) : s[i].addr = list[p].addr
    BY DEF StagedOf
  <2>2. p \in 1..Len(list) /\ b + 1 \in 1..Len(list) /\ p # b + 1
    BY <1>2, <2>1
  <2> QED
    BY <1>1, <1>2, <2>1, <2>2
<1>6. \A i, j \in 1..Len(s) : s[i].addr = s[j].addr => i = j
  BY <1>2 DEF Distinct
<1>7. \A i, j \in 1..(Len(s) + 1) : t[i].addr = t[j].addr => i = j
  <2> SUFFICES ASSUME NEW i \in 1..(Len(s) + 1), NEW j \in 1..(Len(s) + 1),
                      t[i].addr = t[j].addr
               PROVE  i = j
    OBVIOUS
  <2>1. \A k \in 1..(Len(s) + 1) : k \in 1..Len(s) \/ k = Len(s) + 1
    BY <1>2
  <2>2. CASE i \in 1..Len(s) /\ j \in 1..Len(s)
    BY <1>3, <1>6, <2>2
  <2>3. CASE i \in 1..Len(s) /\ j = Len(s) + 1
    BY <1>3, <1>5, <2>3
  <2>4. CASE i = Len(s) + 1 /\ j \in 1..Len(s)
    BY <1>3, <1>5, <2>4
  <2> QED
    BY <2>1, <2>2, <2>3, <2>4
<1>8. Distinct(t)
  BY <1>4, <1>7 DEF Distinct
<1> QED
  BY <1>8 DEF t

(* A list without repetitions takes the place of its parameters' values.   *)
LEMMA OverlayCommits ==
    ASSUME NEW live \in [Addr -> Val], NEW list \in Seq(Param), Distinct(list), NEW a \in Addr
    PROVE  IF \E i \in DOMAIN list : list[i].addr = a
           THEN \E i \in DOMAIN list : list[i] = [addr |-> a, val |-> Overlay(live, list)[a]]
           ELSE Overlay(live, list)[a] = live[a]
<1>1. Len(list) \in Nat /\ DOMAIN list = 1..Len(list)
  BY LenProperties
<1>2. CASE \E i \in DOMAIN list : list[i].addr = a
  <2>1. PICK i \in DOMAIN list : list[i].addr = a
    BY <1>2
  <2>2. list[i] \in Param
    BY <1>1, ElementOfSeq
  <2>3. LastFor(list, a) = {i}
    BY <1>1, <2>1 DEF LastFor, Distinct
  <2>4. (CHOOSE k \in LastFor(list, a) : TRUE) = i
    BY <2>3
  <2>5. Overlay(live, list)[a] = list[i].val
    BY <2>3, <2>4 DEF Overlay
  <2>6. list[i] = [addr |-> a, val |-> list[i].val]
    BY <2>1, <2>2 DEF Param
  <2>7. \E k \in DOMAIN list : list[k] = [addr |-> a, val |-> Overlay(live, list)[a]]
    BY <2>5, <2>6
  <2> QED
    BY <1>2, <2>7
<1>3. CASE ~ \E i \in DOMAIN list : list[i].addr = a
  <2>1. LastFor(list, a) = {}
    BY <1>3 DEF LastFor
  <2> QED
    BY <1>3, <2>1 DEF Overlay
<1> QED
  BY <1>2, <1>3

-----------------------------------------------------------------------------
(* The steps of the device and of the link.                                *)

(* What the invariant's types say of the device.                           *)
LEMMA StoreFields ==
    ASSUME TypeInv
    PROVE  /\ DeviceTypeOK
           /\ toDev \in Seq(Frame) /\ fromDev \in Seq(Frame)
           /\ store \in [Addr -> Val] /\ order \in Seq(Param) /\ staged \in Seq(Param)
           /\ out \in Seq(Param) /\ call \in Calls \cup {NoCall}
           /\ req.cmd \in Frame
           /\ call.list \in Seq(Param) /\ Len(call.list) \in Nat
           /\ call.op = "WriteAll" => call.list \in Configs
           /\ next \in 1..(Len(call.list) + 1)
<1>1. call \in Calls \cup {NoCall}
  BY DEF TypeInv, TypeOK
<1>2. call.op = "WriteAll" => call.list \in Configs
  BY <1>1 DEF Calls, NoCall, Call, AllOps
<1>3. call.list \in Seq(Param) /\ Len(call.list) \in Nat
  BY <1>1, CallFields
<1> QED
  BY <1>1, <1>2, <1>3 DEF TypeInv, TypeOK, DeviceTypeOK

(* With nothing for the device to do but to reset, the link loses a frame  *)
(* or damages a reply.                                                     *)
LEMMA LinkFacts ==
    ASSUME TypeInv, DeviceStep \/ LinkStep, attached',
           toDev = <<>> \/ Head(toDev).cmd = "Bootloader"
    PROVE  /\ UNCHANGED <<store, order, staged, flash>>
           /\ \/ toDev # <<>> /\ toDev' = Tail(toDev) /\ fromDev' = fromDev
              \/ fromDev # <<>> /\ toDev' = toDev /\ fromDev' = Tail(fromDev)
              \/ /\ fromDev # <<>> /\ toDev' = toDev /\ Head(fromDev).cmd = "ReadAllRsp"
                 /\ \E f \in Frame : /\ f.cmd = "ReadAllRsp" /\ f.arg = Head(fromDev).arg
                                     /\ fromDev' = [fromDev EXCEPT ![1] = f]
<1> USE DEF liveVars, flashVars
<1>1. CASE DropCommand \/ LoseReply
  BY <1>1 DEF DropCommand, LoseReply
<1>2. CASE DamageReply
  <2>1. PICK f \in Damaged(Head(fromDev)) : fromDev' = [fromDev EXCEPT ![1] = f]
    BY <1>2 DEF DamageReply
  <2>2. /\ fromDev # <<>> /\ Head(fromDev).cmd = "ReadAllRsp" /\ toDev' = toDev
        /\ Head(fromDev).cmd \in Damageable
        /\ UNCHANGED <<store, order, staged, flash>>
    BY <1>2 DEF DamageReply
  <2>3. Head(fromDev) \in Frame
    BY <2>2, StoreFields, HeadIn
  <2>4. f \in Frame /\ f.cmd = Head(fromDev).cmd
    BY <2>2, <2>3, DamagedFrame
  <2>5. f.arg = Head(fromDev).arg
    BY <2>3 DEF Damaged, Frame
  <2> QED
    BY <2>1, <2>2, <2>4, <2>5
<1>3. CASE DamageCommand
  BY <1>3, DeviceAssumption DEF DamageCommand
<1>4. CASE \/ DevWriteAll \/ DevWriteAllVal \/ DevWriteAllComplete \/ DevWrite \/ DevRead
           \/ DevReadAll \/ DevCheckCrc \/ DevVersion \/ DevBurn
  BY <1>4 DEF DevWriteAll, DevWriteAllVal, DevWriteAllComplete, DevWrite, DevBurn,
              DevRead, DevReadAll, DevCheckCrc, DevVersion, Take
<1>5. CASE DevBootloader \/ Reset
  BY <1>5 DEF DevBootloader, Reset, Detach
<1> QED
  BY <1>1, <1>2, <1>3, <1>4, <1>5 DEF DeviceStep, LinkStep

(* A reset on the link.                                                    *)
LEMMA BootHead ==
    ASSUME NEW f \in Boot
    PROVE  f \in Frame /\ f.cmd = "Bootloader"
BY DEF Boot, Of

(* What a call promised when it returned stays true while no frame but a   *)
(* reset is on the link.                                                   *)
LEMMA ReturnedByEnv ==
    ASSUME TypeInv, Returned, DeviceStep \/ LinkStep, attached', UNCHANGED clientVars
    PROVE  Returned'
<1>1. /\ toDev \in Seq(Boot) /\ fromDev = <<>> /\ Idle /\ ~primed /\ out = <<>>
      /\ ret.ok => CS!Promise(call, ret)
  BY DEF Returned
<1>2. toDev # <<>> => Head(toDev) \in Boot /\ Tail(toDev) \in Seq(Boot)
  BY <1>1, HeadIn
<1>3. toDev # <<>> => Head(toDev).cmd = "Bootloader"
  BY <1>2, BootHead
<1>4. /\ UNCHANGED <<store, order, flash>>
      /\ toDev' = Tail(toDev) /\ toDev # <<>> /\ fromDev' = fromDev
  BY <1>1, <1>3, LinkFacts
<1>5. UNCHANGED <<call, ret, pc, primed, out>>
  BY DEF clientVars, callVars, readVars
<1>6. ret'.ok => CS!Promise(call, ret)'
  BY <1>1, <1>4, <1>5 DEF CS!Promise, CS!Holds, CS!Values, CS!Live
<1> QED
  BY <1>1, <1>2, <1>4, <1>5, <1>6 DEF Returned, Idle

(* The device answers a request once, with what is then true of it.        *)
LEMMA AskedHandled ==
    ASSUME TypeInv, Fits, toDev # <<>>, Head(toDev) \in Asked, Tail(toDev) = <<>>,
           DeviceStep, attached', UNCHANGED clientVars
    PROVE  /\ toDev' = <<>> /\ order' = order
           /\ \/ fromDev' = fromDev
              \/ \E f \in Frame : f \in Answers' /\ fromDev' = fromDev \o <<f>>
<1> DEFINE h == Head(toDev)
<1>1. /\ h \in Frame /\ h.cmd = req.cmd.cmd /\ h.arg = req.cmd.arg
      /\ h.cmd \in {"WriteAll", "Write", "Read", "CheckCrc", "BurnSettings", "Version",
                    "Bootloader"}
  BY DEF Asked, Fits
<1>2. h.arg \in Nat /\ (h.cmd \in {"Write", "Read"} => h.arg \in Addr)
      /\ (h.cmd = "Write" => h.val[1] \in Val)
  BY <1>1, FrameFields DEF Valued
<1>3. store \in [Addr -> Val] /\ order \in Seq(Param) /\ req' = req
  BY StoreFields DEF clientVars
<1>4. <<>> \in Seq(Val) /\ 0 \in Val /\ 1 \in Val /\ Addr \subseteq Nat
  BY EmptyIsSeq, DeviceAssumption
<1> HIDE DEF h
<1>5. CASE DevWriteAll
  <2>1. /\ h.cmd = "WriteAll" /\ toDev' = <<>> /\ order' = order /\ staged' = <<>>
        /\ fromDev' = fromDev \o <<Msg("WriteAll", 0, <<>>)>>
    BY <1>5 DEF DevWriteAll, Take, Reply, h
  <2>2. Msg("WriteAll", 0, <<>>) \in Frame
    BY <1>4 DEF Msg, Frame, Cmds, Valued
  <2>3. Msg("WriteAll", 0, <<>>) \in Answers'
    BY <1>1, <1>3, <2>1, <2>2 DEF Answers, Want, Msg
  <2> QED
    BY <2>1, <2>2, <2>3
<1>6. CASE DevWrite
  <2>1. h.cmd = "Write" /\ toDev' = <<>> /\ order' = order
    BY <1>6 DEF DevWrite, Take, h
  <2>2. CASE fromDev' = fromDev
    BY <2>1, <2>2
  <2>3. CASE /\ store' = [store EXCEPT ![h.arg] = h.val[1]]
             /\ fromDev' = fromDev \o <<Msg("Write", h.arg, <<h.val[1]>>)>>
    <3> DEFINE f == Msg("Write", h.arg, <<h.val[1]>>)
    <3>1. h.arg \in Addr /\ h.val[1] \in Val /\ h.arg \in Nat
      BY <1>2, <2>1
    <3>2. f \in Frame
      BY <3>1, OneValueFrame DEF Cmds
    <3>3. store'[h.arg] = h.val[1]
      BY <1>3, <2>3, <3>1
    <3>4. f.cmd = "Write" /\ f.val = <<store'[req'.cmd.arg]>> /\ Want(req'.cmd.cmd) = "Write"
      BY <1>1, <1>3, <2>1, <3>3 DEF Msg, Want
    <3> HIDE DEF f
    <3>5. f \in Answers'
      BY <3>2, <3>4 DEF Answers
    <3> QED
      BY <2>1, <2>3, <3>2, <3>5 DEF f
  <2> QED
    BY <1>6, <2>2, <2>3 DEF DevWrite, Reply, h
<1>7. CASE DevRead
  <2> DEFINE f == Msg("Read", h.arg, <<store[h.arg]>>)
  <2>1. /\ h.cmd = "Read" /\ toDev' = <<>> /\ order' = order /\ store' = store
        /\ fromDev' = fromDev \o <<f>>
    BY <1>7 DEF DevRead, Take, Reply, liveVars, h
  <2>2. h.arg \in Addr /\ h.arg \in Nat /\ store[h.arg] \in Val
    BY <1>2, <1>3, <2>1
  <2>3. f \in Frame
    BY <2>2, OneValueFrame DEF Cmds
  <2>4. f.cmd = "Read" /\ f.val = <<store'[req'.cmd.arg]>> /\ Want(req'.cmd.cmd) = "Read"
    BY <1>1, <1>3, <2>1 DEF Msg, Want
  <2> HIDE DEF f
  <2>5. f \in Answers'
    BY <2>3, <2>4 DEF Answers
  <2> QED
    BY <2>1, <2>3, <2>5
<1>8. CASE DevCheckCrc
  <2> DEFINE f == Msg("CheckCrcRsp", 0, CrcOf(order))
  <2>1. /\ h.cmd = "CheckCrc" /\ toDev' = <<>> /\ order' = order
        /\ fromDev' = fromDev \o <<f>>
    BY <1>8 DEF DevCheckCrc, Take, Reply, liveVars, h
  <2>2. CrcOf(order) \in Seq(Val)
    BY <1>3, CrcType
  <2>3. f \in Frame
    BY <2>2 DEF Msg, Frame, Cmds, Valued
  <2>4. f.cmd = "CheckCrcRsp" /\ f.val = CrcOf(order) /\ Want(req'.cmd.cmd) = "CheckCrcRsp"
    BY <1>1, <1>3, <2>1 DEF Msg, Want
  <2> HIDE DEF f
  <2>5. CrcOf(order') = CrcOf(order)
    BY <2>1
  <2>6. f \in Answers'
    BY <2>3, <2>4, <2>5 DEF Answers
  <2> QED
    BY <2>1, <2>3, <2>6
<1>9. CASE DevBurn
  <2>1. h.cmd = "BurnSettings" /\ toDev' = <<>> /\ UNCHANGED <<order, store>>
    BY <1>9 DEF DevBurn, Take, liveVars, h
  <2>2. PICK v \in {0, 1} : /\ fromDev' = fromDev \o <<Msg("BurnSettings", 0, <<v>>)>>
                            /\ v = 1 => flash' = Live
    BY <1>9 DEF DevBurn, Reply
  <2> DEFINE f == Msg("BurnSettings", 0, <<v>>)
  <2>3. f \in Frame
    BY <1>4, <2>2, OneValueFrame DEF Cmds, Valued
  <2>4. f.cmd = "BurnSettings" /\ f.val = <<v>> /\ Want(req'.cmd.cmd) = "BurnSettings"
    BY <1>1, <1>3, <2>1 DEF Msg, Want
  <2> HIDE DEF f
  <2>5. f.val = <<1>> => flash' = Live'
    BY <2>1, <2>2, <2>4 DEF Live
  <2>6. f \in Answers'
    BY <2>3, <2>4, <2>5 DEF Answers
  <2> QED
    BY <2>1, <2>2, <2>3, <2>6 DEF f
<1>10. CASE DevVersion
  <2> DEFINE f == Msg("Version", 0, <<0>>)
  <2>1. /\ h.cmd = "Version" /\ toDev' = <<>> /\ order' = order
        /\ fromDev' = fromDev \o <<f>>
    BY <1>10 DEF DevVersion, Take, Reply, liveVars, h
  <2>2. f \in Frame
    BY <1>4, OneValueFrame DEF Cmds, Valued
  <2>3. f.cmd = "Version" /\ Want(req'.cmd.cmd) = "Version"
    BY <1>1, <1>3, <2>1 DEF Msg, Want
  <2> HIDE DEF f
  <2>4. f \in Answers'
    BY <2>2, <2>3 DEF Answers
  <2> QED
    BY <2>1, <2>2, <2>4
<1>11. CASE DevBootloader
  BY <1>11 DEF DevBootloader, Detach
<1>12. CASE DevWriteAllVal \/ DevWriteAllComplete \/ DevReadAll
  BY <1>1, <1>12 DEF DevWriteAllVal, DevWriteAllComplete, DevReadAll, Take, h
<1> QED
  BY <1>5, <1>6, <1>7, <1>8, <1>9, <1>10, <1>11, <1>12 DEF DeviceStep

(* Losing or damaging a reply leaves junk junk.                            *)
LEMMA JunkKept ==
    ASSUME NEW s \in Seq(Frame), s \in Seq(Junk), s # <<>>
    PROVE  /\ Tail(s) \in Seq(Junk)
           /\ \A f \in Frame : f.cmd = "ReadAllRsp" /\ Head(s).cmd = "ReadAllRsp" =>
                 [s EXCEPT ![1] = f] \in Seq(Junk)
<1>1. Head(s) \in Junk /\ Tail(s) \in Seq(Junk)
  BY HeadIn
<1>2. ASSUME NEW f \in Frame, f.cmd = "ReadAllRsp", Head(s).cmd = "ReadAllRsp"
      PROVE  [s EXCEPT ![1] = f] \in Seq(Junk)
  <2>1. f \in Junk
    BY <1>1, <1>2 DEF Junk, Dump, Of
  <2> QED
    BY <2>1, HeadReplaced
<1> QED
  BY <1>1, <1>2

(* A request under way is still on the link, or its one answer is, or they *)
(* are lost.                                                               *)
LEMMA AskingByEnv ==
    ASSUME TypeInv, Asking, DeviceStep \/ LinkStep, attached', UNCHANGED clientVars
    PROVE  Asking'
<1> DEFINE F == IF pc = "wait" THEN Asked ELSE {}
<1>1. /\ pc \in {"send", "wait"} /\ Fits
      /\ call.op = "ReadAll" => StagedOf(out, order, Len(order))
      /\ \/ AllBut(toDev, Boot, F) /\ fromDev \in Seq(Junk)
         \/ pc = "wait" /\ toDev = <<>> /\ AllBut(fromDev, Junk, Answers)
  BY DEF Asking
<1>2. UNCHANGED <<pc, req, call, out>>
  BY DEF clientVars, callVars, readVars
<1>3. toDev \in Seq(Frame) /\ fromDev \in Seq(Frame)
  BY StoreFields
<1>4. /\ Fits' /\ Asked' = Asked /\ Junk' = Junk
      /\ F' = F
  BY <1>1, <1>2 DEF Fits, Asked, Junk
<1>5. \A f \in Asked : f.cmd # "Bootloader" \/ call.op = "Bootloader"
  BY <1>1 DEF Asked, Fits
<1> HIDE DEF F
<1>6. ASSUME order' = order,
             \/ AllBut(toDev', Boot, F) /\ fromDev' \in Seq(Junk)
             \/ pc = "wait" /\ toDev' = <<>> /\ AllBut(fromDev', Junk, Answers')
      PROVE  Asking'
  BY <1>1, <1>2, <1>4, <1>6 DEF Asking, F
<1>7. CASE AllBut(toDev, Boot, F) /\ fromDev \in Seq(Junk)
  <2>1. toDev # <<>> => /\ Head(toDev) \in Boot \/ (Head(toDev) \in F /\ Tail(toDev) = <<>>)
                        /\ AllBut(Tail(toDev), Boot, F)
    BY <1>3, <1>7, AllButHead
  <2>2. CASE toDev = <<>> \/ Head(toDev).cmd = "Bootloader"
    <3>1. order' = order
      BY <2>2, LinkFacts
    <3>2. CASE toDev # <<>> /\ toDev' = Tail(toDev) /\ fromDev' = fromDev
      BY <1>6, <1>7, <2>1, <3>1, <3>2
    <3>3. CASE fromDev # <<>> /\ toDev' = toDev /\ fromDev' = Tail(fromDev)
      <4>1. fromDev' \in Seq(Junk)
        BY <1>3, <1>7, <3>3, JunkKept
      <4> QED
        BY <1>6, <1>7, <3>1, <3>3, <4>1
    <3>4. CASE /\ fromDev # <<>> /\ toDev' = toDev /\ Head(fromDev).cmd = "ReadAllRsp"
               /\ \E f \in Frame : /\ f.cmd = "ReadAllRsp" /\ f.arg = Head(fromDev).arg
                                   /\ fromDev' = [fromDev EXCEPT ![1] = f]
      <4>1. fromDev' \in Seq(Junk)
        BY <1>3, <1>7, <3>4, JunkKept
      <4> QED
        BY <1>6, <1>7, <3>1, <3>4, <4>1
    <3> QED
      BY <2>2, <3>2, <3>3, <3>4, LinkFacts
  <2>3. CASE toDev # <<>> /\ Head(toDev) \in F /\ Tail(toDev) = <<>>
    <3>1. pc = "wait" /\ Head(toDev) \in Asked /\ F = Asked
      BY <2>3 DEF F
    <3>2. AllBut(<<>>, Boot, F)
      BY EmptyIsSeq, AllButPlain
    <3>3. CASE DeviceStep
      <4>1. /\ toDev' = <<>> /\ order' = order
            /\ \/ fromDev' = fromDev
               \/ \E f \in Frame : f \in Answers' /\ fromDev' = fromDev \o <<f>>
        BY <1>1, <2>3, <3>1, <3>3, AskedHandled
      <4>2. CASE fromDev' = fromDev
        BY <1>6, <1>7, <3>2, <4>1, <4>2
      <4>3. CASE \E f \in Frame : f \in Answers' /\ fromDev' = fromDev \o <<f>>
        <5>1. PICK f \in Frame : f \in Answers' /\ fromDev' = fromDev \o <<f>>
          BY <4>3
        <5> DEFINE A == Answers'
        <5>2. f \in A
          BY <5>1
        <5> HIDE DEF A
        <5>3. AllBut(fromDev \o <<f>>, Junk, A)
          BY <1>3, <1>7, <5>2, AllButAppend
        <5>4. AllBut(fromDev', Junk, Answers')
          BY <5>1, <5>3 DEF A
        <5> QED
          BY <1>6, <3>1, <4>1, <5>4
      <4> QED
        BY <4>1, <4>2, <4>3
    <3>4. CASE DropCommand
      BY <1>6, <1>7, <2>3, <3>2, <3>4 DEF DropCommand, liveVars
    <3>5. CASE LoseReply
      <4>1. fromDev # <<>> /\ fromDev' = Tail(fromDev) /\ UNCHANGED <<toDev, order>>
        BY <3>5 DEF LoseReply, liveVars
      <4>2. fromDev' \in Seq(Junk)
        BY <1>3, <1>7, <4>1, JunkKept
      <4> QED
        BY <1>6, <1>7, <4>1, <4>2
    <3>6. CASE DamageReply
      <4>1. /\ fromDev # <<>> /\ Head(fromDev).cmd = "ReadAllRsp" /\ UNCHANGED <<toDev, order>>
            /\ Head(fromDev).cmd \in Damageable
            /\ \E f \in Damaged(Head(fromDev)) : fromDev' = [fromDev EXCEPT ![1] = f]
        BY <3>6 DEF DamageReply, liveVars
      <4>2. Head(fromDev) \in Frame
        BY <1>3, <4>1, HeadIn
      <4>3. \E f \in Frame : f.cmd = "ReadAllRsp" /\ fromDev' = [fromDev EXCEPT ![1] = f]
        BY <4>1, <4>2, DamagedFrame
      <4>4. fromDev' \in Seq(Junk)
        BY <1>3, <1>7, <4>1, <4>3, JunkKept
      <4> QED
        BY <1>6, <1>7, <4>1, <4>4
    <3>7. CASE DamageCommand
      <4>1. /\ Head(toDev).cmd \in Damageable /\ UNCHANGED <<fromDev, order>>
            /\ \E f \in Damaged(Head(toDev)) : toDev' = [toDev EXCEPT ![1] = f]
        BY <3>7 DEF DamageCommand, liveVars
      <4>2. Head(toDev) \in Frame
        BY <1>3, <2>3, HeadIn
      <4>3. PICK f \in Damaged(Head(toDev)) : toDev' = [toDev EXCEPT ![1] = f]
        BY <4>1
      <4>4. f \in Frame /\ f.cmd = Head(toDev).cmd
        BY <4>1, <4>2, DamagedFrame
      <4>5. f.arg = Head(toDev).arg
        BY <4>2, <4>3 DEF Damaged, Frame
      <4>6. f \in F
        BY <3>1, <4>4, <4>5 DEF Asked
      <4>7. Head(toDev) \notin Boot
        BY <4>1, BootHead, DeviceAssumption
      <4>8. AllBut([toDev EXCEPT ![1] = f], Boot, F)
        BY <1>3, <1>7, <2>3, <4>4, <4>6, <4>7, AllButDamage
      <4> QED
        BY <1>6, <1>7, <4>1, <4>3, <4>8
    <3>8. CASE Reset
      BY <3>8 DEF Reset, Detach
    <3> QED
      BY <3>3, <3>4, <3>5, <3>6, <3>7, <3>8 DEF LinkStep
  <2> QED
    BY <2>1, <2>2, <2>3, BootHead
<1>8. CASE pc = "wait" /\ toDev = <<>> /\ AllBut(fromDev, Junk, Answers)
  <2>1. UNCHANGED <<store, order, staged, flash>>
    BY <1>8, LinkFacts
  <2>2. Answers' = Answers
    BY <1>2, <2>1 DEF Answers, Live
  <2>3. CASE fromDev # <<>> /\ toDev' = toDev /\ fromDev' = Tail(fromDev)
    <3>1. AllBut(Tail(fromDev), Junk, Answers)
      BY <1>3, <1>8, <2>3, AllButHead
    <3> QED
      BY <1>6, <1>8, <2>1, <2>2, <2>3, <3>1
  <2>4. CASE /\ fromDev # <<>> /\ toDev' = toDev /\ Head(fromDev).cmd = "ReadAllRsp"
             /\ \E f \in Frame : /\ f.cmd = "ReadAllRsp" /\ f.arg = Head(fromDev).arg
                                 /\ fromDev' = [fromDev EXCEPT ![1] = f]
    <3>1. PICK f \in Frame : /\ f.cmd = "ReadAllRsp"
                             /\ fromDev' = [fromDev EXCEPT ![1] = f]
      BY <2>4
    <3>2. Head(fromDev) \in Junk => f \in Junk
      BY <3>1 DEF Junk, Dump, Of
    <3>3. Head(fromDev) \notin Answers
      BY <1>1, <2>4 DEF Answers, Fits, Want
    <3>4. AllBut([fromDev EXCEPT ![1] = f], Junk, Answers)
      BY <1>3, <1>8, <2>4, <3>2, <3>3, AllButDamage
    <3> QED
      BY <1>6, <1>8, <2>1, <2>2, <2>4, <3>1, <3>4
  <2> QED
    BY <1>8, <2>3, <2>4, LinkFacts
<1> QED
  BY <1>1, <1>7, <1>8

(* The values leave the link in order, and the completion last: it commits *)
(* what was staged.                                                        *)
LEMMA SendingByEnv ==
    ASSUME TypeInv, Sending, DeviceStep \/ LinkStep, attached', UNCHANGED clientVars
    PROVE  Sending' \/ Stored'
<1> DEFINE list == call.list
           n == Begun
           open == pc # "wait"
<1>1. /\ call.op = "WriteAll" /\ fromDev = <<>> /\ Distinct(staged)
      /\ pc = "vals" \/ Requesting("WriteAllComplete")
  BY DEF Sending
<1>2. /\ toDev \in Seq(Frame) /\ store \in [Addr -> Val] /\ staged \in Seq(Param)
      /\ list \in Seq(Param) /\ list \in Configs /\ Len(list) \in Nat
  BY <1>1, StoreFields
<1>3. PICK b \in Nat : /\ OnLink(toDev, list, 0, b, n, open)
                       /\ Len(toDev) <= n - b + 1
                       /\ StagedOf(staged, list, b)
  BY DEF Sending
<1>4. UNCHANGED <<pc, req, call, next>>
  BY DEF clientVars, callVars
<1>5. /\ n \in Nat /\ b <= n /\ n <= Len(list) /\ n - b <= Len(toDev) /\ Len(toDev) \in Nat
      /\ ~open => n = Len(list)
  BY <1>1, <1>2, <1>3, LenProperties DEF OnLink, Begun, Requesting
<1>6. toDev # <<>>
  BY <1>1, LinkFacts
<1>7. Head(toDev) \in Frame /\ Tail(toDev) \in Seq(Frame) /\ Len(Tail(toDev)) = Len(toDev) - 1
  BY <1>2, <1>6, HeadTailProperties
<1>8. ASSUME NEW c \in Nat, OnLink(toDev', list, 0, c, n, open), Len(toDev') <= n - c + 1,
             StagedOf(staged', list, c), Distinct(staged'), fromDev' = <<>>
      PROVE  Sending'
  BY <1>1, <1>4, <1>8 DEF Sending, Requesting, Begun
<1> HIDE DEF n, list, open
<1>9. Head(toDev).cmd # "WriteAll"
  <2>1. Head(toDev) = toDev[1] /\ 1 \in 1..Len(toDev)
    BY <1>2, <1>6, HeadTailProperties, EmptySeq
  <2>2. 0 < 1 /\ (1 <= 0 + n - b \/ 0 + n - b < 1)
    BY <1>5
  <2>3. toDev[1].cmd \in {"WriteAllVal", "WriteAllComplete"}
    BY <1>3, <2>1, <2>2 DEF OnLink
  <2> QED
    BY <2>1, <2>3
<1>10. \/ /\ Head(toDev).cmd = "WriteAllVal" /\ b < n /\ Head(toDev).arg = list[b + 1].addr
          /\ OnLink(Tail(toDev), list, 0, b + 1, n, open)
       \/ /\ Head(toDev).cmd = "WriteAllComplete" /\ ~open /\ b = n
          /\ OnLink(Tail(toDev), list, 0, n, n, open)
  BY <1>2, <1>3, <1>6, <1>9, OnLinkHead
<1>11. StagedOf(staged, list, b + 1)
       /\ \A x \in Param : x.addr = list[b + 1].addr => StagedOf(Append(staged, x), list, b + 1)
  BY <1>2, <1>3, StagedNext
<1>12. b < n => b + 1 \in Nat /\ Len(toDev) - 1 <= n - (b + 1) + 1 /\ b < Len(list)
  BY <1>3, <1>5
<1>13. b = n => Len(toDev) - 1 <= n - n + 1 /\ Len(toDev) <= 1
  BY <1>3, <1>5
<1>14. CASE DevWriteAllVal
  <2> DEFINE x == [addr |-> Head(toDev).arg, val |-> Head(toDev).val[1]]
  <2>1. /\ Head(toDev).cmd = "WriteAllVal" /\ toDev' = Tail(toDev) /\ fromDev' = <<>>
        /\ staged' = staged \/ staged' = Append(staged, x)
    BY <1>1, <1>14 DEF DevWriteAllVal, Take
  <2>2. /\ b < n /\ x.addr = list[b + 1].addr
        /\ OnLink(toDev', list, 0, b + 1, n, open)
    BY <1>10, <2>1
  <2>3. x \in Param
    BY <1>7, <2>1, FrameFields DEF Valued, Param
  <2> HIDE DEF x
  <2>4. Distinct(Append(staged, x))
    BY <1>1, <1>2, <1>3, <1>12, <2>2, <2>3, DistinctNext
  <2>5. Distinct(staged') /\ StagedOf(staged', list, b + 1)
    BY <1>1, <1>11, <2>1, <2>2, <2>3, <2>4
  <2>6. Len(toDev') <= n - (b + 1) + 1
    BY <1>7, <1>12, <2>1, <2>2
  <2> QED
    BY <1>8, <1>12, <2>1, <2>2, <2>5, <2>6
<1>15. CASE DropCommand
  <2>1. toDev' = Tail(toDev) /\ fromDev' = <<>> /\ staged' = staged
    BY <1>1, <1>15 DEF DropCommand, liveVars
  <2>2. CASE b < n
    BY <1>1, <1>7, <1>8, <1>10, <1>11, <1>12, <2>1, <2>2
  <2>3. CASE b = n
    BY <1>1, <1>3, <1>7, <1>8, <1>10, <1>13, <2>1, <2>3
  <2> QED
    BY <1>3, <1>5, <2>2, <2>3
<1>16. CASE DamageCommand /\ Head(toDev).cmd = "WriteAllVal"
  <2>1. /\ Head(toDev).cmd \in Damageable /\ fromDev' = <<>> /\ staged' = staged
        /\ \E f \in Damaged(Head(toDev)) : toDev' = [toDev EXCEPT ![1] = f]
    BY <1>1, <1>16 DEF DamageCommand, liveVars
  <2>2. PICK f \in Damaged(Head(toDev)) : toDev' = [toDev EXCEPT ![1] = f]
    BY <2>1
  <2>3. f \in Frame /\ f.cmd = Head(toDev).cmd
    BY <1>7, <2>1, DamagedFrame
  <2>4. f.arg = Head(toDev).arg
    BY <1>7, <2>2 DEF Damaged, Frame
  <2>5. OnLink([toDev EXCEPT ![1] = f], list, 0, b, n, open)
    BY <1>2, <1>3, <1>6, <2>3, <2>4, OnLinkDamage
  <2>6. Len([toDev EXCEPT ![1] = f]) = Len(toDev)
    BY <1>2, <1>6, <2>3, HeadReplaced
  <2> QED
    BY <1>1, <1>3, <1>8, <2>1, <2>2, <2>5, <2>6
<1>17. CASE DevWriteAllComplete
  <2>1. /\ Head(toDev).cmd = "WriteAllComplete" /\ toDev' = Tail(toDev)
        /\ order' = staged /\ store' = Overlay(store, staged) /\ staged' = staged
        /\ fromDev' = <<>> \o <<TheReply>>
    BY <1>1, <1>17 DEF DevWriteAllComplete, Take, Reply, TheReply
  <2>2. ~open /\ b = n /\ n = Len(list)
    BY <1>5, <1>10, <2>1
  <2>3. toDev' = <<>>
    <3>1. Len(toDev') = 0 /\ toDev' \in Seq(Frame)
      BY <1>5, <1>6, <1>7, <1>13, <2>1, <2>2, EmptySeq
    <3> QED
      BY <3>1, EmptySeq
  <2>4. TheReply' = TheReply /\ <<>> \o <<TheReply>> = <<TheReply>>
    BY <2>1 DEF TheReply
  <2>5. Overlay(store', staged') = store'
    BY <2>1, OverlayTwice
  <2>6. StagedOf(staged', list, Len(list))
    BY <1>3, <2>1, <2>2
  <2>7. pc = "wait" /\ req.cmd.cmd = "WriteAllComplete"
    BY <1>1, <2>2 DEF open, Requesting
  <2> QED
    BY <1>1, <1>4, <2>1, <2>3, <2>4, <2>5, <2>6, <2>7 DEF Stored, list
<1>18. CASE DevWriteAll
  BY <1>9, <1>18 DEF DevWriteAll, Take
<1>19. CASE LoseReply
  BY <1>1, <1>19 DEF LoseReply
<1> QED
  BY <1>1, <1>10, <1>14, <1>15, <1>16, <1>17, <1>18, <1>19, EnvCases

(* The answer waits for the client, or it is lost.                         *)
LEMMA StoredByEnv ==
    ASSUME TypeInv, Stored, DeviceStep \/ LinkStep, attached', UNCHANGED clientVars
    PROVE  Sending' \/ Stored'
<1> DEFINE list == call.list
<1>1. /\ call.op = "WriteAll" /\ pc = "wait" /\ req.cmd.cmd = "WriteAllComplete"
      /\ toDev = <<>> /\ fromDev = <<TheReply>>
      /\ StagedOf(staged, list, Len(list)) /\ Distinct(staged)
  BY DEF Stored
<1>2. Len(list) \in Nat
  BY StoreFields
<1>3. UNCHANGED <<pc, req, call>>
  BY DEF clientVars, callVars
<1>4. Head(fromDev).cmd = "WriteAllComplete" /\ Tail(fromDev) = <<>>
  BY <1>1 DEF TheReply, Msg
<1>5. UNCHANGED <<staged, toDev>> /\ fromDev' = <<>>
  BY <1>1, <1>4, LinkFacts
<1>6. OnLink(<<>>, list, 0, Len(list), Len(list), FALSE) /\ Len(<<>>) <= Len(list) - Len(list) + 1
  BY <1>2 DEF OnLink
<1>7. Begun' = Len(list) /\ (pc' # "wait") = FALSE
  BY <1>1, <1>3 DEF Begun
<1> HIDE DEF list
<1>8. \E b \in Nat : /\ OnLink(toDev', list, 0, b, Begun', pc' # "wait")
                     /\ Len(toDev') <= Begun' - b + 1
                     /\ StagedOf(staged', list, b)
  BY <1>1, <1>2, <1>5, <1>6, <1>7
<1> QED
  BY <1>1, <1>3, <1>5, <1>8 DEF Sending, Requesting, Distinct, list

(* A dump is asked for, is on the link, or has all left it.                *)
LEMMA DumpingByEnv ==
    ASSUME TypeInv, Dumping, DeviceStep \/ LinkStep, attached', UNCHANGED clientVars
    PROVE  Dumping'
<1> DEFINE F == IF sends > 0 THEN Of({"ReadAll"}) ELSE {}
<1>1. call.op = "ReadAll" /\ pc = "dump" /\ (~primed => out = <<>>)
  BY DEF Dumping
<1>2. UNCHANGED <<pc, call, out, primed, sends>>
  BY DEF clientVars, callVars, readVars
<1>3. toDev \in Seq(Frame) /\ fromDev \in Seq(Frame) /\ order \in Seq(Param) /\ DeviceTypeOK
  BY StoreFields
<1>4. ASSUME \/ ~primed /\ fromDev' = <<>> /\ AllBut(toDev', Boot, F)
             \/ /\ sends > 0 /\ toDev' = <<>> /\ order' = order
                /\ \E w, b \in Nat : DumpOnLink(fromDev', order, w, b) /\ StagedOf(out, order, b)
             \/ /\ sends > 0 /\ toDev' = <<>> /\ fromDev' = <<>> /\ order' = order
                /\ StagedOf(out, order, Len(order))
      PROVE  Dumping'
  BY <1>1, <1>2, <1>4 DEF Dumping
<1>5. CASE ~primed /\ fromDev = <<>> /\ AllBut(toDev, Boot, F)
  <2>1. toDev # <<>>
    BY <1>5, LinkFacts
  <2>2. /\ Head(toDev) \in Boot \/ (Head(toDev) \in F /\ Tail(toDev) = <<>>)
        /\ AllBut(Tail(toDev), Boot, F)
    BY <1>3, <1>5, <2>1, AllButHead
  <2> HIDE DEF F
  <2>3. CASE Head(toDev) \in Boot
    <3>1. toDev' = Tail(toDev) /\ fromDev' = <<>>
      BY <1>5, <2>3, BootHead, LinkFacts
    <3> QED
      BY <1>4, <1>5, <2>2, <3>1
  <2>4. CASE Head(toDev) \in F /\ Tail(toDev) = <<>>
    <3>1. sends > 0 /\ Head(toDev).cmd = "ReadAll"
      BY <2>4 DEF F, Of
    <3>2. DevReadAll \/ DropCommand
      <4>1. ~DamageCommand
        BY <3>1, DeviceAssumption DEF DamageCommand
      <4>2. ~LoseReply /\ ~DamageReply
        BY <1>5 DEF LoseReply, DamageReply
      <4>3. ~Reset /\ ~DevBootloader
        BY DEF Reset, DevBootloader, Detach
      <4> QED
        BY <3>1, <4>1, <4>2, <4>3
           DEF DeviceStep, LinkStep, DevWriteAll, DevWriteAllVal, DevWriteAllComplete,
               DevWrite, DevRead, DevCheckCrc, DevBurn, DevVersion, Take
    <3>3. CASE DropCommand
      BY <1>4, <1>5, <2>2, <3>3 DEF DropCommand
    <3>4. CASE DevReadAll
      <4>1. toDev' = <<>> /\ order' = order /\ fromDev' = <<>> \o TheDump
        BY <1>5, <2>4, <3>4 DEF DevReadAll, Take, Reply, liveVars, TheDump
      <4>2. DumpOnLink(fromDev', order, 1, 0)
        BY <1>3, <4>1, DumpBegins
      <4>3. StagedOf(out, order, 0)
        BY <1>1, <1>5 DEF StagedOf
      <4> QED
        BY <1>4, <3>1, <4>1, <4>2, <4>3
    <3> QED
      BY <3>2, <3>3, <3>4
  <2> QED
    BY <2>2, <2>3, <2>4
<1>6. CASE /\ sends > 0 /\ toDev = <<>>
           /\ \E w, b \in Nat : DumpOnLink(fromDev, order, w, b) /\ StagedOf(out, order, b)
  <2>1. PICK w \in Nat, b \in Nat : DumpOnLink(fromDev, order, w, b) /\ StagedOf(out, order, b)
    BY <1>6
  <2>2. order' = order /\ toDev' = <<>>
    BY <1>6, LinkFacts
  <2>3. CASE fromDev # <<>> /\ fromDev' = Tail(fromDev)
    <3>1. \/ DumpOnLink(fromDev', order, 0, 0) /\ b = 0
          \/ DumpOnLink(fromDev', order, 0, b + 1)
          \/ fromDev' = <<>> /\ b = Len(order)
      BY <1>3, <2>1, <2>3, DumpHead
    <3>2. StagedOf(out, order, b + 1) /\ b + 1 \in Nat
      <4>1. b + 1 \in Nat /\ b <= b + 1 /\ out \in Seq(Param)
        BY StoreFields
      <4> QED
        BY <2>1, <4>1, StagedLater
    <3> QED
      BY <1>4, <1>6, <2>1, <2>2, <3>1, <3>2
  <2>4. CASE /\ fromDev # <<>> /\ Head(fromDev).cmd = "ReadAllRsp"
             /\ \E f \in Frame : /\ f.cmd = "ReadAllRsp" /\ f.arg = Head(fromDev).arg
                                 /\ fromDev' = [fromDev EXCEPT ![1] = f]
    <3>1. PICK f \in Frame : /\ f.cmd = Head(fromDev).cmd /\ f.arg = Head(fromDev).arg
                             /\ fromDev' = [fromDev EXCEPT ![1] = f]
      BY <2>4
    <3>2. DumpOnLink([fromDev EXCEPT ![1] = f], order, w, b)
      BY <1>3, <2>1, <2>4, <3>1, DumpDamage
    <3> QED
      BY <1>4, <1>6, <2>1, <2>2, <3>1, <3>2
  <2> QED
    BY <1>6, <2>3, <2>4, LinkFacts
<1>7. CASE sends > 0 /\ toDev = <<>> /\ fromDev = <<>> /\ StagedOf(out, order, Len(order))
  BY <1>7, LinkFacts
<1> QED
  BY <1>5, <1>6, <1>7 DEF Dumping

(* The device and the link keep a call in its phase, but for WriteAll's    *)
(* completion.                                                             *)
LEMMA PhaseByEnv ==
    ASSUME TypeInv, Phase, DeviceStep \/ LinkStep, attached', UNCHANGED clientVars
    PROVE  Phase'
BY ReturnedByEnv, AskingByEnv, SendingByEnv, StoredByEnv, DumpingByEnv DEF Phase

-----------------------------------------------------------------------------
(* The steps of the client.                                                *)

(* A call returns with nothing left on the link but resets, and keeps its  *)
(* promise if it succeeds.                                                 *)
LEMMA Returns ==
    ASSUME UNCHANGED <<call, store, order, flash>>, toDev' \in Seq(Boot), fromDev' = <<>>,
           NEW ok \in BOOLEAN, NEW v, NEW l, Return(ok, v, l),
           ok => CS!Promise(call, [ok |-> ok, val |-> v, list |-> l])
    PROVE  Returned'
<1>1. /\ pc' = "idle" /\ ~primed' /\ out' = <<>>
      /\ ret' = [ok |-> ok, val |-> v, list |-> l]
  BY DEF Return
<1>2. ret'.ok = ok /\ ret'.val = v /\ ret'.list = l
  BY <1>1
<1>3. ret'.ok => CS!Promise(call, ret)'
  BY <1>1, <1>2 DEF CS!Promise, CS!Holds, CS!Values, CS!Live
<1> QED
  BY <1>1, <1>3 DEF Returned, Idle

(* A call fails with nothing on the link.                                  *)
LEMMA Fails ==
    ASSUME UNCHANGED <<call, store, order, flash, toDev, fromDev>>,
           toDev = <<>>, fromDev = <<>>, Fail
    PROVE  Returned'
<1>1. toDev' \in Seq(Boot)
  BY EmptyIsSeq
<1>2. Return(FALSE, <<>>, <<>>)
  BY DEF Fail
<1> QED
  BY <1>1, <1>2, Returns

(* The one answer to a request is an answer to it, and the last frame.     *)
LEMMA AskingAnswered ==
    ASSUME TypeInv, Asking, NEW cmd, Answered(cmd)
    PROVE  /\ Answer \in Answers /\ toDev' = <<>> /\ fromDev' = <<>>
           /\ req.cmd.cmd = cmd /\ UNCHANGED <<call, store, order, flash, staged>>
<1>1. /\ pc = "wait" /\ req.cmd.cmd = cmd /\ fromDev # <<>> /\ fromDev' = Tail(fromDev)
      /\ Head(fromDev).cmd = Want(cmd)
      /\ UNCHANGED <<call, toDev, store, order, flash, staged>>
  BY DEF Answered, Receive, callVars, liveVars, flashVars
<1>2. Head(fromDev) \notin Junk
  <2>1. Want(cmd) \notin {"ReadAll", "ReadAllRsp", "ReadAllComplete"}
    BY <1>1 DEF Asking, Fits, Want
  <2> QED
    BY <1>1, <2>1 DEF Junk, Dump, Of
<1>3. fromDev \in Seq(Frame)
  BY StoreFields
<1>4. fromDev \notin Seq(Junk)
  BY <1>1, <1>2, HeadIn
<1>5. toDev = <<>> /\ AllBut(fromDev, Junk, Answers)
  BY <1>4 DEF Asking
<1>6. Head(fromDev) \in Answers /\ Tail(fromDev) = <<>>
  BY <1>1, <1>2, <1>3, <1>5, AllButHead
<1> QED
  BY <1>1, <1>5, <1>6 DEF Answer

(* The request is sent; a reset is not waited for.                         *)
LEMMA AskingSends ==
    ASSUME TypeInv, Asking, SendRequest
    PROVE  Phase'
<1>1. /\ pc = "send" /\ toDev' = Append(toDev, req.cmd)
      /\ UNCHANGED <<call, fromDev, store, order, flash, staged>>
      /\ IF req.cmd.cmd = "Bootloader"
         THEN Return(TRUE, <<>>, <<>>)
         ELSE pc' = "wait" /\ req' = [req EXCEPT !.left = @ - 1] /\ UNCHANGED out
  BY DEF SendRequest, Send, callVars, liveVars, flashVars, readVars
<1>2. /\ Fits /\ (call.op = "ReadAll" => StagedOf(out, order, Len(order)))
      /\ AllBut(toDev, Boot, {}) /\ fromDev \in Seq(Junk)
  BY <1>1 DEF Asking
<1>3. toDev \in Seq(Frame) /\ req.cmd \in Frame /\ req \in [cmd : Frame, left : 0..Tries]
  BY StoreFields DEF TypeInv, TypeOK
<1>4. toDev \in Seq(Boot)
  BY <1>2, <1>3, AllButNothing
<1>5. CASE req.cmd.cmd = "Bootloader"
  <2>1. call.op = "Bootloader"
    BY <1>2, <1>5 DEF Fits
  <2>2. fromDev = <<>>
    <3>1. Junk = {}
      BY <2>1 DEF Junk
    <3>2. fromDev # <<>> => Head(fromDev) \in Junk
      BY <1>2, HeadIn
    <3> QED
      BY <3>1, <3>2
  <2>3. req.cmd \in Boot
    BY <1>3, <1>5 DEF Boot, Of
  <2>4. toDev' \in Seq(Boot)
    BY <1>1, <1>4, <2>3, QueueType
  <2>5. CS!Promise(call, [ok |-> TRUE, val |-> <<>>, list |-> <<>>])
    BY <2>1 DEF CS!Promise
  <2>6. Return(TRUE, <<>>, <<>>)
    BY <1>1, <1>5
  <2>7. Returned'
    BY <1>1, <2>2, <2>4, <2>5, <2>6, Returns
  <2> QED
    BY <2>7 DEF Phase
<1>6. CASE req.cmd.cmd # "Bootloader"
  <2>1. pc' = "wait" /\ UNCHANGED out /\ req'.cmd = req.cmd
    BY <1>1, <1>3, <1>6
  <2>2. Fits' /\ Asked' = Asked /\ Junk' = Junk
    BY <1>1, <1>2, <2>1 DEF Fits, Asked, Junk
  <2>3. req.cmd \in Asked
    BY <1>3 DEF Asked
  <2>4. AllBut(Append(toDev, req.cmd), Boot, Asked)
    BY <1>3, <1>4, <2>3, AllButAppend
  <2>5. Asking'
    BY <1>1, <1>2, <2>1, <2>2, <2>4 DEF Asking
  <2> QED
    BY <2>5 DEF Phase
<1> QED
  BY <1>5, <1>6

(* A reply to something else is junk, and leaves an answer behind it.      *)
LEMMA AskingSkips ==
    ASSUME TypeInv, Asking, SkipReply
    PROVE  Asking'
<1>1. /\ pc = "wait" /\ fromDev # <<>> /\ fromDev' = Tail(fromDev)
      /\ UNCHANGED <<call, toDev, store, order, flash, staged, pc, req, out>>
  BY DEF SkipReply, Receive, clientVars, callVars, liveVars, flashVars, readVars
<1>2. /\ Fits /\ (call.op = "ReadAll" => StagedOf(out, order, Len(order)))
      /\ \/ AllBut(toDev, Boot, Asked) /\ fromDev \in Seq(Junk)
         \/ toDev = <<>> /\ AllBut(fromDev, Junk, Answers)
  BY <1>1 DEF Asking
<1>3. fromDev \in Seq(Frame)
  BY StoreFields
<1>4. Fits' /\ Asked' = Asked /\ Junk' = Junk /\ Answers' = Answers
  BY <1>1, <1>2 DEF Fits, Asked, Junk, Answers, Live
<1>5. \/ AllBut(toDev', Boot, Asked) /\ fromDev' \in Seq(Junk)
      \/ toDev' = <<>> /\ AllBut(fromDev', Junk, Answers)
  BY <1>1, <1>2, <1>3, HeadIn, AllButHead
<1> QED
  BY <1>1, <1>2, <1>4, <1>5 DEF Asking

(* The start is acknowledged: the device has nothing staged.               *)
LEMMA AskingStarted ==
    ASSUME TypeInv, Asking, WriteAllStarted
    PROVE  Sending'
<1>1. /\ Answered("WriteAll") /\ pc' = "vals" /\ next' = 1
  BY DEF WriteAllStarted
<1>2. /\ Answer \in Answers /\ toDev' = <<>> /\ fromDev' = <<>> /\ req.cmd.cmd = "WriteAll"
      /\ UNCHANGED <<call, staged>>
  BY <1>1, AskingAnswered
<1>3. call.op = "WriteAll" /\ staged = <<>>
  <2>1. Answer.cmd = "WriteAll"
    BY <1>2 DEF Answers, Want
  <2> QED
    BY <1>2, <2>1 DEF Answers, Asking, Fits
<1>4. call.list \in Seq(Param) /\ Len(call.list) \in Nat
  BY StoreFields
<1>5. /\ OnLink(<<>>, call.list, 0, 0, 0, TRUE) /\ Len(<<>>) <= 0 - 0 + 1
      /\ StagedOf(<<>>, call.list, 0) /\ Distinct(<<>>)
  BY <1>4 DEF OnLink, StagedOf, Distinct
<1>6. Begun' = 0 /\ (pc' # "wait") = TRUE
  BY <1>1 DEF Begun
<1>7. \E b \in Nat : /\ OnLink(toDev', call'.list, 0, b, Begun', pc' # "wait")
                     /\ Len(toDev') <= Begun' - b + 1
                     /\ StagedOf(staged', call'.list, b)
  BY <1>2, <1>3, <1>5, <1>6
<1>8. Distinct(staged')
  BY <1>2, <1>3, <1>5
<1> QED
  BY <1>1, <1>2, <1>3, <1>7, <1>8 DEF Sending

(* Equal ranges end at the same number.                                    *)
LEMMA SameRange ==
    ASSUME NEW m \in Nat, NEW n \in Nat, 1..m = 1..n
    PROVE  m = n
<1>1. CASE m < n
  <2>1. n \in 1..n /\ n \notin 1..m
    BY <1>1
  <2> QED
    BY <2>1
<1>2. CASE n < m
  <2>1. m \in 1..m /\ m \notin 1..n
    BY <1>2
  <2> QED
    BY <2>1
<1> QED
  BY <1>1, <1>2

(* A list with the CRC of another, staged or collected from it, is it.     *)
LEMMA CrcWhole ==
    ASSUME NEW s \in Seq(Param), NEW list \in Seq(Param), StagedOf(s, list, Len(list)),
           CrcOf(s) = CrcOf(list)
    PROVE  s = list
<1> DEFINE m == Len(s)
           n == Len(list)
<1>1. m \in Nat /\ DOMAIN s = 1..m /\ n \in Nat /\ DOMAIN list = 1..n
  BY LenProperties
<1>2. DOMAIN CrcOf(s) = DOMAIN s /\ DOMAIN CrcOf(list) = DOMAIN list
  BY DEF CrcOf
<1>3. n <= n /\ StagedOf(s, list, n)
  BY <1>1
<1> HIDE DEF m, n
<1>4. 1..m = 1..n
  BY <1>1, <1>2
<1>5. m = n
  BY <1>1, <1>4, SameRange
<1>6. n <= Len(list) /\ Len(s) = Len(list)
  BY <1>3, <1>5 DEF m, n
<1> QED
  BY <1>1, <1>3, <1>6, StagedWhole

(* The answer to the one request of a call says what the call promises.    *)
LEMMA AskingReturns ==
    ASSUME TypeInv, Asking,
           \/ SetParamAnswered \/ ReadParamAnswered \/ VersionAnswered
           \/ BurnAnswered \/ CrcAnswered
    PROVE  Returned'
<1>1. \A cmd : Answered(cmd) =>
          /\ Answer \in Answers /\ toDev' = <<>> /\ fromDev' = <<>>
          /\ req.cmd.cmd = cmd /\ UNCHANGED <<call, store, order, flash>>
  BY AskingAnswered
<1>2. Fits /\ (call.op = "ReadAll" => StagedOf(out, order, Len(order)))
  BY DEF Asking
<1>3. out \in Seq(Param) /\ order \in Seq(Param)
  BY StoreFields
<1>4. ASSUME UNCHANGED <<call, store, order, flash>>, toDev' = <<>>, fromDev' = <<>>,
             NEW ok \in BOOLEAN, NEW v, NEW l, Return(ok, v, l),
             ok => CS!Promise(call, [ok |-> ok, val |-> v, list |-> l])
      PROVE  Returned'
  <2>1. toDev' \in Seq(Boot)
    BY <1>4, EmptyIsSeq
  <2> QED
    BY <1>4, <2>1, Returns
<1>5. CASE SetParamAnswered
  <2>1. Answered("Write") /\ Return(Answer.val = call.val, <<>>, <<>>)
    BY <1>5 DEF SetParamAnswered
  <2>2. call.op = "SetParam" /\ Answer.val = <<store[call.arg]>>
    BY <1>1, <1>2, <2>1 DEF Fits, Answers, Want
  <2>3. Answer.val = call.val =>
            CS!Promise(call, [ok |-> Answer.val = call.val, val |-> <<>>, list |-> <<>>])
    BY <2>2 DEF CS!Promise
  <2>4. (Answer.val = call.val) \in BOOLEAN
    OBVIOUS
  <2> DEFINE ok == Answer.val = call.val
  <2>5. /\ ok \in BOOLEAN /\ Return(ok, <<>>, <<>>)
        /\ ok => CS!Promise(call, [ok |-> ok, val |-> <<>>, list |-> <<>>])
    BY <2>1, <2>3, <2>4
  <2> HIDE DEF ok
  <2> QED
    BY <1>1, <1>4, <2>1, <2>5
<1>6. CASE ReadParamAnswered
  <2>1. Answered("Read") /\ Return(TRUE, Answer.val, <<>>)
    BY <1>6 DEF ReadParamAnswered
  <2>2. call.op = "ReadParam" /\ Answer.val = <<store[call.arg]>>
    BY <1>1, <1>2, <2>1 DEF Fits, Answers, Want
  <2>3. CS!Promise(call, [ok |-> TRUE, val |-> Answer.val, list |-> <<>>])
    BY <2>2 DEF CS!Promise
  <2> QED
    BY <1>1, <1>4, <2>1, <2>3
<1>7. CASE VersionAnswered
  <2>1. Answered("Version") /\ Return(TRUE, Answer.val, <<>>)
    BY <1>7 DEF VersionAnswered
  <2>2. call.op = "Version"
    BY <1>1, <1>2, <2>1 DEF Fits
  <2>3. CS!Promise(call, [ok |-> TRUE, val |-> Answer.val, list |-> <<>>])
    BY <2>2 DEF CS!Promise
  <2> QED
    BY <1>1, <1>4, <2>1, <2>3
<1>8. CASE BurnAnswered
  <2> DEFINE ok == Answer.val = <<1>>
  <2>1. Answered("BurnSettings") /\ Return(ok, <<>>, <<>>)
    BY <1>8 DEF BurnAnswered
  <2>2. call.op = "Burn" /\ (ok => flash = Live)
    BY <1>1, <1>2, <2>1 DEF Fits, Answers, Want
  <2>3. ok \in BOOLEAN
    OBVIOUS
  <2> HIDE DEF ok
  <2>4. ok => CS!Promise(call, [ok |-> ok, val |-> <<>>, list |-> <<>>])
    BY <2>2 DEF CS!Promise, CS!Live, Live
  <2> QED
    BY <1>1, <1>4, <2>1, <2>3, <2>4
<1>9. CASE CrcAnswered
  <2>1. /\ Answered("CheckCrc")
        /\ IF call.op = "ReadAll"
           THEN Return(Answer.val = CrcOf(out), <<>>, out)
           ELSE Return(TRUE, Answer.val, <<>>)
    BY <1>9 DEF CrcAnswered
  <2>2. call.op \in {"CheckCrc", "ReadAll"} /\ Answer.val = CrcOf(order)
    BY <1>1, <1>2, <2>1 DEF Fits, Answers, Want
  <2>3. CASE call.op = "CheckCrc"
    <3>1. Return(TRUE, Answer.val, <<>>)
      BY <2>1, <2>3
    <3>2. CS!Promise(call, [ok |-> TRUE, val |-> Answer.val, list |-> <<>>])
      BY <2>2, <2>3 DEF CS!Promise, CS!Values, CrcOf
    <3> QED
      BY <1>1, <1>4, <2>1, <3>1, <3>2
  <2>4. CASE call.op = "ReadAll"
    <3> DEFINE ok == Answer.val = CrcOf(out)
    <3>1. Return(ok, <<>>, out) /\ ok \in BOOLEAN
      BY <2>1, <2>4
    <3>2. ok => out = order
      BY <1>2, <1>3, <2>2, <2>4, CrcWhole
    <3> HIDE DEF ok
    <3>3. ok => CS!Promise(call, [ok |-> ok, val |-> <<>>, list |-> out])
      BY <2>4, <3>2 DEF CS!Promise
    <3> QED
      BY <1>1, <1>4, <2>1, <3>1, <3>3
  <2> QED
    BY <2>2, <2>3, <2>4
<1> QED
  BY <1>5, <1>6, <1>7, <1>8, <1>9

(* A request is sent, sent again, answered or given up.                    *)
LEMMA AskingByClient ==
    ASSUME TypeInv, Asking, ClientStep, attached, Prompt
    PROVE  Phase'
<1>1. pc \in {"send", "wait"} /\ Fits /\ (call.op = "ReadAll" => StagedOf(out, order, Len(order)))
  BY DEF Asking
<1>2. CASE Timeout
  <2>1. /\ toDev = <<>> /\ fromDev = <<>>
        /\ UNCHANGED <<call, store, order, flash, toDev, fromDev>>
        /\ \/ pc' = "send" /\ UNCHANGED <<req, out>>
           \/ Fail
    BY <1>2 DEF Timeout, Silent, callVars, readVars, deviceVars, linkVars, liveVars, flashVars
  <2>2. CASE Fail
    BY <2>1, <2>2, Fails DEF Phase
  <2>3. CASE pc' = "send" /\ UNCHANGED <<req, out>>
    <3>1. Fits'
      BY <1>1, <2>1, <2>3 DEF Fits
    <3>2. AllBut(<<>>, Boot, {})
      BY EmptyIsSeq, AllButPlain
    <3> DEFINE J == Junk'
    <3>3. <<>> \in Seq(J)
      BY EmptyIsSeq
    <3>4. fromDev' \in Seq(Junk')
      BY <2>1, <3>3
    <3>5. Asking'
      BY <1>1, <2>1, <2>3, <3>1, <3>2, <3>4 DEF Asking
    <3> QED
      BY <3>5 DEF Phase
  <2> QED
    BY <2>1, <2>2, <2>3
<1>3. CASE \/ SetParamAnswered \/ ReadParamAnswered \/ VersionAnswered
           \/ BurnAnswered \/ CrcAnswered
  BY <1>3, AskingReturns DEF Phase
<1>4. CASE WriteAllAnswered
  BY <1>1, <1>4 DEF WriteAllAnswered, Answered, Fits
<1>5. CASE \/ SendError \/ SendVal \/ ValsSent \/ DumpSend \/ DumpRsp \/ DumpComplete
           \/ DumpSkip \/ DumpQuiet \/ DumpGiveUp
  BY <1>1, <1>5 DEF SendError, SendVal, ValsSent, DumpSend, DumpRsp, DumpComplete,
                    DumpSkip, DumpQuiet, DumpGiveUp, DumpReceive
<1> QED
  BY <1>2, <1>3, <1>4, <1>5, AskingSends, AskingSkips, AskingStarted DEF ClientStep, Phase

(* The next value is sent.                                                 *)
LEMMA SendingValue ==
    ASSUME TypeInv, Sending, SendVal
    PROVE  Sending'
<1> DEFINE list == call.list
           n == Begun
           f == Msg("WriteAllVal", list[next].addr, <<list[next].val>>)
<1>1. /\ pc = "vals" /\ next <= Len(list) /\ toDev' = Append(toDev, f) /\ next' = next + 1
      /\ UNCHANGED <<call, pc, req, fromDev, staged>>
  BY DEF SendVal, Send, callVars, liveVars
<1>2. call.op = "WriteAll" /\ fromDev = <<>> /\ Distinct(staged)
  BY DEF Sending
<1>3. toDev \in Seq(Frame) /\ list \in Seq(Param) /\ next \in 1..(Len(list) + 1) /\ Len(list) \in Nat
  BY StoreFields
<1>4. PICK b \in Nat : /\ OnLink(toDev, list, 0, b, n, TRUE)
                       /\ Len(toDev) <= n - b + 1
                       /\ StagedOf(staged, list, b)
  <2>1. (pc # "wait") = TRUE
    BY <1>1
  <2> QED
    BY <2>1 DEF Sending
<1>5. n = next - 1 /\ n \in Nat /\ n < Len(list) /\ n + 1 = next /\ next \in 1..Len(list)
  BY <1>1, <1>3 DEF Begun
<1>6. list[next] \in Param
  BY <1>3, <1>5, ElementOfSeq
<1>7. list[next].addr \in Addr /\ list[next].val \in Val /\ list[next].addr \in Nat
  BY <1>6, DeviceAssumption DEF Param
<1>8. f \in Frame /\ f.cmd = "WriteAllVal"
  BY <1>7, OneValueFrame DEF Cmds
<1>9. f.arg = list[n + 1].addr
  BY <1>5 DEF Msg
<1>10. Begun' = n + 1 /\ (pc' # "wait") = TRUE
  BY <1>1, <1>5 DEF Begun
<1> HIDE DEF f, n, list
<1>11. OnLink(Append(toDev, f), list, 0, b, n + 1, TRUE)
  BY <1>3, <1>4, <1>5, <1>8, <1>9, OnLinkValue
<1>12. Len(Append(toDev, f)) <= (n + 1) - b + 1
  <2>1. Len(Append(toDev, f)) = Len(toDev) + 1 /\ Len(toDev) \in Nat
    BY <1>3, <1>8, AppendProperties, LenProperties
  <2> QED
    BY <1>4, <1>5, <2>1
<1>13. /\ OnLink(toDev', list, 0, b, Begun', pc' # "wait")
       /\ Len(toDev') <= Begun' - b + 1 /\ StagedOf(staged', list, b)
  BY <1>1, <1>4, <1>10, <1>11, <1>12
<1> QED
  BY <1>1, <1>2, <1>13 DEF Sending, Distinct, list

(* Every value is sent: the completion is next.                            *)
LEMMA SendingSent ==
    ASSUME TypeInv, Sending, ValsSent
    PROVE  Sending'
<1>1. /\ pc = "vals" /\ next > Len(call.list) /\ pc' = "send"
      /\ req'.cmd = Msg("WriteAllComplete", Len(call.list), <<>>)
      /\ UNCHANGED <<call, toDev, fromDev, staged>>
  BY DEF ValsSent, Request, callVars, deviceVars, linkVars, liveVars
<1>2. next \in 1..(Len(call.list) + 1) /\ Len(call.list) \in Nat
  BY StoreFields
<1>3. Begun = Len(call.list)
  BY <1>1, <1>2 DEF Begun
<1>4. Begun' = Begun /\ (pc' # "wait") = (pc # "wait")
  BY <1>1, <1>3 DEF Begun
<1>5. req'.cmd.cmd = "WriteAllComplete"
  BY <1>1 DEF Msg
<1> QED
  BY <1>1, <1>4, <1>5 DEF Sending, Requesting, Distinct

(* The completion is sent when no other is on the link.                    *)
LEMMA SendingCompletes ==
    ASSUME TypeInv, Sending, SendRequest
    PROVE  Sending'
<1> DEFINE list == call.list
           n == Begun
           s == Append(toDev, req.cmd)
<1>1. call.op = "WriteAll" /\ fromDev = <<>> /\ Distinct(staged) /\ pc = "send"
      /\ req.cmd.cmd = "WriteAllComplete"
  BY DEF Sending, Requesting, SendRequest
<1>2. req \in [cmd : Frame, left : 0..Tries] /\ req.cmd \in Frame
  BY DEF TypeInv, TypeOK
<1>3. /\ toDev' = s /\ pc' = "wait" /\ req'.cmd = req.cmd
      /\ UNCHANGED <<call, fromDev, staged>>
  BY <1>1, <1>2 DEF SendRequest, Send, callVars, liveVars
<1>4. toDev \in Seq(Frame) /\ list \in Seq(Param)
  BY StoreFields
<1>5. PICK b \in Nat : /\ OnLink(toDev, list, 0, b, n, TRUE)
                       /\ StagedOf(staged, list, b)
  <2>1. (pc # "wait") = TRUE
    BY <1>1
  <2> QED
    BY <2>1 DEF Sending
<1>6. Begun' = n /\ (pc' # "wait") = FALSE
  BY <1>1, <1>3 DEF Begun
<1> HIDE DEF n, list
<1>7. Len(toDev) <= n - b
  <2>1. /\ n \in Nat /\ Len(toDev) \in Nat
        /\ \A i \in 1..Len(toDev) : ~(0 + n - b < i)
    BY <1>4, <1>5, LenProperties DEF OnLink
  <2>2. Len(toDev) = 0 \/ ~(0 + n - b < Len(toDev))
    BY <2>1
  <2>3. b <= n
    BY <1>5 DEF OnLink
  <2> QED
    BY <2>1, <2>2, <2>3
<1>8. OnLink(s, list, 0, b, n, FALSE)
  BY <1>1, <1>2, <1>4, <1>5, OnLinkClosed
<1>9. Len(s) <= n - b + 1
  <2>1. Len(s) = Len(toDev) + 1 /\ Len(toDev) \in Nat /\ n \in Nat
    BY <1>2, <1>4, <1>5, AppendProperties, LenProperties DEF OnLink
  <2> QED
    BY <1>7, <2>1
<1> HIDE DEF s
<1>10. /\ OnLink(toDev', list, 0, b, Begun', pc' # "wait")
       /\ Len(toDev') <= Begun' - b + 1 /\ StagedOf(staged', list, b)
  BY <1>3, <1>5, <1>6, <1>8, <1>9
<1> QED
  BY <1>1, <1>3, <1>10 DEF Sending, Requesting, Distinct, list

(* The completion is sent again, or given up, when all that was sent is    *)
(* handled or lost.                                                        *)
LEMMA SendingByClient ==
    ASSUME TypeInv, Sending, ClientStep, attached, Prompt
    PROVE  Phase'
<1>1. /\ call.op = "WriteAll" /\ fromDev = <<>> /\ Distinct(staged)
      /\ pc = "vals" \/ Requesting("WriteAllComplete")
  BY DEF Sending
<1>2. CASE pc = "vals"
  BY <1>2, ValsStep, SendingValue, SendingSent DEF Phase
<1>3. CASE Requesting("WriteAllComplete")
  <2>1. CASE SendRequest
    BY <2>1, SendingCompletes DEF Phase
  <2>2. CASE Timeout
    <3>1. /\ toDev = <<>> /\ pc = "wait"
          /\ UNCHANGED <<call, store, order, staged, flash, toDev, fromDev>>
          /\ \/ pc' = "send" /\ UNCHANGED req
             \/ Fail
      BY <2>2 DEF Timeout, Silent, callVars, deviceVars, linkVars, liveVars, flashVars
    <3>2. CASE Fail
      BY <1>1, <3>1, <3>2, Fails DEF Phase
    <3>3. CASE pc' = "send" /\ UNCHANGED req
      <4> DEFINE n == Begun
                 list == call.list
      <4>1. PICK b \in Nat : /\ OnLink(toDev, list, 0, b, n, FALSE)
                             /\ Len(toDev) <= n - b + 1
                             /\ StagedOf(staged, list, b)
        <5>1. (pc # "wait") = FALSE
          BY <3>1
        <5> QED
          BY <5>1 DEF Sending
      <4>2. Begun' = n /\ (pc' # "wait") = TRUE
        BY <3>1, <3>3 DEF Begun
      <4> HIDE DEF n, list
      <4>3. OnLink(toDev', list, 0, b, n, TRUE) /\ Len(toDev') <= n - b + 1
        <5>1. Len(toDev) = 0
          BY <3>1
        <5> QED
          BY <3>1, <4>1, <5>1 DEF OnLink
      <4>4. Sending'
        BY <1>1, <1>3, <3>1, <3>3, <4>1, <4>2, <4>3 DEF Sending, Requesting, Distinct, list
      <4> QED
        BY <4>4 DEF Phase
    <3> QED
      BY <3>1, <3>2, <3>3
  <2>3. SendRequest \/ Timeout
    BY <1>1, <1>3 DEF Requesting, ClientStep, SendError, SkipReply, Receive, WriteAllStarted,
                      SendVal, ValsSent, WriteAllAnswered, SetParamAnswered,
                      ReadParamAnswered, VersionAnswered, BurnAnswered, CrcAnswered, Answered,
                      DumpSend, DumpRsp, DumpComplete, DumpSkip, DumpQuiet, DumpGiveUp,
                      DumpReceive
  <2> QED
    BY <2>1, <2>2, <2>3
<1> QED
  BY <1>1, <1>2, <1>3

(* The count and the CRC of what was committed are the list's: it is the   *)
(* list, and the device holds it.                                          *)
LEMMA StoredByClient ==
    ASSUME TypeInv, Stored, ClientStep, attached, Prompt
    PROVE  Returned'
<1> DEFINE list == call.list
<1>1. /\ call.op = "WriteAll" /\ pc = "wait" /\ req.cmd.cmd = "WriteAllComplete"
      /\ toDev = <<>> /\ fromDev = <<TheReply>>
      /\ order = staged /\ store = Overlay(store, staged)
      /\ StagedOf(staged, list, Len(list))
  BY DEF Stored
<1>2. Head(fromDev) = TheReply /\ Tail(fromDev) = <<>> /\ fromDev # <<>>
  BY <1>1
<1>3. TheReply.cmd = "WriteAllComplete" /\ TheReply.arg = Len(staged)
      /\ TheReply.val = CrcOf(staged)
  BY DEF TheReply, Msg
<1>4. WriteAllAnswered
  BY <1>1, <1>2, <1>3
     DEF ClientStep, SendRequest, SendError, Timeout, Silent, SkipReply, Want, WriteAllStarted,
         SendVal, ValsSent, SetParamAnswered, ReadParamAnswered, VersionAnswered, BurnAnswered,
         CrcAnswered, Answered, DumpSend, DumpRsp, DumpComplete, DumpSkip, DumpQuiet,
         DumpGiveUp, DumpReceive
<1> DEFINE ok == Verified(list, Answer)
<1>5. /\ Return(ok, <<>>, <<>>) /\ fromDev' = <<>> /\ toDev' = <<>>
      /\ UNCHANGED <<call, store, order, flash>>
  BY <1>1, <1>2, <1>4
     DEF WriteAllAnswered, Answered, Receive, callVars, liveVars, flashVars
<1>6. /\ staged \in Seq(Param) /\ list \in Configs /\ list \in Seq(Param)
      /\ store \in [Addr -> Val] /\ Len(list) \in Nat
  BY <1>1, StoreFields
<1>7. ok \in BOOLEAN
  BY DEF Verified
<1>8. ok => CrcOf(staged) = CrcOf(list)
  BY <1>2, <1>3 DEF Verified, Answer
<1> HIDE DEF ok, list
<1>9. ok => staged = list
  BY <1>1, <1>6, <1>8, CrcWhole
<1>10. ok => CS!Holds(list)
  <2> SUFFICES ASSUME ok, NEW i \in DOMAIN list PROVE store[list[i].addr] = list[i].val
    BY <1>1, <1>9 DEF CS!Holds
  <2> QED
    BY <1>1, <1>6, <1>9, OverlayHolds
<1>11. ok => CS!Promise(call, [ok |-> ok, val |-> <<>>, list |-> <<>>])
  BY <1>1, <1>10 DEF CS!Promise, list
<1>12. toDev' \in Seq(Boot)
  BY <1>5, EmptyIsSeq
<1> QED
  BY <1>5, <1>7, <1>11, <1>12, Returns

(* ReadAll is sent, for the first time or when nothing came of it.         *)
LEMMA DumpingSends ==
    ASSUME TypeInv, Dumping, DumpSend, Prompt
    PROVE  Dumping'
<1> DEFINE f == Msg("ReadAll", 0, <<>>)
<1>1. /\ ~primed /\ toDev' = Append(toDev, f) /\ sends' = sends + 1
      /\ sends = 0 \/ (toDev = <<>> /\ fromDev = <<>>)
      /\ UNCHANGED <<call, pc, out, primed, fromDev>>
  BY DEF DumpSend, Send, Silent, callVars
<1>2. call.op = "ReadAll" /\ pc = "dump" /\ out = <<>>
  BY <1>1 DEF Dumping
<1>3. toDev \in Seq(Frame) /\ fromDev \in Seq(Frame) /\ order \in Seq(Param) /\ sends \in Nat
  BY StoreFields DEF TypeInv, TypeOK
<1>4. fromDev = <<>> /\ toDev \in Seq(Boot)
  <2>1. CASE sends = 0
    <3>1. fromDev = <<>> /\ AllBut(toDev, Boot, {})
      BY <2>1 DEF Dumping
    <3> QED
      BY <1>3, <3>1, AllButNothing
  <2>2. CASE toDev = <<>> /\ fromDev = <<>>
    BY <2>2, EmptyIsSeq
  <2> QED
    BY <1>1, <2>1, <2>2
<1>5. f \in Frame /\ f.cmd = "ReadAll"
  BY PlainFrame DEF Cmds, Valued, Msg
<1>6. f \in Of({"ReadAll"})
  BY <1>5 DEF Of
<1> HIDE DEF f
<1>7. AllBut(Append(toDev, f), Boot, Of({"ReadAll"}))
  BY <1>3, <1>4, <1>5, <1>6, AllButAppend
<1>8. sends' > 0
  BY <1>1, <1>3
<1> QED
  BY <1>1, <1>2, <1>4, <1>7, <1>8 DEF Dumping

(* What a receiver of the dump finds on the link.                          *)
LEMMA DumpReceived ==
    ASSUME TypeInv, Dumping, DumpReceive
    PROVE  /\ sends > 0 /\ toDev = <<>> /\ call.op = "ReadAll" /\ pc = "dump"
           /\ fromDev' = Tail(fromDev) /\ Answer \in Frame
           /\ UNCHANGED <<call, toDev, store, order, flash>>
           /\ \E b \in Nat :
                 /\ StagedOf(out, order, b)
                 /\ \/ Answer.cmd = "ReadAll" /\ DumpOnLink(fromDev', order, 0, b)
                    \/ /\ Answer.cmd = "ReadAllRsp" /\ Answer.arg = order[b + 1].addr
                       /\ DumpOnLink(fromDev', order, 0, b + 1)
                    \/ /\ Answer.cmd = "ReadAllComplete" /\ b = Len(order)
                       /\ Answer.arg = Len(order) /\ Answer.val = CrcOf(order)
                       /\ fromDev' = <<>>
<1>1. /\ sends > 0 /\ fromDev # <<>> /\ fromDev' = Tail(fromDev)
      /\ UNCHANGED <<call, toDev, store, order, flash>>
  BY DEF DumpReceive, Receive, callVars, liveVars, flashVars
<1>2. fromDev \in Seq(Frame) /\ order \in Seq(Param)
  BY StoreFields
<1>3. Head(fromDev) \in Frame
  BY <1>1, <1>2, HeadIn
<1>4. /\ call.op = "ReadAll" /\ pc = "dump" /\ toDev = <<>>
      /\ \E w, b \in Nat : DumpOnLink(fromDev, order, w, b) /\ StagedOf(out, order, b)
  BY <1>1 DEF Dumping
<1>5. PICK w \in Nat, b \in Nat : DumpOnLink(fromDev, order, w, b) /\ StagedOf(out, order, b)
  BY <1>4
<1>6. \/ Head(fromDev).cmd = "ReadAll" /\ b = 0 /\ DumpOnLink(Tail(fromDev), order, 0, 0)
      \/ /\ Head(fromDev).cmd = "ReadAllRsp"
         /\ Head(fromDev).arg = order[b + 1].addr
         /\ DumpOnLink(Tail(fromDev), order, 0, b + 1)
      \/ /\ Head(fromDev).cmd = "ReadAllComplete" /\ b = Len(order)
         /\ Head(fromDev).arg = Len(order) /\ Head(fromDev).val = CrcOf(order)
         /\ Tail(fromDev) = <<>>
  BY <1>2, <1>5, DumpHead
<1> QED
  BY <1>1, <1>3, <1>4, <1>5, <1>6 DEF Answer

(* A parameter of the dump is collected; the marker ends it, and with the  *)
(* device's count and CRC what was collected is the device's list.         *)
LEMMA DumpingReceives ==
    ASSUME TypeInv, Dumping, DumpRsp \/ DumpComplete \/ DumpSkip
    PROVE  Phase'
<1>1. DumpReceive
  BY DEF DumpRsp, DumpComplete, DumpSkip
<1>2. /\ sends > 0 /\ toDev = <<>> /\ call.op = "ReadAll" /\ pc = "dump" /\ Answer \in Frame
      /\ UNCHANGED <<call, toDev, store, order, flash>>
  BY <1>1, DumpReceived
<1>3. PICK b \in Nat :
          /\ StagedOf(out, order, b)
          /\ \/ Answer.cmd = "ReadAll" /\ DumpOnLink(fromDev', order, 0, b)
             \/ /\ Answer.cmd = "ReadAllRsp" /\ Answer.arg = order[b + 1].addr
                /\ DumpOnLink(fromDev', order, 0, b + 1)
             \/ /\ Answer.cmd = "ReadAllComplete" /\ b = Len(order)
                /\ Answer.arg = Len(order) /\ Answer.val = CrcOf(order)
                /\ fromDev' = <<>>
  BY <1>1, DumpReceived
<1>4. out \in Seq(Param) /\ order \in Seq(Param)
  BY StoreFields
<1>5. CASE DumpRsp
  <2> DEFINE x == [addr |-> Answer.arg, val |-> Answer.val[1]]
  <2>1. /\ primed' = TRUE /\ UNCHANGED <<pc, sends>>
        /\ Answer.cmd \in {"ReadAll", "ReadAllRsp"}
        /\ Answer.cmd = "ReadAllRsp" => out' = Append(out, x)
        /\ Answer.cmd = "ReadAll" => out' = out
    BY <1>5 DEF DumpRsp
  <2>2. \E c \in Nat : DumpOnLink(fromDev', order, 0, c) /\ StagedOf(out', order, c)
    <3>1. CASE Answer.cmd = "ReadAll"
      BY <1>3, <2>1, <3>1
    <3>2. CASE Answer.cmd = "ReadAllRsp"
      <4>1. x \in Param /\ x.addr = order[b + 1].addr
        BY <1>2, <1>3, <3>2, FrameFields DEF Valued, Param
      <4> HIDE DEF x
      <4>2. StagedOf(Append(out, x), order, b + 1) /\ b + 1 \in Nat
        BY <1>3, <1>4, <4>1, StagedNext
      <4> QED
        BY <1>3, <2>1, <3>2, <4>2
    <3> QED
      BY <2>1, <3>1, <3>2
  <2>3. Dumping'
    BY <1>2, <2>1, <2>2 DEF Dumping
  <2> QED
    BY <2>3 DEF Phase
<1>6. CASE DumpComplete
  <2> DEFINE ok == Verified(out, Answer)
  <2>1. Return(ok, <<>>, out) /\ Answer.cmd = "ReadAllComplete"
    BY <1>6 DEF DumpComplete
  <2>2. /\ StagedOf(out, order, Len(order)) /\ Answer.val = CrcOf(order) /\ fromDev' = <<>>
    BY <1>3, <2>1
  <2>3. ok \in BOOLEAN /\ (ok => CrcOf(out) = CrcOf(order))
    BY <2>2 DEF Verified
  <2> HIDE DEF ok
  <2>4. ok => out = order
    BY <1>4, <2>2, <2>3, CrcWhole
  <2>5. ok => CS!Promise(call, [ok |-> ok, val |-> <<>>, list |-> out])
    BY <1>2, <2>4 DEF CS!Promise
  <2>6. toDev' \in Seq(Boot)
    BY <1>2, EmptyIsSeq
  <2> QED
    BY <1>2, <2>1, <2>2, <2>3, <2>5, <2>6, Returns DEF Phase
<1>7. CASE DumpSkip
  BY <1>3, <1>7 DEF DumpSkip
<1> QED
  BY <1>5, <1>6, <1>7

(* After a silence the device's CRC is asked for; what is left of the dump *)
(* may still come.                                                         *)
LEMMA DumpingChecks ==
    ASSUME TypeInv, Dumping, DumpQuiet
    PROVE  Asking'
<1>1. /\ primed /\ pc' = "send" /\ req'.cmd = Msg("CheckCrc", 0, <<>>)
      /\ UNCHANGED <<call, toDev, fromDev, order, out>>
  BY DEF DumpQuiet, Request, callVars, readVars, deviceVars, linkVars, liveVars
<1>2. /\ call.op = "ReadAll" /\ toDev = <<>>
      /\ \/ \E w, b \in Nat : DumpOnLink(fromDev, order, w, b) /\ StagedOf(out, order, b)
         \/ fromDev = <<>> /\ StagedOf(out, order, Len(order))
  BY <1>1 DEF Dumping
<1>3. fromDev \in Seq(Frame) /\ order \in Seq(Param) /\ out \in Seq(Param) /\ Len(order) \in Nat
  BY StoreFields, LenProperties
<1>4. fromDev \in Seq(Dump) /\ StagedOf(out, order, Len(order))
  <2>1. CASE fromDev = <<>> /\ StagedOf(out, order, Len(order))
    BY <2>1, EmptyIsSeq
  <2>2. CASE \E w, b \in Nat : DumpOnLink(fromDev, order, w, b) /\ StagedOf(out, order, b)
    <3>1. PICK w \in Nat, b \in Nat :
              DumpOnLink(fromDev, order, w, b) /\ StagedOf(out, order, b)
      BY <2>2
    <3>2. fromDev \in Seq(Dump)
      BY <1>3, <3>1, DumpFrames
    <3>3. b <= Len(order)
      BY <3>1 DEF DumpOnLink
    <3> QED
      BY <1>3, <3>1, <3>2, <3>3, StagedLater
  <2> QED
    BY <1>2, <2>1, <2>2
<1>5. Junk' = Dump /\ Fits'
  BY <1>1, <1>2 DEF Junk, Fits, Msg
<1>6. AllBut(<<>>, Boot, {})
  BY EmptyIsSeq, AllButPlain
<1> QED
  BY <1>1, <1>2, <1>4, <1>5, <1>6 DEF Asking

(* A dump is asked for, collected, checked or given up.                    *)
LEMMA DumpingByClient ==
    ASSUME TypeInv, Dumping, ClientStep, attached, Prompt
    PROVE  Phase'
<1>1. pc = "dump"
  BY DEF Dumping
<1>2. CASE DumpGiveUp
  <2>1. /\ toDev = <<>> /\ fromDev = <<>> /\ Fail
        /\ UNCHANGED <<call, store, order, flash, toDev, fromDev>>
    BY <1>2 DEF DumpGiveUp, Silent, callVars, deviceVars, linkVars, liveVars, flashVars
  <2> QED
    BY <2>1, Fails DEF Phase
<1>3. DumpSend \/ DumpRsp \/ DumpComplete \/ DumpSkip \/ DumpQuiet \/ DumpGiveUp
  BY <1>1 DEF ClientStep, SendRequest, SendError, Timeout, SkipReply, WriteAllStarted, SendVal,
              ValsSent, WriteAllAnswered, SetParamAnswered, ReadParamAnswered,
              VersionAnswered, BurnAnswered, CrcAnswered, Answered
<1> QED
  BY <1>2, <1>3, DumpingSends, DumpingReceives, DumpingChecks DEF Phase

-----------------------------------------------------------------------------
(* The invariant.                                                          *)

(* A call begins with only resets on the link.                             *)
LEMMA BeginPhase ==
    ASSUME Returned, NEW c \in Calls, Begin(c), UNCHANGED deviceVars
    PROVE  Phase'
<1>1. toDev \in Seq(Boot) /\ fromDev = <<>> /\ ~primed /\ out = <<>>
  BY DEF Returned
<1>2. call' = c /\ UNCHANGED <<toDev, fromDev, primed, out>>
  BY DEF Begin, deviceVars, linkVars, readVars
<1>3. CASE c.op = "ReadAll"
  <2>1. pc' = "dump"
    BY <1>3 DEF Begin
  <2> DEFINE F == IF sends' > 0 THEN Of({"ReadAll"}) ELSE {}
  <2>2. AllBut(toDev, Boot, F)
    BY <1>1, AllButPlain
  <2>3. Dumping'
    BY <1>1, <1>2, <1>3, <2>1, <2>2 DEF Dumping
  <2> QED
    BY <2>3 DEF Phase
<1>4. CASE c.op # "ReadAll"
  <2>1. pc' = "send" /\ Fits'
    BY <1>2, <1>4 DEF Begin, Request, Fits, Msg
  <2>2. AllBut(toDev, Boot, {})
    BY <1>1, AllButPlain
  <2>3. <<>> \in Seq({}) /\ Junk' = {}
    BY <1>2, <1>4, EmptyIsSeq DEF Junk
  <2>4. Asking'
    BY <1>1, <1>2, <1>4, <2>1, <2>2, <2>3 DEF Asking
  <2> QED
    BY <2>4 DEF Phase
<1> QED
  BY <1>3, <1>4

(* Nothing is under way while no call is.                                  *)
LEMMA IdlePhase ==
    ASSUME Phase, Idle
    PROVE  Returned
BY DEF Phase, Idle, Asking, Sending, Requesting, Stored, Dumping

(* The client's steps keep the invariant's phases.                         *)
LEMMA PhaseByClient ==
    ASSUME TypeInv, Phase, ClientStep, attached, Prompt
    PROVE  Phase'
<1>1. ~Returned
  BY ClientFacts DEF Returned
<1> QED
  BY <1>1, AskingByClient, SendingByClient, StoredByClient, DumpingByClient DEF Phase

(* A step that changes nothing.                                            *)
LEMMA PhaseKept ==
    ASSUME Phase, UNCHANGED vars
    PROVE  Phase'
<1>1. UNCHANGED <<call, pc, req, next, out, primed, sends, ret,
                  toDev, fromDev, store, order, staged, flash>>
  BY DEF vars, clientVars, callVars, readVars, deviceVars, linkVars, liveVars, flashVars
<1>2. Returned => Returned'
  BY <1>1 DEF Returned, Idle, CS!Promise, CS!Holds, CS!Values, CS!Live
<1>3. Asking => Asking'
  <2>1. Fits' = Fits /\ Asked' = Asked /\ Junk' = Junk /\ Answers' = Answers
    BY <1>1 DEF Fits, Asked, Junk, Answers, Live
  <2> QED
    BY <1>1, <2>1 DEF Asking
<1>4. Sending => Sending'
  BY <1>1 DEF Sending, Requesting, Begun, Distinct
<1>5. Stored => Stored'
  BY <1>1 DEF Stored, TheReply, Distinct
<1>6. Dumping => Dumping'
  BY <1>1 DEF Dumping
<1> QED
  BY <1>2, <1>3, <1>4, <1>5, <1>6 DEF Phase

(* It holds at the start.                                                  *)
LEMMA InitStore == Init => StoreInv
<1> SUFFICES ASSUME Init PROVE StoreInv
  OBVIOUS
<1>1. TypeInv /\ BurnInv
  BY InitType, InitBurn
<1>2. /\ toDev = <<>> /\ fromDev = <<>> /\ attached
      /\ pc = "idle" /\ ~primed /\ out = <<>> /\ ret.ok = FALSE
  BY DEF Init, DeviceInit, ClientInit, NoRet
<1>3. toDev \in Seq(Boot)
  BY <1>2, EmptyIsSeq
<1> QED
  BY <1>1, <1>2, <1>3 DEF StoreInv, Phase, Returned, Idle

(* Every step keeps it, when replies are prompt.                           *)
LEMMA StepStore ==
    ASSUME Prompt, StoreInv, [Next]_vars
    PROVE  StoreInv'
<1>1. TypeInv /\ BurnInv /\ (toDev # <<>> => attached) /\ (attached => Phase)
  BY DEF StoreInv
<1>2. TypeInv'
  BY <1>1, StepType
<1>3. BurnInv'
  BY <1>1, <1>2, StepBurn
<1>4. CASE Begins
  <2>1. PICK c \in Calls : Begin(c) /\ UNCHANGED deviceVars
    BY <1>4 DEF Begins
  <2>2. Idle /\ UNCHANGED <<toDev, attached>>
    BY <2>1 DEF Begin, deviceVars, linkVars, envVars
  <2>3. attached' => Phase'
    BY <1>1, <2>1, <2>2, IdlePhase, BeginPhase
  <2> QED
    BY <1>1, <1>2, <1>3, <2>2, <2>3 DEF StoreInv
<1>5. CASE ClientStep
  <2>1. UNCHANGED attached /\ (UNCHANGED toDev \/ attached)
    BY <1>5, ClientFacts
  <2>2. attached' => Phase'
    BY <1>1, <1>5, <2>1, PhaseByClient
  <2> QED
    BY <1>1, <1>2, <1>3, <2>1, <2>2 DEF StoreInv
<1>6. CASE EnvStep
  <2>1. (DeviceStep \/ LinkStep) /\ UNCHANGED clientVars
    BY <1>6 DEF EnvStep
  <2>2. \/ ~attached' /\ toDev' = <<>>
        \/ UNCHANGED attached /\ (toDev' # <<>> => toDev # <<>>)
    BY <2>1, EnvFacts
  <2>3. attached' => Phase'
    BY <1>1, <2>1, <2>2, PhaseByEnv
  <2> QED
    BY <1>1, <1>2, <1>3, <2>2, <2>3 DEF StoreInv
<1>7. CASE UNCHANGED vars
  <2>1. UNCHANGED <<toDev, attached>>
    BY <1>7 DEF vars, deviceVars, linkVars, envVars
  <2>2. Phase => Phase'
    BY <1>7, PhaseKept
  <2> QED
    BY <1>1, <1>2, <1>3, <2>1, <2>2 DEF StoreInv
<1> QED
  BY <1>4, <1>5, <1>6, <1>7 DEF Next

(* DumpIsWhole: a dump that ReadAll returns is one the device gave, whole  *)
(* and with no value changed on the way, whatever is lost, damaged or sent *)
(* again, as long as replies come before they are given up.                *)
THEOREM DumpsWhole ==
    ASSUME Prompt
    PROVE  Spec => []DumpIsWhole
<1>1. Init => StoreInv
  BY InitStore
<1>2. StoreInv /\ [Next]_vars => StoreInv'
  BY StepStore
<1>3. StoreInv => DumpIsWhole
  BY IdlePhase DEF StoreInv, DumpIsWhole, Returned, CS!Promise
<1> QED
  BY <1>1, <1>2, <1>3, PTL DEF Spec

-----------------------------------------------------------------------------
(* Every step is one of the store's, or none.                              *)

(* What the device finds at the head of the link, by what is under way.    *)
LEMMA CommandOfCall ==
    ASSUME TypeInv, Phase, toDev # <<>>
    PROVE  /\ Head(toDev).cmd = "WriteAllComplete" => Sending
           /\ Head(toDev).cmd \in {"Write", "BurnSettings"} => Asking /\ Head(toDev) \in Asked
<1> DEFINE h == Head(toDev)
<1>1. toDev \in Seq(Frame)
  BY StoreFields
<1>2. \A F : AllBut(toDev, Boot, F) => h \in Boot \/ h \in F
  BY <1>1, AllButHead
<1>3. Returned => h.cmd = "Bootloader"
  <2>1. toDev \in Seq(Boot) => h \in Boot
    BY HeadIn
  <2> QED
    BY <2>1, BootHead DEF Returned
<1>4. Dumping => h.cmd \in {"Bootloader", "ReadAll"}
  <2> SUFFICES ASSUME Dumping PROVE h.cmd \in {"Bootloader", "ReadAll"}
    OBVIOUS
  <2>1. AllBut(toDev, Boot, IF sends > 0 THEN Of({"ReadAll"}) ELSE {})
    BY DEF Dumping
  <2>2. h \in Boot \/ h \in (IF sends > 0 THEN Of({"ReadAll"}) ELSE {})
    BY <1>2, <2>1
  <2>3. h \in Boot \/ h \in Of({"ReadAll"})
    BY <2>2
  <2> QED
    BY <2>3, BootHead DEF Of
<1>5. Asking => h.cmd = "Bootloader" \/ h \in Asked
  <2> SUFFICES ASSUME Asking PROVE h.cmd = "Bootloader" \/ h \in Asked
    OBVIOUS
  <2>1. AllBut(toDev, Boot, IF pc = "wait" THEN Asked ELSE {})
    BY DEF Asking
  <2>2. h \in Boot \/ h \in (IF pc = "wait" THEN Asked ELSE {})
    BY <1>2, <2>1
  <2> QED
    BY <2>2, BootHead
<1>6. Asking /\ h \in Asked => h.cmd # "WriteAllComplete"
  BY DEF Asking, Asked, Fits
<1>7. Sending => h.cmd \in {"WriteAll", "WriteAllVal", "WriteAllComplete"}
  <2> SUFFICES ASSUME Sending PROVE h.cmd \in {"WriteAll", "WriteAllVal", "WriteAllComplete"}
    OBVIOUS
  <2> DEFINE n == Begun
             list == call.list
             open == pc # "wait"
  <2>1. PICK b \in Nat : OnLink(toDev, list, 0, b, n, open)
    BY DEF Sending
  <2>2. list \in Seq(Param)
    BY StoreFields
  <2> HIDE DEF n, list, open
  <2> QED
    BY <1>1, <2>1, <2>2, OnLinkHead
<1>8. ~Stored
  BY DEF Stored
<1> QED
  BY <1>3, <1>4, <1>5, <1>6, <1>7, <1>8 DEF Phase

(* A client's step changes none of the store; it returns, or it does not.  *)
LEMMA ClientEnds ==
    ASSUME ClientStep
    PROVE  /\ UNCHANGED <<call, store, order, flash, attached, flashes, burns>>
           /\ ~Idle
           /\ Idle' \/ UNCHANGED ret
<1>1. UNCHANGED <<call, store, order, flash, attached>> /\ ~Idle
  BY ClientFacts
<1> USE DEF callVars, deviceVars, flashVars, readVars, clientVars
<1>2. CASE SendRequest \/ SendError \/ Timeout \/ SkipReply
  BY <1>1, <1>2 DEF SendRequest, SendError, Timeout, SkipReply, Fail, Return, Idle
<1>3. CASE WriteAllStarted \/ SendVal \/ ValsSent \/ WriteAllAnswered
  BY <1>1, <1>3 DEF WriteAllStarted, SendVal, ValsSent, WriteAllAnswered, Answered, Return, Idle
<1>4. CASE \/ SetParamAnswered \/ ReadParamAnswered \/ VersionAnswered
           \/ BurnAnswered \/ CrcAnswered
  BY <1>1, <1>4 DEF SetParamAnswered, ReadParamAnswered, VersionAnswered,
                    BurnAnswered, CrcAnswered, Answered, Return, Idle
<1>5. CASE DumpSend \/ DumpRsp \/ DumpComplete \/ DumpSkip \/ DumpQuiet \/ DumpGiveUp
  BY <1>1, <1>5 DEF DumpSend, DumpRsp, DumpComplete, DumpSkip, DumpQuiet, DumpGiveUp,
                    DumpReceive, Fail, Return, Idle
<1> QED
  BY <1>2, <1>3, <1>4, <1>5 DEF ClientStep

(* The client begins a call, ends one, or does nothing the store sees.     *)
LEMMA ClientRefines ==
    ASSUME StoreInv, StoreInv', Begins \/ ClientStep
    PROVE  [CS!Next]_CS!vars
<1>1. CASE Begins
  <2>1. PICK c \in Calls : Begin(c) /\ UNCHANGED deviceVars
    BY <1>1 DEF Begins
  <2>2. Idle /\ ~Idle' /\ call' = c
    BY <2>1, BeginFacts DEF Begin
  <2>3. /\ burns' = IF call'.op = "Burn" THEN burns + 1 ELSE burns
        /\ ~ret'.ok
    BY <2>1, <2>2 DEF Begin, NoRet
  <2>4. UNCHANGED <<store, order, flash, flashes, attached>>
    BY <2>1 DEF deviceVars, liveVars, flashVars, envVars
  <2>5. CS!Begin
    BY <2>2, <2>3, <2>4 DEF CS!Begin
  <2> QED
    BY <2>5 DEF CS!Next
<1>2. CASE ClientStep
  <2>1. /\ UNCHANGED <<call, store, order, flash, attached, flashes, burns>>
        /\ ~Idle /\ (Idle' \/ UNCHANGED ret)
    BY <1>2, ClientEnds
  <2>2. CASE Idle'
    <3>1. attached => Returned'
      BY <2>1, <2>2
         DEF StoreInv, Phase, Idle, Asking, Sending, Requesting, Stored, Dumping
    <3>2. ret'.ok /\ attached => CS!Promise(call, ret')
      BY <2>1, <3>1 DEF Returned, CS!Promise, CS!Holds, CS!Values, CS!Live
    <3>3. CS!End
      BY <2>1, <2>2, <3>2 DEF CS!End
    <3> QED
      BY <3>3 DEF CS!Next
  <2>3. CASE ~Idle' /\ UNCHANGED ret
    <3>1. Idle' = Idle
      BY <2>1, <2>3 DEF Idle
    <3> QED
      BY <2>1, <2>3, <3>1 DEF CS!vars
  <2> QED
    BY <2>1, <2>2, <2>3
<1> QED
  BY <1>1, <1>2

(* The device commits, sets or flashes for the call that asked, restarts,  *)
(* or does nothing the store sees.                                         *)
LEMMA EnvRefines ==
    ASSUME StoreInv, DeviceStep \/ LinkStep, UNCHANGED clientVars
    PROVE  [CS!Next]_CS!vars
<1>1. UNCHANGED <<call, pc, ret, burns>> /\ Idle' = Idle
  BY DEF clientVars, callVars, Idle
<1>2. TypeInv /\ BurnInv /\ (toDev # <<>> => attached /\ Phase)
  BY DEF StoreInv
<1>3. /\ toDev \in Seq(Frame) /\ store \in [Addr -> Val] /\ staged \in Seq(Param)
      /\ flashes \in Nat /\ burns \in Nat
  BY <1>2, StoreFields DEF TypeInv, TypeOK, DeviceTypeOK
<1> USE DEF liveVars, flashVars, envVars
<1>4. CASE DevBootloader \/ Reset
  <2>1. CS!Restart
    BY <1>1, <1>4 DEF DevBootloader, Reset, Detach, CS!Restart
  <2> QED
    BY <2>1 DEF CS!Next
<1>5. CASE DevWriteAllComplete
  <2>1. /\ toDev # <<>> /\ Head(toDev).cmd = "WriteAllComplete"
        /\ order' = staged /\ store' = Overlay(store, staged)
        /\ UNCHANGED <<flash, flashes, attached>>
    BY <1>5 DEF DevWriteAllComplete, Take
  <2>2. Sending
    BY <1>2, <2>1, CommandOfCall
  <2>3. call.op = "WriteAll" /\ ~Idle /\ Distinct(staged)
    BY <2>2 DEF Sending, Requesting, Idle
  <2>4. \A a \in Addr :
           IF \E i \in DOMAIN order' : order'[i].addr = a
           THEN \E i \in DOMAIN order' : order'[i] = [addr |-> a, val |-> store'[a]]
           ELSE store'[a] = store[a]
    BY <1>3, <2>1, <2>3, OverlayCommits
  <2>5. order' \in Seq(CS!Param)
    BY <1>3, <2>1 DEF CS!Param, Param
  <2>6. CS!Commit
    BY <1>1, <2>1, <2>3, <2>4, <2>5 DEF CS!Commit, CS!Working
  <2> QED
    BY <2>6 DEF CS!Next
<1>6. CASE DevWrite
  <2>1. /\ toDev # <<>> /\ Head(toDev).cmd = "Write"
        /\ UNCHANGED <<order, flash, flashes, attached>>
        /\ \/ UNCHANGED store
           \/ store' = [store EXCEPT ![Head(toDev).arg] = Head(toDev).val[1]]
    BY <1>6 DEF DevWrite, Take
  <2>2. Asking /\ Head(toDev) \in Asked
    BY <1>2, <2>1, CommandOfCall
  <2>3. call.op = "SetParam" /\ ~Idle /\ Head(toDev).arg = call.arg
    BY <2>1, <2>2 DEF Asking, Asked, Fits, Idle
  <2>4. CASE UNCHANGED store
    BY <1>1, <2>1, <2>4 DEF CS!vars
  <2>5. CASE store' = [store EXCEPT ![Head(toDev).arg] = Head(toDev).val[1]]
    <3>1. Head(toDev) \in Frame
      BY <1>3, <2>1, HeadIn
    <3>2. Head(toDev).val[1] \in Val
      BY <2>1, <3>1, FrameFields DEF Valued
    <3>3. \E v \in Val : store' = [store EXCEPT ![call.arg] = v]
      BY <2>3, <2>5, <3>2
    <3>4. CS!Set
      BY <1>1, <2>1, <2>3, <3>3 DEF CS!Set, CS!Working
    <3> QED
      BY <3>4 DEF CS!Next
  <2> QED
    BY <2>1, <2>4, <2>5
<1>7. CASE DevBurn
  <2>1. /\ toDev # <<>> /\ Head(toDev).cmd = "BurnSettings"
        /\ UNCHANGED <<store, order, attached>> /\ flashes' = flashes + 1
        /\ flash' \in {flash, CS!Live}
    BY <1>7 DEF DevBurn, Take, Live, CS!Live
  <2>2. Asking /\ Head(toDev) \in Asked
    BY <1>2, <2>1, CommandOfCall
  <2>3. call.op = "Burn" /\ ~Idle
    BY <2>1, <2>2 DEF Asking, Asked, Fits, Idle
  <2>4. flashes < burns
    <3>1. BurnCount(toDev) = BurnCount(Tail(toDev)) + One(IsBurn(Head(toDev)))
      BY <1>3, <2>1, BurnCountTail
    <3>2. One(IsBurn(Head(toDev))) = 1
      BY <2>1 DEF One, IsBurn
    <3>3. BurnCount(toDev) \in Nat /\ BurnCount(Tail(toDev)) \in Nat
      BY <1>3, <2>1, HeadIn, BurnCountType
    <3> DEFINE rest == One(pc = "send" /\ IsBurn(req.cmd))
    <3>4. rest \in Nat
      BY DEF One
    <3>5. flashes + BurnCount(toDev) + rest <= burns
      BY <1>2 DEF BurnInv, Committed
    <3> HIDE DEF rest
    <3> QED
      BY <1>3, <3>1, <3>2, <3>3, <3>4, <3>5
  <2>5. CS!Flash
    BY <1>1, <2>1, <2>3, <2>4 DEF CS!Flash, CS!Working
  <2> QED
    BY <2>5 DEF CS!Next
<1>8. CASE \/ DevWriteAll \/ DevWriteAllVal \/ DevRead \/ DevReadAll \/ DevCheckCrc \/ DevVersion
           \/ DropCommand \/ LoseReply \/ DamageCommand \/ DamageReply
  <2>1. UNCHANGED <<store, order, flash, flashes, attached>>
    BY <1>8 DEF DevWriteAll, DevWriteAllVal, DevRead, DevReadAll, DevCheckCrc, DevVersion,
                DropCommand, LoseReply, DamageCommand, DamageReply
  <2> QED
    BY <1>1, <2>1 DEF CS!vars
<1> QED
  BY <1>4, <1>5, <1>6, <1>7, <1>8 DEF DeviceStep, LinkStep

(* RefinesConfigStore: success of a call means that its effect is on the   *)
(* device, its effects end with the call, and reads are current, whatever  *)
(* is dropped, lost, damaged, sent again or reset, as long as replies come *)
(* before they are given up.                                               *)
THEOREM ClientIsStore ==
    ASSUME Prompt
    PROVE  Spec => RefinesConfigStore
<1>1. Init => StoreInv
  BY InitStore
<1>2. StoreInv /\ [Next]_vars => StoreInv'
  BY StepStore
<1>3. Init => CS!Init
  BY DEF Init, DeviceInit, ClientInit, NoCall, NoRet, Call, Idle, Live, CS!Init, CS!Live
<1>4. StoreInv /\ StoreInv' /\ [Next]_vars => [CS!Next]_CS!vars
  <2> SUFFICES ASSUME StoreInv, StoreInv', [Next]_vars PROVE [CS!Next]_CS!vars
    OBVIOUS
  <2>1. CASE Begins \/ ClientStep
    BY <2>1, ClientRefines
  <2>2. CASE EnvStep
    <3>1. (DeviceStep \/ LinkStep) /\ UNCHANGED clientVars
      BY <2>2 DEF EnvStep
    <3> QED
      BY <3>1, EnvRefines
  <2>3. CASE UNCHANGED vars
    BY <2>3 DEF vars, clientVars, callVars, deviceVars, liveVars, flashVars, envVars,
                Idle, CS!vars
  <2> QED
    BY <2>1, <2>2, <2>3 DEF Next
<1> QED
  BY <1>1, <1>2, <1>3, <1>4, PTL DEF Spec, RefinesConfigStore, CS!Spec
=============================================================================
