---------------------------- MODULE DingoCliProofs ----------------------------
(***************************************************************************)
(* Theorems about DingoCli, for every value of its constants: however many *)
(* commands, parameters, tries, faults and power losses, with replies as   *)
(* late as they like and a process killed at any step.                     *)
(***************************************************************************)
EXTENDS DingoCli, ParamClientProofs

-----------------------------------------------------------------------------
(* The invariant.  Types first, and which call the client is in.           *)

CliTypes ==
    /\ TypeInv
    /\ cli \in [call : Calls \cup {NoCall}, burn : BOOLEAN]
    /\ phase \in {"running", "burning", "exited"}

General ==
    /\ phase = "exited" => Idle
    /\ phase = "running" => call = cli.call
    /\ phase = "burning" => Idle \/ Requesting("BurnSettings")
    /\ toDev # <<>> => attached

(* For apply and for set: what the device holds once the first call has    *)
(* succeeded (no command on the link can change it), and what is persisted *)
(* once a burn has.                                                        *)
List == cli.call.list
TheWrite == Msg("Write", cli.call.arg, cli.call.val)

HeldList ==
    /\ staged = List /\ Agrees(Live, List)
    /\ toDev \in Seq(Of({"WriteAllComplete", "BurnSettings"}))

HeldParam ==
    /\ <<store[cli.call.arg]>> = cli.call.val
    /\ toDev \in Seq({TheWrite} \cup Of({"BurnSettings"}))

Held == IF cli.call.op = "WriteAll" THEN HeldList ELSE HeldParam

Persisted ==
    IF cli.call.op = "WriteAll" THEN Agrees(flash, List)
    ELSE <<flash.store[cli.call.arg]>> = cli.call.val

Succeeded ==
    \/ phase = "burning"
    \/ phase = "running" /\ Idle /\ ret.ok
    \/ phase = "exited" /\ exit = "ok"

Burned ==
    \/ phase = "burning" /\ Idle /\ ret.ok
    \/ phase = "exited" /\ exit = "ok" /\ cli.burn

(* WriteAll under way: before the device has answered its start; while the *)
(* device takes the values; and when the device has committed what it has  *)
(* staged, whether that is the whole list or not.                          *)
Starting ==
    /\ Requesting("WriteAll")
    /\ toDev \in Seq(Of({"WriteAll"})) /\ fromDev \in Seq(Of({"WriteAll"}))
    /\ fromDev # <<>> => staged = <<>>

CliBegun == IF pc = "vals" THEN next - 1 ELSE Len(List)

CliSending ==
    /\ pc = "vals" \/ Requesting("WriteAllComplete")
    /\ \E w, b \in Nat : /\ OnLink(toDev, List, w, b, CliBegun, pc = "vals")
                         /\ StagedOf(staged, List, b)
    /\ fromDev \in Seq(Of({"WriteAll"}))

CliStored ==
    /\ Requesting("WriteAllComplete")
    /\ order = staged /\ store = Overlay(store, staged)
    /\ StagedOf(staged, List, Len(List))
    /\ toDev \in Seq(Of({"WriteAllComplete"}))
    /\ fromDev \in Seq(Of({"WriteAll"}) \cup {TheReply})

(* SetParam under way.                                                     *)
NoEcho == {f \in Frame : f.cmd # "Write"}

Setting ==
    /\ pc \in {"send", "wait"} /\ req.cmd = TheWrite
    /\ toDev \in Seq({TheWrite})
    /\ fromDev \in Seq(NoEcho) \/ <<store[cli.call.arg]>> = cli.call.val

Working ==
    IF cli.call.op = "WriteAll" THEN Starting \/ CliSending \/ CliStored ELSE Setting

(* A set is proved on a link that does not damage the value of a Write: a  *)
(* damaged resend would store something else after the first echo.         *)
SetAssumption == cli.call.op = "SetParam" => "Write" \notin Damageable

NoBurn == {f \in Frame : f.cmd # "BurnSettings"}
NoAck == {f \in Frame : ~(f.cmd = "BurnSettings" /\ f.val = <<1>>)}

(* A burn command on the link flashes what was verified; an acknowledged   *)
(* one has.                                                                *)
Promises ==
    cli.call.op \in Burnable /\ SetAssumption =>
        /\ toDev \in Seq(NoBurn) \/ Held
        /\ Succeeded /\ attached => Held
        /\ fromDev \in Seq(NoAck) \/ Persisted
        /\ Burned => Persisted
        /\ phase = "running" /\ ~Idle /\ attached => Working

CliInv == CliTypes /\ General /\ Promises

-----------------------------------------------------------------------------
(* Types, and the call the client is in.                                   *)
LEMMA BurnCallIsCall == BurnCall \in Calls
BY DEF BurnCall, Calls, AllOps

(* What the invariant says of the device and of the command.               *)
LEMMA CliFields ==
    ASSUME CliTypes
    PROVE  /\ toDev \in Seq(Frame) /\ fromDev \in Seq(Frame)
           /\ store \in [Addr -> Val] /\ order \in Seq(Param) /\ staged \in Seq(Param)
           /\ flash \in [store : [Addr -> Val], order : Seq(Param)]
           /\ List \in Seq(Param) /\ Len(List) \in Nat
           /\ cli.call.op = "WriteAll" => List \in Configs
           /\ cli.call.op = "SetParam" =>
                 /\ cli.call.arg \in Addr /\ cli.call.arg \in Nat
                 /\ cli.call.val \in Seq(Val) /\ Len(cli.call.val) = 1
                 /\ TheWrite \in Frame
<1>1. cli.call \in Calls \cup {NoCall}
  BY DEF CliTypes
<1>2. cli.call.op = "WriteAll" => List \in Configs
  BY <1>1 DEF Calls, NoCall, Call, AllOps, List
<1>3. /\ List \in Seq(Param) /\ Len(List) \in Nat
      /\ cli.call.op = "SetParam" =>
           cli.call.arg \in Addr /\ cli.call.val \in Seq(Val) /\ Len(cli.call.val) = 1
  BY <1>1, CallFields DEF List
<1>4. Addr \subseteq Nat
  BY DeviceAssumption
<1>5. cli.call.op = "SetParam" => TheWrite \in Frame
  BY <1>3, <1>4, MsgIsFrame DEF TheWrite, Cmds, Valued
<1> QED
  BY <1>2, <1>3, <1>4, <1>5 DEF CliTypes, TypeInv, TypeOK, DeviceTypeOK

(* Every step keeps the types.                                             *)
LEMMA StepCliTypes == CliTypes /\ [CliNext]_allVars => CliTypes'
<1> SUFFICES ASSUME CliTypes, [CliNext]_allVars PROVE CliTypes'
  OBVIOUS
<1> USE DEF CliTypes
<1>0. DeviceTypeOK
  BY DEF TypeInv, TypeOK
<1>1. CASE Run
  <2>1. PICK c \in Commands : cli' = c /\ Begin(c.call)
    BY <1>1 DEF Run
  <2>2. c.call \in Calls /\ c.burn \in BOOLEAN /\ c = [call |-> c.call, burn |-> c.burn]
    BY <2>1 DEF Commands
  <2>3. DeviceTypeOK'
    BY <1>0, <1>1, EmptyIsSeq DEF Run, DeviceTypeOK, liveVars, flashVars
  <2>4. TypeInv'
    BY <2>1, <2>2, <2>3, BeginType
  <2> QED
    BY <1>1, <2>1, <2>2, <2>4 DEF Run
<1>2. CASE MaybeBurn
  <2>1. DeviceTypeOK'
    BY <1>0, <1>2, DeviceTypeKept DEF MaybeBurn
  <2>2. TypeInv'
    BY <1>2, <2>1, BeginType, BurnCallIsCall DEF MaybeBurn
  <2> QED
    BY <1>2, <2>2 DEF MaybeBurn
<1>3. CASE Exit
  <2>1. TypeInv'
    BY <1>3, StepType DEF Exit
  <2> QED
    BY <1>3, <2>1 DEF Exit
<1>4. CASE Kill
  <2>1. DeviceTypeOK' /\ UNCHANGED callVars
    BY <1>0, <1>4, DeviceTypeKept DEF Kill
  <2>2. CASE Idle
    <3>1. UNCHANGED vars
      BY <1>4, <2>2 DEF Kill, vars, clientVars
    <3> QED
      BY <1>4, <3>1, StepType DEF Kill
  <2>3. CASE ~Idle
    <3>1. TypeInv'
      BY <1>4, <2>1, <2>3, FailType DEF Kill, TypeInv
    <3> QED
      BY <1>4, <3>1 DEF Kill
  <2> QED
    BY <2>2, <2>3
<1>5. CASE Steps
  <2>1. TypeInv'
    BY <1>5, StepType DEF Steps, Next
  <2> QED
    BY <1>5, <2>1 DEF Steps, cliVars
<1>6. CASE UNCHANGED allVars
  <2>1. TypeInv'
    BY <1>6, StepType DEF allVars
  <2> QED
    BY <1>6, <2>1 DEF allVars, cliVars
<1> QED
  BY <1>1, <1>2, <1>3, <1>4, <1>5, <1>6 DEF CliNext

(* The types hold at the start.                                            *)
LEMMA InitCliTypes == CliInit => CliTypes
BY InitType DEF CliInit, CliTypes

(* A request is sent again, or another reply is discarded, until it fails  *)
(* or is answered.                                                         *)
Requests == {"WriteAll", "WriteAllComplete", "Write", "BurnSettings"}

(* What the client can do in a request: send it again or go on past an     *)
(* answer of another kind, give up, or take the answer off the link.       *)
LEMMA RequestStep ==
    ASSUME TypeInv, NEW cmd \in Requests, Requesting(cmd), ClientStep
    PROVE  \/ /\ Requesting(cmd)' /\ req'.cmd = req.cmd
              /\ UNCHANGED toDev \/ toDev' = Append(toDev, req.cmd)
              /\ \/ UNCHANGED fromDev
                 \/ /\ fromDev # <<>> /\ Head(fromDev).cmd # cmd
                    /\ fromDev' = Tail(fromDev)
           \/ Idle' /\ ~ret'.ok /\ UNCHANGED toDev
           \/ /\ UNCHANGED toDev
              /\ fromDev # <<>> /\ Head(fromDev).cmd = cmd /\ fromDev' = Tail(fromDev)
              /\ cmd = "WriteAll" => WriteAllStarted
              /\ cmd = "WriteAllComplete" => WriteAllAnswered
              /\ cmd = "Write" => SetParamAnswered
              /\ cmd = "BurnSettings" => BurnAnswered
<1> USE DEF Requesting, Idle
<1>0. Want(cmd) = cmd /\ cmd # "Bootloader"
  BY DEF Want, Requests
<1>1. CASE SendRequest
  <2>1. req \in [cmd : Frame, left : 0..Tries]
    BY DEF TypeInv, TypeOK
  <2>2. /\ pc' = "wait" /\ req'.cmd = req.cmd /\ toDev' = Append(toDev, req.cmd)
        /\ fromDev' = fromDev
    BY <1>0, <1>1, <2>1 DEF SendRequest, Send
  <2> QED
    BY <2>2
<1>2. CASE SendError \/ Timeout
  BY <1>2 DEF SendError, Timeout, Fail, Return, deviceVars, linkVars
<1>3. CASE SkipReply
  BY <1>0, <1>3 DEF SkipReply, Receive, clientVars
<1>4. CASE \/ WriteAllStarted \/ WriteAllAnswered \/ SetParamAnswered \/ BurnAnswered
  BY <1>0, <1>4 DEF WriteAllStarted, WriteAllAnswered, SetParamAnswered, BurnAnswered,
                    Answered, Receive
<1>5. CASE ReadParamAnswered \/ VersionAnswered \/ CrcAnswered
  BY <1>5 DEF ReadParamAnswered, VersionAnswered, CrcAnswered, Answered, Requests
<1>6. CASE SendVal \/ ValsSent \/ DumpSend \/ DumpRsp \/ DumpComplete \/ DumpSkip
           \/ DumpQuiet \/ DumpGiveUp
  BY <1>6 DEF SendVal, ValsSent, DumpSend, DumpRsp, DumpComplete, DumpSkip, DumpQuiet,
              DumpGiveUp, DumpReceive
<1> QED
  BY <1>1, <1>2, <1>3, <1>4, <1>5, <1>6 DEF ClientStep

(* A call that only burns stays one until it returns.                      *)
LEMMA BurningStep ==
    ASSUME TypeInv, Requesting("BurnSettings"), ClientStep
    PROVE  \/ /\ Requesting("BurnSettings")'
              /\ \/ UNCHANGED toDev
                 \/ toDev' = Append(toDev, req.cmd)
              /\ ~Idle'
           \/ /\ Idle' /\ UNCHANGED toDev
              /\ ret'.ok => fromDev # <<>> /\ Head(fromDev).cmd = "BurnSettings"
                            /\ Head(fromDev).val = <<1>>
<1>1. CASE fromDev # <<>> /\ Head(fromDev).cmd = "BurnSettings" /\ BurnAnswered
  <2>1. Idle' /\ UNCHANGED toDev /\ ret'.ok = (Head(fromDev).val = <<1>>)
    BY <1>1 DEF BurnAnswered, Answered, Answer, Return, Idle
  <2> QED
    BY <1>1, <2>1
<1>2. CASE Requesting("BurnSettings")' /\ (UNCHANGED toDev \/ toDev' = Append(toDev, req.cmd))
  BY <1>2 DEF Requesting, Idle
<1>3. CASE Idle' /\ ~ret'.ok /\ UNCHANGED toDev
  BY <1>3
<1> QED
  BY <1>1, <1>2, <1>3, RequestStep DEF Requests

(* Every step keeps which call the client is in.                           *)
LEMMA StepGeneral == CliTypes /\ General /\ [CliNext]_allVars => General'
<1> SUFFICES ASSUME CliTypes, General, [CliNext]_allVars PROVE General'
  OBVIOUS
<1> USE DEF General
<1>1. CASE Run
  <2>1. PICK c \in Commands : cli' = c /\ Begin(c.call)
    BY <1>1 DEF Run
  <2>2. call' = cli'.call
    BY <2>1, BeginFacts
  <2> QED
    BY <1>1, <2>2 DEF Run
<1>2. CASE MaybeBurn
  <2>1. Requesting("BurnSettings")'
    BY <1>2, BeginFacts DEF MaybeBurn, BurnCall, Call
  <2> QED
    BY <1>2, <2>1 DEF MaybeBurn, deviceVars, linkVars, envVars
<1>3. CASE Exit
  BY <1>3 DEF Exit, Idle, vars, clientVars, deviceVars, linkVars, envVars
<1>4. CASE Kill
  BY <1>4 DEF Kill, Idle, Fail, Return, deviceVars, linkVars, envVars
<1>5. CASE ClientStep /\ UNCHANGED cliVars
  <2>1. UNCHANGED <<cli, phase>>
    BY <1>5 DEF cliVars
  <2>2. /\ ~Idle /\ call' = call /\ attached' = attached
        /\ toDev' = toDev \/ attached
    BY <1>5, ClientFacts
  <2>3. CASE phase = "burning"
    BY <1>5, <2>1, <2>2, <2>3, BurningStep DEF CliTypes
  <2> QED
    BY <2>1, <2>2, <2>3
<1>6. CASE EnvStep /\ UNCHANGED cliVars
  <2>1. UNCHANGED <<cli, phase, pc, req, call>>
    BY <1>6 DEF cliVars, EnvStep, clientVars, callVars
  <2>2. toDev' # <<>> => toDev # <<>> /\ attached' = attached
    BY <1>6, EnvFacts DEF EnvStep
  <2> QED
    BY <2>1, <2>2 DEF Idle, Requesting
<1>7. CASE UNCHANGED allVars
  BY <1>7 DEF allVars, cliVars, vars, clientVars, callVars, deviceVars, linkVars, envVars,
              Idle, Requesting
<1> QED
  BY <1>1, <1>2, <1>3, <1>4, <1>5, <1>6, <1>7 DEF CliNext, Steps

-----------------------------------------------------------------------------
(* What the device holds stays what it holds: the commands still on the    *)
(* link repeat what they have done.                                        *)
LEMMA HeldListByEnv ==
    ASSUME CliTypes, cli.call.op = "WriteAll", HeldList,
           DeviceStep \/ LinkStep, attached', UNCHANGED cli
    PROVE  HeldList'
<1> DEFINE Q == Of({"WriteAllComplete", "BurnSettings"})
<1>1. /\ staged = List /\ order = List /\ toDev \in Seq(Q)
      /\ \A i \in DOMAIN List : store[List[i].addr] = List[i].val
  BY DEF HeldList, Agrees, Live
<1>2. /\ List \in Configs /\ List' = List /\ store \in [Addr -> Val]
      /\ fromDev \in Seq(Frame)
  BY CliFields DEF List
<1>3. ASSUME staged' = staged, order' = order, store' = store, toDev' \in Seq(Q)
      PROVE  HeldList'
  BY <1>1, <1>2, <1>3 DEF HeldList, Agrees, Live
<1>4. toDev # <<>> => Head(toDev) \in Q /\ Tail(toDev) \in Seq(Q)
  BY <1>1, HeadIn
<1>5. toDev # <<>> => Head(toDev).cmd \in {"WriteAllComplete", "BurnSettings"}
  BY <1>4 DEF Of
<1> HIDE DEF Q
<1>6. CASE DevWriteAllComplete
  <2>1. /\ toDev' = Tail(toDev) /\ toDev # <<>> /\ staged' = staged /\ order' = staged
        /\ store' = Overlay(store, staged)
    BY <1>6 DEF DevWriteAllComplete, Take
  <2>2. \A i \in DOMAIN List : Overlay(store, List)[List[i].addr] = List[i].val
    BY <1>2, OverlayHolds
  <2>3. toDev' \in Seq(Q)
    BY <1>4, <2>1
  <2>4. staged' = List /\ order' = List /\ store' = Overlay(store, List)
    BY <1>1, <2>1
  <2> QED
    BY <1>2, <2>2, <2>3, <2>4 DEF HeldList, Agrees, Live, Q
<1>7. CASE DevBurn \/ DropCommand
  BY <1>3, <1>4, <1>7 DEF DevBurn, DropCommand, Take, liveVars
<1>8. CASE LoseReply \/ DamageReply
  BY <1>1, <1>3, <1>8 DEF LoseReply, DamageReply, liveVars
<1>9. CASE DamageCommand
  BY <1>5, <1>9, DeviceAssumption DEF DamageCommand
<1>10. CASE DevWriteAll \/ DevWriteAllVal \/ DevWrite \/ DevRead \/ DevReadAll
            \/ DevCheckCrc \/ DevVersion
  BY <1>5, <1>10 DEF DevWriteAll, DevWriteAllVal, DevWrite, DevRead, DevReadAll,
                     DevCheckCrc, DevVersion, Take
<1>11. CASE DevBootloader \/ Reset
  BY <1>11 DEF DevBootloader, Reset, Detach
<1> QED
  BY <1>6, <1>7, <1>8, <1>9, <1>10, <1>11 DEF DeviceStep, LinkStep

(* Neither the device nor the link makes it forget a parameter it holds:   *)
(* what is left on the link sets the same value again, or burns.           *)
LEMMA HeldParamByEnv ==
    ASSUME CliTypes, cli.call.op = "SetParam", HeldParam, "Write" \notin Damageable,
           DeviceStep \/ LinkStep, attached', UNCHANGED cli
    PROVE  HeldParam'
<1> DEFINE Q == {TheWrite} \cup Of({"BurnSettings"})
           a == cli.call.arg
           v == cli.call.val
<1>1. <<store[a]>> = v /\ toDev \in Seq(Q)
  BY DEF HeldParam
<1>2. /\ TheWrite' = TheWrite /\ store \in [Addr -> Val] /\ a \in Addr
      /\ v \in Seq(Val) /\ Len(v) = 1 /\ TheWrite.arg = a /\ TheWrite.val = v
      /\ TheWrite.cmd = "Write"
  BY CliFields DEF TheWrite, Msg
<1>3. ASSUME store' = store, toDev' \in Seq(Q)
      PROVE  HeldParam'
  BY <1>1, <1>2, <1>3 DEF HeldParam
<1>4. toDev # <<>> => Head(toDev) \in Q /\ Tail(toDev) \in Seq(Q)
  BY <1>1, HeadIn
<1>5. toDev # <<>> => Head(toDev) = TheWrite \/ Head(toDev).cmd = "BurnSettings"
  BY <1>4 DEF Of
<1> HIDE DEF Q
<1>6. CASE DevWrite
  <2>1. toDev' = Tail(toDev) /\ toDev # <<>> /\ Head(toDev).cmd = "Write"
    BY <1>6 DEF DevWrite, Take
  <2>2. Head(toDev) = TheWrite
    BY <1>5, <2>1
  <2>3. store' = store \/ store' = [store EXCEPT ![a] = v[1]]
    BY <1>2, <1>6, <2>2 DEF DevWrite
  <2>4. store[a] = v[1]
    BY <1>1
  <2>5. store' = store
    BY <1>2, <2>3, <2>4
  <2> QED
    BY <1>3, <1>4, <2>1, <2>5
<1>7. CASE DevBurn \/ DropCommand
  BY <1>3, <1>4, <1>7 DEF DevBurn, DropCommand, Take, liveVars
<1>8. CASE LoseReply \/ DamageReply
  BY <1>1, <1>3, <1>8 DEF LoseReply, DamageReply, liveVars
<1>9. CASE DamageCommand
  BY <1>2, <1>5, <1>9, DeviceAssumption DEF DamageCommand
<1>10. CASE DevWriteAll \/ DevWriteAllVal \/ DevWriteAllComplete \/ DevRead \/ DevReadAll
            \/ DevCheckCrc \/ DevVersion
  BY <1>2, <1>5, <1>10 DEF DevWriteAll, DevWriteAllVal, DevWriteAllComplete, DevRead,
                           DevReadAll, DevCheckCrc, DevVersion, Take
<1>11. CASE DevBootloader \/ Reset
  BY <1>11 DEF DevBootloader, Reset, Detach
<1> QED
  BY <1>6, <1>7, <1>8, <1>9, <1>10, <1>11 DEF DeviceStep, LinkStep

(* The same for whichever command it was.                                  *)
LEMMA HeldByEnv ==
    ASSUME CliTypes, cli.call.op \in Burnable, SetAssumption, Held,
           DeviceStep \/ LinkStep, attached', UNCHANGED cli
    PROVE  Held'
<1>1. CASE cli.call.op = "WriteAll"
  BY <1>1, HeldListByEnv DEF Held
<1>2. CASE cli.call.op = "SetParam"
  BY <1>2, HeldParamByEnv DEF Held, SetAssumption
<1> QED
  BY <1>1, <1>2 DEF Burnable

(* So does the client when it sends a burn, and the flash takes it.        *)
LEMMA HeldByBurn ==
    ASSUME CliTypes, cli.call.op \in Burnable, Held,
           UNCHANGED <<cli, store, order, staged>>,
           NEW f \in Of({"BurnSettings"}),
           toDev' = Append(toDev, f) \/ UNCHANGED toDev
    PROVE  Held'
<1>1. CASE cli.call.op = "WriteAll"
  <2>1. HeldList /\ List' = List
    BY <1>1 DEF Held, List
  <2>2. f \in Of({"WriteAllComplete", "BurnSettings"})
    BY DEF Of
  <2>3. toDev' \in Seq(Of({"WriteAllComplete", "BurnSettings"}))
    BY <2>1, <2>2, QueueType DEF HeldList
  <2>4. HeldList'
    BY <2>1, <2>3 DEF HeldList, Agrees, Live
  <2> QED
    BY <1>1, <2>4 DEF Held
<1>2. CASE cli.call.op = "SetParam"
  <2>1. HeldParam /\ TheWrite' = TheWrite
    BY <1>2 DEF Held, TheWrite
  <2>2. toDev' \in Seq({TheWrite} \cup Of({"BurnSettings"}))
    BY <2>1, QueueType DEF HeldParam
  <2>3. HeldParam'
    BY <2>1, <2>2 DEF HeldParam
  <2> QED
    BY <1>2, <2>3 DEF Held
<1> QED
  BY <1>1, <1>2 DEF Burnable

(* A burn persists what is held.                                           *)
LEMMA HeldPersists ==
    ASSUME cli.call.op \in Burnable, Held, flash' = Live, UNCHANGED cli
    PROVE  Persisted'
<1>1. CASE cli.call.op = "WriteAll"
  <2>1. Agrees(Live, List) /\ List' = List
    BY <1>1 DEF Held, HeldList, List
  <2> QED
    BY <1>1, <2>1 DEF Persisted, Agrees
<1>2. CASE cli.call.op = "SetParam"
  BY <1>2 DEF Held, HeldParam, Persisted, Live, Burnable
<1> QED
  BY <1>1, <1>2 DEF Burnable

-----------------------------------------------------------------------------
(* WriteAll under way.                                                     *)

(* The device's answer to the start of WriteAll is a frame, of that kind.  *)
LEMMA StartReply ==
    Msg("WriteAll", 0, <<>>) \in Frame /\ Msg("WriteAll", 0, <<>>) \in Of({"WriteAll"})
<1>1. Msg("WriteAll", 0, <<>>) \in Frame /\ Msg("WriteAll", 0, <<>>).cmd = "WriteAll"
  BY PlainFrame, DeviceAssumption DEF Cmds, Valued, Msg
<1> QED
  BY <1>1 DEF Of

(* The device and the link keep WriteAll starting.                         *)
LEMMA StartingByEnv ==
    ASSUME CliTypes, Starting, DeviceStep \/ LinkStep, attached', UNCHANGED <<pc, req>>
    PROVE  Starting'
<1>1. /\ toDev \in Seq(Of({"WriteAll"})) /\ fromDev \in Seq(Of({"WriteAll"}))
      /\ fromDev # <<>> => staged = <<>>
      /\ toDev # <<>> => Head(toDev).cmd = "WriteAll"
      /\ fromDev # <<>> => Head(fromDev).cmd = "WriteAll"
      /\ toDev # <<>> => Tail(toDev) \in Seq(Of({"WriteAll"}))
      /\ fromDev # <<>> => Tail(fromDev) \in Seq(Of({"WriteAll"}))
  BY OfQueue DEF Starting
<1>2. Requesting("WriteAll")'
  BY DEF Starting, Requesting
<1>3. \/ DevWriteAll \/ DevWriteAllVal \/ DevWriteAllComplete
      \/ DropCommand \/ LoseReply
      \/ DamageCommand /\ Head(toDev).cmd = "WriteAllVal"
  BY <1>1, EnvCases
<1>4. CASE DevWriteAll
  <2>1. staged' = <<>> /\ toDev' = Tail(toDev) /\ toDev # <<>>
        /\ fromDev' = fromDev \o <<Msg("WriteAll", 0, <<>>)>>
    BY <1>4 DEF DevWriteAll, Take, Reply
  <2>2. fromDev' \in Seq(Of({"WriteAll"}))
    BY <1>1, <2>1, StartReply, ReplyAppended
  <2> QED
    BY <1>1, <1>2, <2>1, <2>2 DEF Starting
<1>5. CASE DropCommand
  BY <1>1, <1>2, <1>5 DEF DropCommand, liveVars, Starting
<1>6. CASE LoseReply
  BY <1>1, <1>2, <1>6 DEF LoseReply, liveVars, Starting
<1>7. CASE DevWriteAllVal \/ DevWriteAllComplete
  BY <1>1, <1>7 DEF DevWriteAllVal, DevWriteAllComplete, Take
<1>8. CASE DamageCommand
  BY <1>1, <1>8, DeviceAssumption DEF DamageCommand
<1> QED
  BY <1>3, <1>4, <1>5, <1>6, <1>7, <1>8

(* The device and the link keep the values in order, or the device takes   *)
(* the first completion and stores what it has staged.                     *)
LEMMA CliSendingByEnv ==
    ASSUME CliTypes, CliSending, DeviceStep \/ LinkStep, attached',
           UNCHANGED <<cli, pc, req, next>>
    PROVE  CliSending' \/ CliStored'
<1> DEFINE open == pc = "vals"
<1>1. PICK w \in Nat, b \in Nat : /\ OnLink(toDev, List, w, b, CliBegun, open)
                                  /\ StagedOf(staged, List, b)
  BY DEF CliSending
<1>2. /\ fromDev \in Seq(Of({"WriteAll"}))
      /\ fromDev # <<>> => Head(fromDev).cmd = "WriteAll"
                           /\ Tail(fromDev) \in Seq(Of({"WriteAll"}))
  BY OfQueue DEF CliSending
<1>3. /\ toDev \in Seq(Frame) /\ staged \in Seq(Param) /\ List \in Seq(Param)
      /\ Len(List) \in Nat /\ store \in [Addr -> Val]
  BY CliFields
<1>4. List' = List /\ CliBegun' = CliBegun /\ (pc' = "vals") = open
  BY DEF List, CliBegun
<1>5. pc' = "vals" \/ Requesting("WriteAllComplete")'
  BY DEF CliSending, Requesting
<1>6. CliBegun \in Nat
  BY <1>1 DEF OnLink
<1>7. ASSUME NEW u \in Nat, NEW c \in Nat, OnLink(toDev', List, u, c, CliBegun, open),
             StagedOf(staged', List, c), fromDev' \in Seq(Of({"WriteAll"}))
      PROVE  CliSending'
  BY <1>4, <1>5, <1>7 DEF CliSending
<1> HIDE DEF open
<1>8. ASSUME toDev # <<>>
      PROVE  \/ /\ Head(toDev).cmd = "WriteAll"
                /\ \E u \in Nat : OnLink(Tail(toDev), List, u, b, CliBegun, open)
             \/ /\ Head(toDev).cmd = "WriteAllVal" /\ w = 0 /\ b < CliBegun
                /\ Head(toDev).arg = List[b + 1].addr
                /\ OnLink(Tail(toDev), List, 0, b + 1, CliBegun, open)
             \/ /\ Head(toDev).cmd = "WriteAllComplete" /\ ~open /\ w = 0 /\ b = CliBegun
                /\ OnLink(Tail(toDev), List, 0, CliBegun, CliBegun, open)
  BY <1>1, <1>3, <1>8, OnLinkHead
<1>9. StagedOf(staged, List, b + 1)
  BY <1>1, <1>3, StagedNext
<1>10. \/ DevWriteAll \/ DevWriteAllVal \/ DevWriteAllComplete
       \/ DropCommand \/ LoseReply
       \/ DamageCommand /\ Head(toDev).cmd = "WriteAllVal"
  <2>1. toDev # <<>> => Head(toDev).cmd \in {"WriteAll", "WriteAllVal", "WriteAllComplete"}
    BY <1>8
  <2>2. fromDev # <<>> => Head(fromDev).cmd # "ReadAllRsp"
    BY <1>2
  <2> QED
    BY <2>1, <2>2, EnvCases
<1>11. CASE DevWriteAll
  <2>1. staged' = <<>> /\ toDev' = Tail(toDev) /\ toDev # <<>>
        /\ Head(toDev).cmd = "WriteAll" /\ fromDev' = fromDev \o <<Msg("WriteAll", 0, <<>>)>>
    BY <1>11 DEF DevWriteAll, Take, Reply
  <2>2. fromDev' \in Seq(Of({"WriteAll"}))
    BY <1>2, <2>1, StartReply, ReplyAppended
  <2>3. PICK u \in Nat : OnLink(toDev', List, u, b, CliBegun, open)
    BY <1>8, <2>1
  <2>4. StagedOf(staged', List, b)
    BY <2>1 DEF StagedOf
  <2> QED
    BY <1>7, <2>2, <2>3, <2>4
<1>12. CASE DevWriteAllVal
  <2> DEFINE p == [addr |-> Head(toDev).arg, val |-> Head(toDev).val[1]]
  <2>1. toDev' = Tail(toDev) /\ toDev # <<>> /\ fromDev' = fromDev
        /\ Head(toDev).cmd = "WriteAllVal" /\ staged' \in {staged, Append(staged, p)}
    BY <1>12 DEF DevWriteAllVal, Take
  <2>2. OnLink(toDev', List, 0, b + 1, CliBegun, open) /\ p.addr = List[b + 1].addr
    BY <1>8, <2>1
  <2>3. p \in Param
    <3>1. Head(toDev) \in Frame
      BY <1>3, <2>1, HeadIn
    <3> QED
      BY <2>1, <3>1, FrameFields DEF Valued, Param
  <2> HIDE DEF p
  <2>4. StagedOf(staged', List, b + 1)
    BY <1>1, <1>3, <1>9, <2>1, <2>2, <2>3, StagedNext
  <2> QED
    BY <1>2, <1>7, <2>1, <2>2, <2>4
<1>13. CASE DevWriteAllComplete
  <2>1. /\ toDev' = Tail(toDev) /\ toDev # <<>> /\ Head(toDev).cmd = "WriteAllComplete"
        /\ staged' = staged /\ order' = staged /\ store' = Overlay(store, staged)
        /\ fromDev' = fromDev \o <<TheReply>>
    BY <1>13 DEF DevWriteAllComplete, Take, Reply, TheReply
  <2>2. ~open /\ b = CliBegun /\ OnLink(toDev', List, 0, CliBegun, CliBegun, open)
    BY <1>8, <2>1
  <2>3. CliBegun = Len(List)
    BY <2>2 DEF CliBegun, open
  <2>4. toDev' \in Seq(Of({"WriteAllComplete"}))
    <3>1. toDev' \in Seq(Frame)
      BY <1>3, <2>1, HeadIn
    <3> QED
      BY <1>6, <2>2, <3>1, OnlyCompletions
  <2>5. TheReply' = TheReply
    BY <2>1 DEF TheReply
  <2>6. fromDev' \in Seq(Of({"WriteAll"}) \cup {TheReply})
    <3>1. fromDev \in Seq(Of({"WriteAll"}) \cup {TheReply})
      BY <1>2, WiderSeq
    <3> QED
      BY <2>1, <3>1, ReplyAppended
  <2>7. store' = Overlay(store', staged')
    BY <2>1, OverlayTwice
  <2>8. StagedOf(staged', List', Len(List'))
    BY <1>1, <1>4, <2>1, <2>2, <2>3
  <2>9. Requesting("WriteAllComplete")'
    BY <1>4, <1>5, <2>2
  <2> QED
    BY <2>1, <2>4, <2>5, <2>6, <2>7, <2>8, <2>9 DEF CliStored
<1>14. CASE DropCommand
  <2>1. toDev' = Tail(toDev) /\ toDev # <<>> /\ fromDev' = fromDev /\ staged' = staged
    BY <1>14 DEF DropCommand, liveVars
  <2>2. CASE Head(toDev).cmd = "WriteAll"
    BY <1>1, <1>2, <1>7, <1>8, <2>1, <2>2
  <2>3. CASE Head(toDev).cmd = "WriteAllVal"
    <3>1. OnLink(toDev', List, 0, b + 1, CliBegun, open)
      BY <1>8, <2>1, <2>3
    <3> QED
      BY <1>2, <1>7, <1>9, <2>1, <3>1
  <2>4. CASE Head(toDev).cmd = "WriteAllComplete"
    <3>1. OnLink(toDev', List, 0, CliBegun, CliBegun, open) /\ b = CliBegun
      BY <1>8, <2>1, <2>4
    <3> QED
      BY <1>1, <1>2, <1>6, <1>7, <2>1, <3>1
  <2> QED
    BY <1>8, <2>1, <2>2, <2>3, <2>4
<1>15. CASE LoseReply
  <2>1. UNCHANGED <<toDev, staged>> /\ fromDev' \in Seq(Of({"WriteAll"}))
    BY <1>2, <1>15 DEF LoseReply, liveVars
  <2> QED
    BY <1>1, <1>7, <2>1
<1>16. CASE DamageCommand
  <2>1. PICK f \in Damaged(Head(toDev)) : toDev' = [toDev EXCEPT ![1] = f]
    BY <1>16 DEF DamageCommand
  <2>2. toDev # <<>> /\ Head(toDev).cmd \in Damageable /\ UNCHANGED <<fromDev, staged>>
    BY <1>16 DEF DamageCommand, liveVars
  <2>3. Head(toDev) \in Frame
    BY <1>3, <2>2, HeadIn
  <2>4. f \in Frame /\ f.cmd = Head(toDev).cmd
    BY <2>1, <2>2, <2>3, DamagedFrame
  <2>5. f.arg = Head(toDev).arg
    BY <2>1, <2>3 DEF Damaged, Frame
  <2>6. OnLink(toDev', List, w, b, CliBegun, open)
    BY <1>1, <1>3, <2>1, <2>2, <2>4, <2>5, OnLinkDamage
  <2> QED
    BY <1>1, <1>2, <1>7, <2>2, <2>6
<1> QED
  BY <1>10, <1>11, <1>12, <1>13, <1>14, <1>15, <1>16

(* Once stored, further completions store the same list and draw the same  *)
(* answer.                                                                 *)
LEMMA CliStoredByEnv ==
    ASSUME CliTypes, CliStored, DeviceStep \/ LinkStep, attached',
           UNCHANGED <<cli, pc, req, next>>
    PROVE  CliStored'
<1> DEFINE R == Of({"WriteAll"}) \cup {TheReply}
           C == Of({"WriteAllComplete"})
<1>1. /\ order = staged /\ store = Overlay(store, staged)
      /\ StagedOf(staged, List, Len(List))
      /\ toDev \in Seq(C) /\ fromDev \in Seq(R)
  BY DEF CliStored
<1>2. /\ Requesting("WriteAllComplete")' /\ List' = List
  BY DEF CliStored, Requesting, List
<1>3. /\ toDev # <<>> => Head(toDev).cmd = "WriteAllComplete" /\ Tail(toDev) \in Seq(C)
      /\ fromDev # <<>> => Head(fromDev) \in R /\ Tail(fromDev) \in Seq(R)
  BY <1>1, OfQueue, HeadIn
<1>4. fromDev # <<>> => Head(fromDev).cmd # "ReadAllRsp"
  BY <1>3 DEF Of, TheReply, Msg
<1>5. ASSUME UNCHANGED <<order, staged, store>>, toDev' \in Seq(C), fromDev' \in Seq(R)
      PROVE  CliStored'
  <2>1. TheReply' = TheReply
    BY <1>5 DEF TheReply
  <2> QED
    BY <1>1, <1>2, <1>5, <2>1 DEF CliStored
<1> HIDE DEF R, C
<1>6. \/ DevWriteAll \/ DevWriteAllVal \/ DevWriteAllComplete
      \/ DropCommand \/ LoseReply
      \/ DamageCommand /\ Head(toDev).cmd = "WriteAllVal"
  BY <1>3, <1>4, EnvCases
<1>7. CASE DevWriteAllComplete
  <2>1. /\ toDev' = Tail(toDev) /\ toDev # <<>>
        /\ staged' = staged /\ order' = staged /\ store' = Overlay(store, staged)
        /\ fromDev' = fromDev \o <<TheReply>>
    BY <1>7 DEF DevWriteAllComplete, Take, Reply, TheReply
  <2>2. fromDev' \in Seq(R)
    BY <1>1, <2>1, ReplyAppended DEF R
  <2> QED
    BY <1>1, <1>3, <1>5, <2>1, <2>2
<1>8. CASE DropCommand
  BY <1>1, <1>3, <1>5, <1>8 DEF DropCommand, liveVars
<1>9. CASE LoseReply
  BY <1>1, <1>3, <1>5, <1>9 DEF LoseReply, liveVars
<1>10. CASE DevWriteAll \/ DevWriteAllVal
  BY <1>3, <1>10 DEF DevWriteAll, DevWriteAllVal, Take
<1>11. CASE DamageCommand
  BY <1>3, <1>11, DeviceAssumption DEF DamageCommand
<1> QED
  BY <1>6, <1>7, <1>8, <1>9, <1>10, <1>11

(* Before the first value every command on the link is a start.            *)
LEMMA OnlyStarts ==
    ASSUME NEW s \in Seq(Of({"WriteAll"})), NEW list \in Seq(Param)
    PROVE  Len(s) \in Nat /\ OnLink(s, list, Len(s), 0, 0, TRUE)
<1>1. Len(s) \in Nat /\ Len(list) \in Nat
  BY LenProperties
<1>2. \A i \in 1..Len(s) : s[i] \in Of({"WriteAll"})
  BY ElementOfSeq
<1>3. \A i \in 1..Len(s) : s[i].cmd = "WriteAll" /\ i <= Len(s)
  BY <1>1, <1>2 DEF Of
<1> QED
  BY <1>1, <1>3 DEF OnLink

(* The client keeps WriteAll starting, begins to send, or fails.           *)
LEMMA StartingByClient ==
    ASSUME CliTypes, call = cli.call, Starting, ClientStep, UNCHANGED cli
    PROVE  Starting' \/ CliSending' \/ (Idle' /\ ~ret'.ok)
<1>1. /\ toDev \in Seq(Of({"WriteAll"})) /\ fromDev \in Seq(Of({"WriteAll"}))
      /\ fromDev # <<>> => /\ staged = <<>> /\ Head(fromDev).cmd = "WriteAll"
                           /\ Tail(fromDev) \in Seq(Of({"WriteAll"}))
      /\ Requesting("WriteAll")
  BY OfQueue DEF Starting
<1>2. UNCHANGED staged
  BY ClientFacts
<1>3. List \in Seq(Param) /\ List' = List
  BY CliFields DEF List
<1>4. req.cmd \in Frame /\ TypeInv
  BY DEF CliTypes, TypeInv, TypeOK
<1>5. CASE /\ Requesting("WriteAll")' /\ req'.cmd = req.cmd
           /\ UNCHANGED toDev \/ toDev' = Append(toDev, req.cmd)
           /\ UNCHANGED fromDev
  <2>1. toDev' \in Seq(Of({"WriteAll"}))
    BY <1>1, <1>4, <1>5, OfQueue DEF Requesting
  <2> QED
    BY <1>1, <1>2, <1>5, <2>1 DEF Starting
<1>6. CASE Idle' /\ ~ret'.ok
  BY <1>6
<1>7. CASE UNCHANGED toDev /\ fromDev # <<>> /\ fromDev' = Tail(fromDev) /\ WriteAllStarted
  <2>1. pc' = "vals" /\ next' = 1 /\ CliBegun' = 0 /\ staged' = <<>>
    BY <1>1, <1>2, <1>7 DEF WriteAllStarted, CliBegun
  <2>2. Len(toDev') \in Nat /\ OnLink(toDev', List', Len(toDev'), 0, CliBegun', pc' = "vals")
    <3>1. Len(toDev) \in Nat /\ OnLink(toDev, List, Len(toDev), 0, 0, TRUE)
      BY <1>1, <1>3, OnlyStarts
    <3>2. (pc' = "vals") = TRUE
      BY <2>1
    <3> QED
      BY <1>3, <1>7, <2>1, <3>1, <3>2
  <2>3. StagedOf(staged', List', 0)
    BY <2>1 DEF StagedOf
  <2>4. fromDev' \in Seq(Of({"WriteAll"}))
    BY <1>1, <1>7
  <2> QED
    BY <2>1, <2>2, <2>3, <2>4 DEF CliSending
<1> QED
  BY <1>1, <1>4, <1>5, <1>6, <1>7, RequestStep DEF Requests

(* The client sends the next value, asks for completion, or fails: it      *)
(* cannot succeed while nothing is stored.                                 *)
LEMMA CliSendingByClient ==
    ASSUME CliTypes, call = cli.call, attached, CliSending, ClientStep, UNCHANGED cli
    PROVE  CliSending' \/ (Idle' /\ ~ret'.ok)
<1>1. PICK w \in Nat, b \in Nat : /\ OnLink(toDev, List, w, b, CliBegun, pc = "vals")
                                  /\ StagedOf(staged, List, b)
  BY DEF CliSending
<1>2. /\ fromDev \in Seq(Of({"WriteAll"}))
      /\ fromDev # <<>> => Head(fromDev).cmd = "WriteAll"
                           /\ Tail(fromDev) \in Seq(Of({"WriteAll"}))
  BY OfQueue DEF CliSending
<1>3. UNCHANGED staged /\ List' = List /\ call.list = List
  BY ClientFacts DEF List
<1>4. /\ toDev \in Seq(Frame) /\ List \in Seq(Param) /\ Len(List) \in Nat
      /\ req.cmd \in Frame /\ TypeInv /\ next \in 1..(Len(List) + 1)
  BY <1>3, CliFields DEF CliTypes, TypeInv, TypeOK
<1>5. ASSUME pc' = "vals" \/ Requesting("WriteAllComplete")',
             OnLink(toDev', List, w, b, CliBegun', pc' = "vals"),
             fromDev' \in Seq(Of({"WriteAll"}))
      PROVE  CliSending'
  BY <1>1, <1>3, <1>5 DEF CliSending
<1>6. CASE pc = "vals" /\ SendVal
  <2> DEFINE f == Msg("WriteAllVal", List[next].addr, <<List[next].val>>)
  <2>1. /\ toDev' = Append(toDev, f) /\ next' = next + 1 /\ pc' = "vals"
        /\ fromDev' = fromDev /\ next <= Len(List)
    BY <1>3, <1>6 DEF SendVal, Send
  <2>2. f \in Frame /\ f.cmd = "WriteAllVal" /\ f.arg = List[next].addr
    <3>1. List[next] \in Param
      BY <1>4, <2>1, ElementOfSeq
    <3>2. List[next].addr \in Addr /\ List[next].addr \in Nat
          /\ <<List[next].val>> \in Seq(Val) /\ Len(<<List[next].val>>) = 1
      BY <3>1, OneValue, DeviceAssumption DEF Param
    <3>3. f \in Frame
      BY <3>2, MsgIsFrame DEF Cmds, Valued
    <3> QED
      BY <3>3 DEF Msg
  <2>3. CliBegun = next - 1 /\ CliBegun' = next /\ next = (next - 1) + 1 /\ next - 1 < Len(List)
    BY <1>4, <1>6, <2>1 DEF CliBegun
  <2> HIDE DEF f
  <2>4. OnLink(toDev, List, w, b, next - 1, TRUE)
    <3>1. (pc = "vals") = TRUE
      BY <1>6
    <3> QED
      BY <1>1, <2>3, <3>1
  <2>5. f.arg = List[(next - 1) + 1].addr
    BY <2>2, <2>3
  <2>6. OnLink(Append(toDev, f), List, w, b, (next - 1) + 1, TRUE)
    BY <1>4, <2>2, <2>3, <2>4, <2>5, OnLinkValue
  <2>7. (pc' = "vals") = TRUE
    BY <2>1
  <2>8. OnLink(toDev', List, w, b, CliBegun', pc' = "vals")
    BY <2>1, <2>3, <2>6, <2>7
  <2> QED
    BY <1>2, <1>5, <2>1, <2>8
<1>7. CASE pc = "vals" /\ ValsSent
  <2>1. /\ pc' = "send" /\ req'.cmd.cmd = "WriteAllComplete" /\ toDev' = toDev
        /\ fromDev' = fromDev /\ next > Len(List)
    BY <1>3, <1>7 DEF ValsSent, Request, Msg, deviceVars, linkVars
  <2>2. CliBegun = Len(List) /\ CliBegun' = Len(List)
    BY <1>3, <1>4, <1>7, <2>1 DEF CliBegun
  <2>3. OnLink(toDev', List, w, b, CliBegun', pc' = "vals")
    BY <1>1, <1>7, <2>1, <2>2 DEF OnLink
  <2> QED
    BY <1>2, <1>5, <2>1, <2>3 DEF Requesting
<1>8. CASE Requesting("WriteAllComplete")
  <2>1. CliBegun = Len(List) /\ pc # "vals"
    BY <1>8 DEF CliBegun, Requesting
  <2>2. CASE Idle' /\ ~ret'.ok
    BY <2>2
  <2>3. CASE fromDev # <<>> /\ Head(fromDev).cmd = "WriteAllComplete"
    BY <1>2, <2>3
  <2>4. CASE /\ Requesting("WriteAllComplete")' /\ req'.cmd = req.cmd
             /\ UNCHANGED toDev \/ toDev' = Append(toDev, req.cmd)
             /\ UNCHANGED fromDev \/ (fromDev # <<>> /\ fromDev' = Tail(fromDev))
    <3>1. CliBegun' = CliBegun /\ pc' # "vals"
      BY <1>3, <2>1, <2>4 DEF CliBegun, Requesting
    <3>2. /\ OnLink(toDev, List, w, b, CliBegun, FALSE)
          /\ OnLink(Append(toDev, req.cmd), List, w, b, CliBegun, FALSE)
      BY <1>1, <1>4, <1>8, OnLinkClosed DEF Requesting
    <3>3. (pc' = "vals") = FALSE
      BY <3>1
    <3>4. OnLink(toDev', List, w, b, CliBegun', pc' = "vals")
      BY <2>4, <3>1, <3>2, <3>3
    <3>5. fromDev' \in Seq(Of({"WriteAll"}))
      BY <1>2, <2>4
    <3> QED
      BY <1>5, <2>4, <3>4, <3>5
  <2> QED
    BY <1>4, <1>8, <2>2, <2>3, <2>4, RequestStep DEF Requests
<1> QED
  BY <1>6, <1>7, <1>8, ValsStep DEF CliSending

(* The verified reply: the device holds the list.                          *)
LEMMA CliStoredByClient ==
    ASSUME CliTypes, call = cli.call, cli.call.op = "WriteAll", CliStored, ClientStep,
           UNCHANGED cli
    PROVE  CliStored' \/ (Idle' /\ (ret'.ok => HeldList'))
<1>1. /\ Requesting("WriteAllComplete")
      /\ order = staged /\ store = Overlay(store, staged)
      /\ StagedOf(staged, List, Len(List))
      /\ toDev \in Seq(Of({"WriteAllComplete"}))
      /\ fromDev \in Seq(Of({"WriteAll"}) \cup {TheReply})
  BY DEF CliStored
<1>2. UNCHANGED <<order, staged, store>> /\ List' = List /\ call.list = List
      /\ TheReply' = TheReply
  BY ClientFacts DEF List, TheReply
<1>3. /\ List \in Seq(Param) /\ List \in Configs /\ staged \in Seq(Param)
      /\ Len(List) \in Nat /\ store \in [Addr -> Val] /\ req.cmd \in Frame /\ TypeInv
  BY CliFields DEF CliTypes, TypeInv, TypeOK
<1>4. CASE Idle' /\ ~ret'.ok
  BY <1>4
<1>5. CASE /\ Requesting("WriteAllComplete")' /\ req'.cmd = req.cmd
           /\ UNCHANGED toDev \/ toDev' = Append(toDev, req.cmd)
           /\ UNCHANGED fromDev \/ (fromDev # <<>> /\ fromDev' = Tail(fromDev))
  <2>1. toDev' \in Seq(Of({"WriteAllComplete"}))
    BY <1>1, <1>3, <1>5, OfQueue DEF Requesting
  <2>2. fromDev' \in Seq(Of({"WriteAll"}) \cup {TheReply})
    BY <1>1, <1>5, HeadIn
  <2> QED
    BY <1>1, <1>2, <1>5, <2>1, <2>2 DEF CliStored
<1>6. CASE /\ UNCHANGED toDev /\ fromDev # <<>> /\ Head(fromDev).cmd = "WriteAllComplete"
           /\ WriteAllAnswered
  <2>1. Head(fromDev) = TheReply
    <3>1. Head(fromDev) \in Of({"WriteAll"}) \cup {TheReply}
      BY <1>1, <1>6, HeadIn
    <3> QED
      BY <1>6, <3>1 DEF Of
  <2>2. Idle' /\ ret'.ok = Verified(List, TheReply)
    BY <1>2, <1>6, <2>1 DEF WriteAllAnswered, Answer, Return, Idle
  <2>3. CASE ~ret'.ok
    BY <2>2, <2>3
  <2>4. CASE ret'.ok
    <3>1. Len(staged) = Len(List) /\ CrcOf(staged) = CrcOf(List)
      BY <2>2, <2>4 DEF Verified, TheReply, Msg
    <3>2. staged = List
      BY <1>1, <1>3, <3>1, StagedWhole
    <3>3. \A i \in DOMAIN List : store[List[i].addr] = List[i].val
      <4>1. store = Overlay(store, List)
        BY <1>1, <3>2
      <4>2. \A i \in DOMAIN List : Overlay(store, List)[List[i].addr] = List[i].val
        BY <1>3, OverlayHolds
      <4> QED
        BY <4>1, <4>2
    <3>4. toDev' \in Seq(Of({"WriteAllComplete", "BurnSettings"}))
      <4>1. Of({"WriteAllComplete"}) \subseteq Of({"WriteAllComplete", "BurnSettings"})
        BY DEF Of
      <4> QED
        BY <1>1, <1>6, <4>1, WiderSeq
    <3>5. HeldList'
      BY <1>1, <1>2, <3>2, <3>3, <3>4 DEF HeldList, Agrees, Live
    <3> QED
      BY <2>2, <3>5
  <2> QED
    BY <2>3, <2>4
<1> QED
  BY <1>1, <1>3, <1>4, <1>5, <1>6, RequestStep DEF Requests

-----------------------------------------------------------------------------
(* SetParam under way.                                                     *)
LEMMA SettingByEnv ==
    ASSUME CliTypes, cli.call.op = "SetParam", "Write" \notin Damageable, Setting,
           DeviceStep \/ LinkStep, attached', UNCHANGED <<cli, pc, req>>
    PROVE  Setting'
<1> DEFINE a == cli.call.arg
           v == cli.call.val
<1>1. /\ toDev \in Seq({TheWrite}) /\ pc \in {"send", "wait"} /\ req.cmd = TheWrite
      /\ fromDev \in Seq(NoEcho) \/ <<store[a]>> = v
  BY DEF Setting
<1>2. /\ TheWrite' = TheWrite /\ TheWrite.cmd = "Write" /\ TheWrite.arg = a
      /\ TheWrite.val = v /\ v \in Seq(Val) /\ Len(v) = 1 /\ store \in [Addr -> Val]
      /\ a \in Addr
  BY CliFields DEF TheWrite, Msg
<1>3. toDev # <<>> => Head(toDev) = TheWrite /\ Tail(toDev) \in Seq({TheWrite})
  BY <1>1, HeadIn
<1>4. ASSUME toDev' \in Seq({TheWrite}),
             fromDev' \in Seq(NoEcho) \/ <<store'[a]>> = v
      PROVE  Setting'
  BY <1>1, <1>2, <1>4 DEF Setting
<1>5. ASSUME NEW S, fromDev \in Seq(S), fromDev # <<>>
      PROVE  Head(fromDev) \in S /\ Tail(fromDev) \in Seq(S)
  BY <1>5, HeadIn
<1>6. CASE DevWrite
  <2>1. toDev # <<>> /\ toDev' = Tail(toDev)
    BY <1>6 DEF DevWrite, Take
  <2>2. \/ store' = store /\ fromDev' = fromDev
        \/ store' = [store EXCEPT ![a] = v[1]]
    BY <1>2, <1>3, <1>6, <2>1 DEF DevWrite
  <2>3. <<v[1]>> = v
    BY <1>2
  <2>4. fromDev' \in Seq(NoEcho) \/ <<store'[a]>> = v
    BY <1>1, <1>2, <2>2, <2>3
  <2> QED
    BY <1>3, <1>4, <2>1, <2>4
<1>7. CASE DropCommand
  BY <1>1, <1>3, <1>4, <1>7 DEF DropCommand, liveVars
<1>8. CASE LoseReply
  BY <1>1, <1>4, <1>5, <1>8 DEF LoseReply, liveVars
<1>9. CASE DamageReply
  <2>1. PICK f \in Damaged(Head(fromDev)) : fromDev' = [fromDev EXCEPT ![1] = f]
    BY <1>9 DEF DamageReply
  <2>2. /\ fromDev # <<>> /\ Head(fromDev).cmd \in Damageable
        /\ Head(fromDev).cmd = "ReadAllRsp" /\ UNCHANGED <<toDev, store>>
    BY <1>9 DEF DamageReply, liveVars
  <2>3. CASE fromDev \in Seq(NoEcho)
    <3>1. Head(fromDev) \in Frame
      BY <1>5, <2>2, <2>3 DEF NoEcho
    <3>2. f \in NoEcho
      BY <2>1, <2>2, <3>1, DamagedFrame DEF NoEcho
    <3>3. fromDev' \in Seq(NoEcho)
      BY <2>1, <2>2, <2>3, <3>2, HeadReplaced
    <3> QED
      BY <1>1, <1>4, <2>2, <3>3
  <2> QED
    BY <1>1, <1>4, <2>2, <2>3
<1>10. CASE DamageCommand
  BY <1>2, <1>3, <1>10 DEF DamageCommand
<1>11. CASE \/ DevWriteAll \/ DevWriteAllVal \/ DevWriteAllComplete \/ DevRead \/ DevReadAll
            \/ DevCheckCrc \/ DevVersion \/ DevBurn
  BY <1>2, <1>3, <1>11 DEF DevWriteAll, DevWriteAllVal, DevWriteAllComplete, DevRead,
                           DevReadAll, DevCheckCrc, DevVersion, DevBurn, Take
<1>12. CASE DevBootloader \/ Reset
  BY <1>12 DEF DevBootloader, Reset, Detach
<1> QED
  BY <1>6, <1>7, <1>8, <1>9, <1>10, <1>11, <1>12 DEF DeviceStep, LinkStep

(* SetParam goes on, fails, or ends with the parameter held.               *)
LEMMA SettingByClient ==
    ASSUME CliTypes, call = cli.call, cli.call.op = "SetParam", Setting, ClientStep,
           UNCHANGED cli
    PROVE  Setting' \/ (Idle' /\ (ret'.ok => HeldParam'))
<1>1. /\ toDev \in Seq({TheWrite}) /\ req.cmd = TheWrite /\ Requesting("Write")
      /\ fromDev \in Seq(NoEcho) \/ <<store[cli.call.arg]>> = cli.call.val
  BY DEF Setting, Requesting, TheWrite, Msg
<1>2. UNCHANGED store /\ TheWrite' = TheWrite /\ TypeInv
  BY ClientFacts DEF TheWrite, CliTypes
<1>3. CASE Idle' /\ ~ret'.ok
  BY <1>3
<1>4. CASE /\ Requesting("Write")' /\ req'.cmd = req.cmd
           /\ UNCHANGED toDev \/ toDev' = Append(toDev, req.cmd)
           /\ UNCHANGED fromDev \/ (fromDev # <<>> /\ fromDev' = Tail(fromDev))
  <2>1. toDev' \in Seq({TheWrite})
    BY <1>1, <1>4, QueueType
  <2>2. fromDev \in Seq(NoEcho) => fromDev' \in Seq(NoEcho)
    BY <1>4, HeadIn
  <2> QED
    BY <1>1, <1>2, <1>4, <2>1, <2>2 DEF Setting, Requesting
<1>5. CASE /\ UNCHANGED toDev /\ fromDev # <<>> /\ Head(fromDev).cmd = "Write"
           /\ SetParamAnswered
  <2>1. fromDev \notin Seq(NoEcho)
    BY <1>5, HeadIn DEF NoEcho
  <2>2. toDev' \in Seq({TheWrite} \cup Of({"BurnSettings"}))
    BY <1>1, <1>5, WiderSeq
  <2>3. HeldParam'
    BY <1>1, <1>2, <2>1, <2>2 DEF HeldParam
  <2>4. Idle'
    BY <1>5 DEF SetParamAnswered, Return, Idle
  <2> QED
    BY <2>3, <2>4
<1> QED
  BY <1>1, <1>2, <1>3, <1>4, <1>5, RequestStep DEF Requests

-----------------------------------------------------------------------------
(* Both of them.                                                           *)
LEMMA WorkingByEnv ==
    ASSUME CliTypes, cli.call.op \in Burnable, SetAssumption, Working,
           DeviceStep \/ LinkStep, attached', UNCHANGED <<cli, pc, req, next>>
    PROVE  Working'
<1>1. CASE cli.call.op = "WriteAll"
  <2>1. Starting' \/ CliSending' \/ CliStored'
    BY <1>1, StartingByEnv, CliSendingByEnv, CliStoredByEnv DEF Working
  <2> QED
    BY <1>1, <2>1 DEF Working
<1>2. CASE cli.call.op = "SetParam"
  <2>1. Setting'
    BY <1>2, SettingByEnv DEF Working, SetAssumption
  <2> QED
    BY <1>2, <2>1 DEF Working
<1> QED
  BY <1>1, <1>2 DEF Burnable

(* Whichever command it is goes on, fails, or ends with its parameters     *)
(* held.                                                                   *)
LEMMA WorkingByClient ==
    ASSUME CliTypes, call = cli.call, cli.call.op \in Burnable, attached, Working,
           ClientStep, UNCHANGED cli
    PROVE  Working' \/ (Idle' /\ (ret'.ok => Held'))
<1>1. CASE cli.call.op = "WriteAll"
  <2>1. Starting' \/ CliSending' \/ CliStored' \/ (Idle' /\ (ret'.ok => HeldList'))
    BY <1>1, StartingByClient, CliSendingByClient, CliStoredByClient DEF Working
  <2> QED
    BY <1>1, <2>1 DEF Working, Held
<1>2. CASE cli.call.op = "SetParam"
  <2>1. Setting' \/ (Idle' /\ (ret'.ok => HeldParam'))
    BY <1>2, SettingByClient DEF Working
  <2> QED
    BY <1>2, <2>1 DEF Working, Held
<1> QED
  BY <1>1, <1>2 DEF Burnable

(* No burn is on the link while the first call runs.                       *)
LEMMA OnLinkNoBurn ==
    ASSUME NEW s \in Seq(Frame), NEW list, NEW w, NEW b, NEW n, NEW open,
           OnLink(s, list, w, b, n, open)
    PROVE  s \in Seq(NoBurn)
<1>1. w \in Nat /\ n \in Nat /\ b \in Nat
  BY DEF OnLink
<1>2. \A i \in 1..Len(s) : s[i].cmd \in {"WriteAll", "WriteAllVal", "WriteAllComplete"}
  BY <1>1 DEF OnLink
<1>3. \A i \in 1..Len(s) : s[i] \in Frame
  BY ElementOfSeq
<1>4. \A i \in 1..Len(s) : s[i] \in NoBurn
  BY <1>2, <1>3 DEF NoBurn
<1> QED
  BY <1>4, SeqOf

(* No burn is on the link while the parameters are being sent.             *)
LEMMA WorkingNoBurn ==
    ASSUME CliTypes, cli.call.op \in Burnable, Working
    PROVE  toDev \in Seq(NoBurn)
<1>1. /\ toDev \in Seq(Frame)
      /\ cli.call.op = "SetParam" => TheWrite \in NoBurn
  BY CliFields DEF NoBurn, TheWrite, Msg
<1>2. CASE Starting
  <2>1. Of({"WriteAll"}) \subseteq NoBurn
    BY DEF Of, NoBurn
  <2> QED
    BY <1>2, <2>1, WiderSeq DEF Starting
<1>3. CASE CliSending
  BY <1>1, <1>3, OnLinkNoBurn DEF CliSending
<1>4. CASE CliStored
  <2>1. Of({"WriteAllComplete"}) \subseteq NoBurn
    BY DEF Of, NoBurn
  <2> QED
    BY <1>4, <2>1, WiderSeq DEF CliStored
<1>5. CASE cli.call.op = "SetParam" /\ Setting
  <2>1. toDev \in Seq({TheWrite}) /\ {TheWrite} \subseteq NoBurn
    BY <1>1, <1>5 DEF Setting
  <2> QED
    BY <2>1, WiderSeq
<1> QED
  BY <1>2, <1>3, <1>4, <1>5 DEF Working, Burnable

-----------------------------------------------------------------------------
(* The promises.                                                           *)

(* Only a burn that flashes is acknowledged, and only a burn flashes.      *)
LEMMA AckByEnv ==
    ASSUME CliTypes, DeviceStep \/ LinkStep
    PROVE  /\ UNCHANGED flash
              \/ (flash' = Live /\ toDev # <<>> /\ Head(toDev).cmd = "BurnSettings")
           /\ fromDev \in Seq(NoAck) =>
                 \/ fromDev' \in Seq(NoAck)
                 \/ flash' = Live /\ toDev # <<>> /\ Head(toDev).cmd = "BurnSettings"
           /\ toDev \in Seq(NoBurn) => toDev' \in Seq(NoBurn)
<1> DEFINE Burning == flash' = Live /\ toDev # <<>> /\ Head(toDev).cmd = "BurnSettings"
<1>1. /\ toDev \in Seq(Frame) /\ fromDev \in Seq(Frame) /\ order \in Seq(Param)
      /\ staged \in Seq(Param) /\ store \in [Addr -> Val]
  BY CliFields
<1>2. /\ toDev # <<>> => Head(toDev) \in Frame
      /\ toDev \in Seq(NoBurn) /\ toDev # <<>> => Tail(toDev) \in Seq(NoBurn)
      /\ fromDev \in Seq(NoAck) /\ fromDev # <<>> => Tail(fromDev) \in Seq(NoAck)
  BY <1>1, HeadIn
<1>3. ASSUME NEW f \in Frame, f.cmd # "BurnSettings", fromDev' = fromDev \o <<f>>,
             fromDev \in Seq(NoAck)
      PROVE  fromDev' \in Seq(NoAck)
  <2>1. f \in NoAck
    BY <1>3 DEF NoAck
  <2> QED
    BY <1>3, <2>1, ReplyAppended
<1>4. CASE DevWriteAll
  <2>1. toDev' = Tail(toDev) /\ toDev # <<>> /\ flash' = flash
        /\ fromDev' = fromDev \o <<Msg("WriteAll", 0, <<>>)>>
    BY <1>4 DEF DevWriteAll, Take, Reply, flashVars
  <2>2. Msg("WriteAll", 0, <<>>).cmd # "BurnSettings"
    BY DEF Msg
  <2> QED
    BY <1>2, <1>3, <2>1, <2>2, StartReply
<1>5. CASE DevWriteAllVal
  BY <1>2, <1>5 DEF DevWriteAllVal, Take, flashVars
<1>6. CASE DevWriteAllComplete
  <2>1. toDev' = Tail(toDev) /\ toDev # <<>> /\ flash' = flash
        /\ fromDev' = fromDev \o <<TheReply>>
    BY <1>6 DEF DevWriteAllComplete, Take, Reply, flashVars, TheReply
  <2>2. Len(staged) \in Nat /\ CrcOf(staged) \in Seq(Val)
    BY <1>1, LenProperties, CrcType
  <2>3. TheReply \in Frame /\ TheReply.cmd # "BurnSettings"
    BY <2>2, MsgIsFrame DEF TheReply, Cmds, Valued, Msg
  <2> QED
    BY <1>2, <1>3, <2>1, <2>3
<1>7. CASE DevWrite
  <2>1. toDev' = Tail(toDev) /\ toDev # <<>> /\ flash' = flash /\ Head(toDev).cmd = "Write"
    BY <1>7 DEF DevWrite, Take, flashVars
  <2> DEFINE f == Msg("Write", Head(toDev).arg, <<Head(toDev).val[1]>>)
  <2>2. fromDev' = fromDev \/ fromDev' = fromDev \o <<f>>
    BY <1>7 DEF DevWrite, Reply
  <2>3. Head(toDev).arg \in Addr /\ Head(toDev).arg \in Nat /\ Head(toDev).val[1] \in Val
    BY <1>2, <2>1, FrameFields, DeviceAssumption DEF Valued
  <2>4. f \in Frame /\ f.cmd # "BurnSettings"
    BY <2>3, OneValueFrame DEF Cmds, Valued
  <2> HIDE DEF f
  <2> QED
    BY <1>2, <1>3, <2>1, <2>2, <2>4
<1>8. CASE DevRead
  <2> DEFINE f == Msg("Read", Head(toDev).arg, <<store[Head(toDev).arg]>>)
  <2>1. toDev' = Tail(toDev) /\ toDev # <<>> /\ flash' = flash /\ Head(toDev).cmd = "Read"
        /\ fromDev' = fromDev \o <<f>>
    BY <1>8 DEF DevRead, Take, Reply, flashVars
  <2>2. Head(toDev).arg \in Addr /\ Head(toDev).arg \in Nat
    BY <1>2, <2>1, FrameFields, DeviceAssumption
  <2>3. f \in Frame /\ f.cmd # "BurnSettings"
    <3>1. store[Head(toDev).arg] \in Val
      BY <1>1, <2>2
    <3> QED
      BY <2>2, <3>1, OneValueFrame DEF Cmds, Valued
  <2> HIDE DEF f
  <2> QED
    BY <1>2, <1>3, <2>1, <2>3
<1>9. CASE DevCheckCrc
  <2> DEFINE f == Msg("CheckCrcRsp", 0, CrcOf(order))
  <2>1. toDev' = Tail(toDev) /\ toDev # <<>> /\ flash' = flash /\ fromDev' = fromDev \o <<f>>
    BY <1>9 DEF DevCheckCrc, Take, Reply, flashVars
  <2>2. f \in Frame /\ f.cmd # "BurnSettings"
    BY <1>1, CrcType, MsgIsFrame DEF Cmds, Valued
  <2> HIDE DEF f
  <2> QED
    BY <1>2, <1>3, <2>1, <2>2
<1>10. CASE DevVersion
  <2> DEFINE f == Msg("Version", 0, <<0>>)
  <2>1. toDev' = Tail(toDev) /\ toDev # <<>> /\ flash' = flash /\ fromDev' = fromDev \o <<f>>
    BY <1>10 DEF DevVersion, Take, Reply, flashVars
  <2>2. f \in Frame /\ f.cmd # "BurnSettings"
    <3>1. 0 \in Val /\ 0 \in Nat
      BY DeviceAssumption
    <3> QED
      BY <3>1, OneValueFrame DEF Cmds, Valued
  <2> HIDE DEF f
  <2> QED
    BY <1>2, <1>3, <2>1, <2>2
<1>11. CASE DevReadAll
  <2> DEFINE rsps == [i \in DOMAIN order |->
                         Msg("ReadAllRsp", order[i].addr, <<order[i].val>>)]
             ack == Msg("ReadAll", 0, <<>>)
             end == Msg("ReadAllComplete", Len(order), CrcOf(order))
  <2>1. toDev' = Tail(toDev) /\ toDev # <<>> /\ flash' = flash
        /\ fromDev' = fromDev \o (<<ack>> \o rsps \o <<end>>)
    BY <1>11 DEF DevReadAll, Take, Reply, flashVars
  <2>2. Len(order) \in Nat /\ DOMAIN order = 1..Len(order)
    BY <1>1, LenProperties
  <2>3. ack \in NoAck
    <3>1. ack \in Frame /\ ack.cmd = "ReadAll"
      BY PlainFrame DEF Cmds, Valued, Msg
    <3> QED
      BY <3>1 DEF NoAck
  <2>4. end \in NoAck
    <3>1. end \in Frame /\ end.cmd = "ReadAllComplete"
      BY <1>1, <2>2, CrcType, MsgIsFrame DEF Cmds, Valued
    <3> QED
      BY <3>1 DEF NoAck
  <2>5. ASSUME NEW i \in 1..Len(order)
        PROVE  Msg("ReadAllRsp", order[i].addr, <<order[i].val>>) \in NoAck
    <3>1. order[i] \in Param
      BY <1>1, ElementOfSeq
    <3>2. order[i].addr \in Addr /\ order[i].addr \in Nat /\ order[i].val \in Val
      BY <3>1, DeviceAssumption DEF Param
    <3>3. Msg("ReadAllRsp", order[i].addr, <<order[i].val>>) \in Frame
          /\ Msg("ReadAllRsp", order[i].addr, <<order[i].val>>).cmd = "ReadAllRsp"
      BY <3>2, OneValueFrame DEF Cmds, Valued
    <3> QED
      BY <3>3 DEF NoAck
  <2>6. rsps \in Seq(NoAck)
    <3>1. rsps \in [1..Len(order) -> NoAck]
      BY <2>2, <2>5
    <3> HIDE DEF rsps
    <3> QED
      BY <2>2, <3>1, FunctionIsSeq
  <2>7. <<ack>> \in Seq(NoAck)
    <3> HIDE DEF ack
    <3> QED
      BY <2>3
  <2> HIDE DEF rsps, ack, end
  <2>8. <<ack>> \o rsps \o <<end>> \in Seq(NoAck)
    <3>1. <<ack>> \o rsps \in Seq(NoAck)
      BY <2>6, <2>7, QueueType
    <3> QED
      BY <2>4, <3>1, ReplyAppended
  <2>9. fromDev \in Seq(NoAck) => fromDev' \in Seq(NoAck)
    BY <2>1, <2>8, QueueType
  <2> QED
    BY <1>2, <2>1, <2>9
<1>12. CASE DevBurn
  <2>1. toDev' = Tail(toDev) /\ toDev # <<>> /\ Head(toDev).cmd = "BurnSettings"
    BY <1>12 DEF DevBurn, Take
  <2>2. CASE flash' = Live
    BY <1>2, <2>1, <2>2
  <2>3. CASE flash' = flash /\ fromDev' = fromDev \o <<Msg("BurnSettings", 0, <<0>>)>>
    <3>1. Msg("BurnSettings", 0, <<0>>) \in Frame
      <4>1. 0 \in Val /\ 0 \in Nat
        BY DeviceAssumption
      <4> QED
        BY <4>1, OneValueFrame DEF Cmds, Valued
    <3>2. Msg("BurnSettings", 0, <<0>>).val # <<1>>
      BY DEF Msg
    <3>3. Msg("BurnSettings", 0, <<0>>) \in NoAck
      BY <3>1, <3>2 DEF NoAck
    <3>4. fromDev \in Seq(NoAck) => fromDev' \in Seq(NoAck)
      BY <2>3, <3>3, ReplyAppended
    <3> QED
      BY <1>2, <2>1, <2>3, <3>4
  <2> QED
    BY <1>12, <2>2, <2>3 DEF DevBurn, Reply
<1>13. CASE DevBootloader \/ Reset
  <2>1. UNCHANGED <<fromDev, flash>> /\ toDev' = <<>>
    BY <1>13 DEF DevBootloader, Reset, Detach, flashVars
  <2> QED
    BY <2>1, EmptyIsSeq
<1>14. CASE DropCommand
  BY <1>2, <1>14 DEF DropCommand, flashVars
<1>15. CASE LoseReply
  BY <1>2, <1>15 DEF LoseReply, flashVars
<1>16. CASE DamageCommand
  <2>1. PICK f \in Damaged(Head(toDev)) : toDev' = [toDev EXCEPT ![1] = f]
    BY <1>16 DEF DamageCommand
  <2>2. toDev # <<>> /\ Head(toDev).cmd \in Damageable /\ UNCHANGED <<fromDev, flash>>
    BY <1>16 DEF DamageCommand, flashVars
  <2>3. f \in NoBurn
    BY <1>2, <2>1, <2>2, DamagedFrame, DeviceAssumption DEF NoBurn
  <2>4. toDev \in Seq(NoBurn) => toDev' \in Seq(NoBurn)
    BY <2>1, <2>2, <2>3, HeadReplaced
  <2> QED
    BY <2>2, <2>4
<1>17. CASE DamageReply
  <2>1. PICK f \in Damaged(Head(fromDev)) : fromDev' = [fromDev EXCEPT ![1] = f]
    BY <1>17 DEF DamageReply
  <2>2. fromDev # <<>> /\ Head(fromDev).cmd \in Damageable /\ UNCHANGED <<toDev, flash>>
    BY <1>17 DEF DamageReply, flashVars
  <2>3. f \in NoAck
    <3>1. Head(fromDev) \in Frame
      BY <1>1, <2>2, HeadIn
    <3> QED
      BY <2>1, <2>2, <3>1, DamagedFrame, DeviceAssumption DEF NoAck
  <2>4. fromDev \in Seq(NoAck) => fromDev' \in Seq(NoAck)
    BY <2>1, <2>2, <2>3, HeadReplaced
  <2> QED
    BY <2>2, <2>4
<1> QED
  BY <1>4, <1>5, <1>6, <1>7, <1>8, <1>9, <1>10, <1>11, <1>12, <1>13, <1>14, <1>15,
     <1>16, <1>17
  DEF DeviceStep, LinkStep

(* Nor does it send one.                                                   *)
LEMMA WorkingSends ==
    ASSUME CliTypes, call = cli.call, attached, cli.call.op \in Burnable, Working, ClientStep
    PROVE  UNCHANGED toDev \/ \E f \in NoBurn : toDev' = Append(toDev, f)
<1>0. TypeInv /\ req.cmd \in Frame
  BY DEF CliTypes, TypeInv, TypeOK
<1>1. ASSUME NEW cmd \in {"WriteAll", "WriteAllComplete", "Write"}, Requesting(cmd)
      PROVE  UNCHANGED toDev \/ \E f \in NoBurn : toDev' = Append(toDev, f)
  <2>1. UNCHANGED toDev \/ toDev' = Append(toDev, req.cmd)
    BY <1>0, <1>1, RequestStep DEF Requests
  <2>2. req.cmd \in NoBurn
    BY <1>0, <1>1 DEF Requesting, NoBurn
  <2> QED
    BY <2>1, <2>2
<1>2. CASE pc = "vals"
  <2>1. CASE SendVal
    <3> DEFINE f == Msg("WriteAllVal", call.list[next].addr, <<call.list[next].val>>)
    <3>1. call.list \in Seq(Param) /\ next \in 1..Len(call.list) /\ toDev' = Append(toDev, f)
      BY <2>1, CallFields DEF CliTypes, TypeInv, TypeOK, SendVal, Send
    <3>2. call.list[next] \in Param
      BY <3>1, ElementOfSeq
    <3>3. call.list[next].addr \in Addr /\ call.list[next].addr \in Nat
          /\ call.list[next].val \in Val
      BY <3>2, DeviceAssumption DEF Param
    <3>4. f \in Frame /\ f.cmd = "WriteAllVal"
      BY <3>3, OneValueFrame DEF Cmds, Valued
    <3> QED
      BY <3>1, <3>4 DEF NoBurn
  <2>2. CASE ValsSent
    BY <2>2 DEF ValsSent, deviceVars, linkVars
  <2> QED
    BY <1>2, <2>1, <2>2, ValsStep
<1>3. \/ pc = "vals"
      \/ \E cmd \in {"WriteAll", "WriteAllComplete", "Write"} : Requesting(cmd)
  BY DEF Working, Starting, CliSending, CliStored, Setting, Requesting, TheWrite, Msg
<1> QED
  BY <1>1, <1>2, <1>3

Promised == cli.call.op \in Burnable /\ SetAssumption

(* The steps of the device and of the link keep the promises.              *)
LEMMA PromisesByEnv ==
    ASSUME CliTypes, General, Promises, Promised, EnvStep, UNCHANGED cliVars
    PROVE  Promises'
<1> USE DEF Promised
<1>1. /\ toDev \in Seq(NoBurn) \/ Held
      /\ Succeeded /\ attached => Held
      /\ fromDev \in Seq(NoAck) \/ Persisted
      /\ Burned => Persisted
      /\ phase = "running" /\ ~Idle /\ attached => Working
  BY DEF Promises
<1>2. /\ UNCHANGED <<cli, phase, exit, pc, req, next, ret>> /\ (DeviceStep \/ LinkStep)
      /\ Succeeded' = Succeeded /\ Burned' = Burned /\ Idle' = Idle
  BY DEF EnvStep, cliVars, clientVars, Succeeded, Burned, Idle
<1>3. \/ ~attached' /\ toDev' = <<>> /\ UNCHANGED <<flash, fromDev>>
      \/ UNCHANGED attached /\ (toDev' # <<>> => toDev # <<>>)
  BY <1>2, EnvFacts
<1>4. Held /\ attached' => Held'
  BY <1>2, HeldByEnv
<1>5. toDev' \in Seq(NoBurn) \/ Held'
  <2>1. CASE ~attached'
    <3>1. toDev' = <<>>
      BY <1>3, <2>1 DEF General
    <3> QED
      BY <3>1, EmptyIsSeq
  <2>2. CASE attached'
    BY <1>1, <1>2, <1>4, <2>2, AckByEnv
  <2> QED
    BY <2>1, <2>2
<1>6. Succeeded' /\ attached' => Held'
  BY <1>1, <1>2, <1>3, <1>4
<1>7. ASSUME toDev # <<>>, Head(toDev).cmd = "BurnSettings", flash' = Live
      PROVE  Persisted'
  <2>1. toDev \notin Seq(NoBurn)
    BY <1>7, HeadIn DEF NoBurn
  <2> QED
    BY <1>1, <1>2, <1>7, <2>1, HeldPersists
<1>8. Persisted => Persisted'
  <2>1. CASE flash' = flash
    BY <1>2, <2>1 DEF Persisted, List
  <2> QED
    BY <1>2, <1>7, <2>1, AckByEnv
<1>9. fromDev' \in Seq(NoAck) \/ Persisted'
  BY <1>1, <1>2, <1>7, <1>8, AckByEnv
<1>10. phase' = "running" /\ ~Idle' /\ attached' => Working'
  BY <1>1, <1>2, <1>3, WorkingByEnv
<1> QED
  BY <1>1, <1>2, <1>5, <1>6, <1>8, <1>9, <1>10 DEF Promises

(* The steps of the client's call keep the promises.                       *)
LEMMA PromisesByClient ==
    ASSUME CliTypes, General, Promises, Promised, ClientStep, UNCHANGED cliVars
    PROVE  Promises'
<1> USE DEF Promised
<1>1. /\ toDev \in Seq(NoBurn) \/ Held
      /\ Succeeded /\ attached => Held
      /\ fromDev \in Seq(NoAck) \/ Persisted
      /\ Burned => Persisted
      /\ phase = "running" /\ ~Idle /\ attached => Working
  BY DEF Promises
<1>2. UNCHANGED <<cli, phase, exit>>
  BY DEF cliVars
<1>3. /\ ~Idle /\ UNCHANGED <<call, store, order, staged, flash, attached>>
      /\ UNCHANGED toDev \/ attached
      /\ UNCHANGED fromDev \/ Receive
  BY ClientFacts
<1>4. Persisted' = Persisted
  BY <1>2, <1>3 DEF Persisted, List
<1>5. fromDev \in Seq(NoAck) => fromDev' \in Seq(NoAck)
  BY <1>3, HeadIn DEF Receive
<1>6. CASE phase = "running"
  <2>1. call = cli.call /\ ~Burned' /\ (Succeeded' => Idle' /\ ret'.ok)
    BY <1>2, <1>6 DEF General, Burned, Succeeded
  <2>2. CASE ~attached
    <3>1. toDev' = <<>>
      BY <1>3, <2>2 DEF General
    <3> QED
      BY <1>1, <1>3, <1>4, <1>5, <2>1, <2>2, <3>1, EmptyIsSeq DEF Promises
  <2>3. CASE attached
    <3>1. Working
      BY <1>1, <1>3, <1>6, <2>3
    <3>2. Working' \/ (Idle' /\ (ret'.ok => Held'))
      BY <1>2, <2>1, <2>3, <3>1, WorkingByClient
    <3>3. toDev \in Seq(NoBurn)
      BY <3>1, WorkingNoBurn
    <3>4. toDev' \in Seq(NoBurn)
      <4>1. \A f \in NoBurn : Append(toDev, f) \in Seq(NoBurn)
        BY <3>3, QueueType
      <4> QED
        BY <2>1, <2>3, <3>1, <3>3, <4>1, WorkingSends
    <3>5. Working' => ~Idle'
      BY DEF Working, Starting, CliSending, CliStored, Setting, Requesting, Idle
    <3>6. Succeeded' /\ attached' => Held'
      BY <2>1, <3>2, <3>5
    <3>7. phase' = "running" /\ ~Idle' /\ attached' => Working'
      BY <3>2
    <3> QED
      BY <1>1, <1>4, <1>5, <2>1, <3>4, <3>6, <3>7 DEF Promises
  <2> QED
    BY <2>2, <2>3
<1>7. CASE phase = "burning"
  <2>1. Requesting("BurnSettings") /\ Succeeded /\ Succeeded'
    BY <1>2, <1>3, <1>7 DEF General, Succeeded
  <2>2. req.cmd \in Of({"BurnSettings"}) /\ TypeInv
    BY <2>1 DEF CliTypes, TypeInv, TypeOK, Requesting, Of
  <2>3. UNCHANGED toDev \/ toDev' = Append(toDev, req.cmd)
    BY <2>1, <2>2, BurningStep
  <2>4. Held => Held'
    BY <1>2, <1>3, <2>2, <2>3, HeldByBurn
  <2>5. Burned' => Persisted
    <3> SUFFICES ASSUME Burned' PROVE Persisted
      OBVIOUS
    <3>1. fromDev # <<>> /\ Head(fromDev).cmd = "BurnSettings" /\ Head(fromDev).val = <<1>>
      BY <1>2, <1>7, <2>1, <2>2, BurningStep DEF Burned
    <3>2. fromDev \notin Seq(NoAck)
      BY <3>1, HeadIn DEF NoAck
    <3> QED
      BY <1>1, <3>2
  <2>6. toDev' \in Seq(NoBurn) \/ Held'
    <3>1. CASE attached
      BY <1>1, <2>1, <2>4, <3>1
    <3>2. CASE ~attached
      <4>1. toDev' = <<>>
        BY <1>3, <3>2 DEF General
      <4> QED
        BY <4>1, EmptyIsSeq
    <3> QED
      BY <3>1, <3>2
  <2>7. attached' => Held'
    BY <1>1, <1>3, <2>1, <2>4
  <2> QED
    BY <1>1, <1>2, <1>4, <1>5, <1>7, <2>5, <2>6, <2>7 DEF Promises
<1> QED
  BY <1>3, <1>6, <1>7 DEF General, CliTypes

(* A step that moves neither the device nor the command keeps what is held.*)
LEMMA HeldKept ==
    ASSUME UNCHANGED <<cli, deviceVars>>
    PROVE  /\ Held' = Held /\ Persisted' = Persisted
           /\ UNCHANGED <<toDev, fromDev, attached>>
BY DEF Held, HeldList, HeldParam, Persisted, List, TheWrite, Agrees, Live,
       deviceVars, linkVars, liveVars, flashVars, envVars

(* A process starts with an empty link.                                    *)
LEMMA PromisesByRun ==
    ASSUME CliTypes, CliTypes', Run, cli'.call.op \in Burnable
    PROVE  Promises'
<1>1. PICK c \in Commands : cli' = c /\ Begin(c.call)
  BY DEF Run
<1>2. toDev' = <<>> /\ fromDev' = <<>> /\ phase' = "running"
  BY DEF Run
<1>3. ~Idle' /\ call' = cli'.call
  BY <1>1, BeginFacts
<1>4. /\ toDev' \in Seq(NoBurn) /\ fromDev' \in Seq(NoAck)
      /\ toDev' \in Seq(Of({"WriteAll"})) /\ fromDev' \in Seq(Of({"WriteAll"}))
      /\ toDev' \in Seq({TheWrite'}) /\ fromDev' \in Seq(NoEcho)
  BY <1>2, EmptyIsSeq
<1>5. ~Succeeded' /\ ~Burned'
  BY <1>2, <1>3 DEF Succeeded, Burned
<1>6. Working'
  <2>1. CASE cli'.call.op = "WriteAll"
    <3>1. Starting'
      BY <1>1, <1>2, <1>4, <2>1, BeginFacts DEF Starting
    <3> QED
      BY <2>1, <3>1 DEF Working
  <2>2. CASE cli'.call.op = "SetParam"
    <3>1. pc' = "send" /\ req'.cmd = TheWrite'
      BY <1>1, <2>2, BeginFacts DEF TheWrite
    <3>2. Setting'
      BY <1>4, <3>1 DEF Setting
    <3> QED
      BY <2>2, <3>2 DEF Working
  <2> QED
    BY <2>1, <2>2 DEF Burnable
<1> QED
  BY <1>4, <1>5, <1>6 DEF Promises

(* The steps of the command around the call, and its killing, keep the     *)
(* promises.                                                               *)
LEMMA PromisesByProcess ==
    ASSUME CliTypes, General, Promises, Promised, MaybeBurn \/ Exit \/ Kill
    PROVE  Promises'
<1> USE DEF Promised
<1>1. /\ toDev \in Seq(NoBurn) \/ Held
      /\ Succeeded /\ attached => Held
      /\ fromDev \in Seq(NoAck) \/ Persisted
      /\ Burned => Persisted
      /\ phase = "running" /\ ~Idle /\ attached => Working
  BY DEF Promises
<1>2. UNCHANGED <<cli, deviceVars>>
  BY DEF MaybeBurn, Exit, Kill, vars
<1>3. /\ Held' = Held /\ Persisted' = Persisted /\ UNCHANGED <<toDev, fromDev, attached>>
  BY <1>2, HeldKept
<1>4. ASSUME Succeeded' /\ attached => Succeeded, Burned' => Burned, phase' # "running"
      PROVE  Promises'
  <2>1. toDev' \in Seq(NoBurn) \/ Held'
    BY <1>1, <1>3
  <2>2. Succeeded' /\ attached' => Held'
    BY <1>1, <1>3, <1>4
  <2>3. fromDev' \in Seq(NoAck) \/ Persisted'
    BY <1>1, <1>3
  <2>4. Burned' => Persisted'
    BY <1>1, <1>3, <1>4
  <2> QED
    BY <1>4, <2>1, <2>2, <2>3, <2>4 DEF Promises
<1>5. CASE MaybeBurn
  <2>1. Succeeded /\ phase' = "burning" /\ ~Idle'
    BY <1>5, BeginFacts DEF MaybeBurn, Succeeded
  <2> QED
    BY <1>4, <2>1 DEF Burned
<1>6. CASE Exit
  <2>1. /\ phase' = "exited" /\ (exit' = "ok" => ret.ok) /\ Idle /\ cli' = cli
        /\ phase = "burning" \/ (phase = "running" /\ ~(ret.ok /\ cli.burn))
    BY <1>6 DEF Exit
  <2>2. Succeeded' => Succeeded
    BY <2>1 DEF Succeeded
  <2>3. Burned' => Burned
    BY <2>1 DEF Burned
  <2> QED
    BY <1>4, <2>1, <2>2, <2>3
<1>7. CASE Kill
  <2>1. phase' = "exited" /\ exit' = "killed"
    BY <1>7 DEF Kill
  <2> QED
    BY <1>4, <2>1 DEF Succeeded, Burned
<1> QED
  BY <1>5, <1>6, <1>7

(* The promises are about the variables only.                              *)
LEMMA PromisesByStutter ==
    ASSUME Promises, UNCHANGED allVars
    PROVE  Promises'
<1>1. UNCHANGED <<cli, phase, exit, pc, req, next, ret, toDev, fromDev, store, order, staged,
                  flash, attached>>
  BY DEF allVars, cliVars, vars, clientVars, deviceVars, linkVars, liveVars, flashVars, envVars
<1>2. Held' = Held /\ Persisted' = Persisted
  BY <1>1 DEF Held, HeldList, HeldParam, Persisted, List, TheWrite, Agrees, Live
<1>3. Succeeded' = Succeeded /\ Burned' = Burned /\ Idle' = Idle
  BY <1>1 DEF Succeeded, Burned, Idle
<1>4. Working' = Working
  BY <1>1 DEF Working, Starting, CliSending, CliStored, Setting, Requesting, CliBegun, List, TheReply,
              TheWrite
<1>5. SetAssumption' = SetAssumption
  BY <1>1 DEF SetAssumption
<1> QED
  BY <1>1, <1>2, <1>3, <1>4, <1>5 DEF Promises

(* Every step keeps the promises.                                          *)
LEMMA StepPromises ==
    CliTypes /\ CliTypes' /\ General /\ Promises /\ [CliNext]_allVars => Promises'
<1> SUFFICES ASSUME CliTypes, CliTypes', General, Promises, [CliNext]_allVars
             PROVE  Promises'
  OBVIOUS
<1>1. CASE UNCHANGED allVars
  BY <1>1, PromisesByStutter
<1>2. CASE Run
  <2>1. CASE cli'.call.op \in Burnable
    BY <1>2, <2>1, PromisesByRun
  <2>2. CASE cli'.call.op \notin Burnable
    BY <2>2 DEF Promises
  <2> QED
    BY <2>1, <2>2
<1>3. CASE MaybeBurn \/ Exit \/ Kill \/ Steps
  <2>1. UNCHANGED cli
    BY <1>3 DEF MaybeBurn, Exit, Kill, Steps, cliVars
  <2>2. CASE Promised
    <3>1. CASE MaybeBurn \/ Exit \/ Kill
      BY <2>2, <3>1, PromisesByProcess
    <3>2. CASE Steps
      BY <2>2, <3>2, PromisesByClient, PromisesByEnv DEF Steps
    <3> QED
      BY <1>3, <3>1, <3>2
  <2>3. CASE ~Promised
    <3>1. ~(cli'.call.op \in Burnable /\ SetAssumption')
      BY <2>1, <2>3 DEF Promised, SetAssumption
    <3> QED
      BY <3>1 DEF Promises
  <2> QED
    BY <2>2, <2>3
<1> QED
  BY <1>1, <1>2, <1>3 DEF CliNext

(* The invariant holds at the start.                                       *)
LEMMA InitCliInv == CliInit => CliInv
<1> SUFFICES ASSUME CliInit PROVE CliInv
  OBVIOUS
<1>1. CliTypes
  BY InitCliTypes
<1>2. phase = "exited" /\ Idle /\ toDev = <<>>
  BY DEF CliInit, Init, DeviceInit, ClientInit, Idle
<1>3. cli.call.op \notin Burnable
  BY DEF CliInit, NoCall, Call, Burnable
<1> QED
  BY <1>1, <1>2, <1>3 DEF CliInv, General, Promises

(* Every step keeps the invariant.                                         *)
LEMMA StepCliInv == CliInv /\ [CliNext]_allVars => CliInv'
BY StepCliTypes, StepGeneral, StepPromises DEF CliInv

-----------------------------------------------------------------------------
(* ApplyMeansHeld (README.md:94-96, main.go:165-184): an apply that exits  *)
(* well leaves the device, as long as it keeps its power, with exactly the *)
(* list it was given: whatever was dropped, lost, damaged or answered late *)
(* and whatever an earlier process left behind.                            *)
THEOREM AppliedIsHeld == CliSpec => []ApplyMeansHeld
<1>1. CliInv => ApplyMeansHeld
  BY DEF CliInv, Promises, ApplyMeansHeld, ExitedOk, Burnable, SetAssumption, Succeeded,
         Held, HeldList, List
<1> QED
  BY <1>1, InitCliInv, StepCliInv, PTL DEF CliSpec

(* ApplyBurnMeansPersisted (main.go:186-209): an apply -burn that exits    *)
(* well leaves that list in the flash, even of a device that lost power    *)
(* since.                                                                  *)
THEOREM BurntIsPersisted == CliSpec => []ApplyBurnMeansPersisted
<1>1. CliInv => ApplyBurnMeansPersisted
  BY DEF CliInv, Promises, ApplyBurnMeansPersisted, ExitedOk, Burnable, SetAssumption, Burned,
         Persisted, List
<1> QED
  BY <1>1, InitCliInv, StepCliInv, PTL DEF CliSpec

(* ApplyFlashesOnlyItsList: while apply is the command, the flash takes    *)
(* the list apply verified or nothing: the burn is sent only after the     *)
(* verified reply, and no later command on the link undoes it.             *)
THEOREM FlashesOnlyItsList == CliSpec => ApplyFlashesOnlyItsList
<1>1. CliInv /\ [CliNext]_allVars =>
          [flash' # flash /\ cli.call.op = "WriteAll" => Agrees(flash', cli.call.list)]_allVars
  <2> SUFFICES ASSUME CliInv, [CliNext]_allVars, flash' # flash, cli.call.op = "WriteAll"
               PROVE  Agrees(flash', cli.call.list)
    OBVIOUS
  <2>1. DeviceStep \/ LinkStep
    <3>1. CASE Run \/ MaybeBurn \/ Exit \/ Kill
      BY <3>1 DEF Run, MaybeBurn, Exit, Kill, vars, deviceVars, flashVars
    <3>2. CASE ClientStep
      BY <3>2, ClientFacts
    <3>3. CASE UNCHANGED allVars
      BY <3>3 DEF allVars, vars, deviceVars, flashVars
    <3> QED
      BY <3>1, <3>2, <3>3 DEF CliNext, Steps, EnvStep
  <2>2. flash' = Live /\ toDev # <<>> /\ Head(toDev).cmd = "BurnSettings"
    BY <2>1, AckByEnv DEF CliInv
  <2>3. toDev \notin Seq(NoBurn)
    BY <2>2, HeadIn DEF NoBurn
  <2>4. HeldList
    BY <2>3 DEF CliInv, Promises, Burnable, SetAssumption, Held
  <2> QED
    BY <2>2, <2>4 DEF HeldList, List
<1> QED
  BY <1>1, InitCliInv, StepCliInv, PTL DEF CliSpec, ApplyFlashesOnlyItsList

(* SetMeansHeld (README.md:126, main.go:186-209): a set that exits well is *)
(* live on the device, and with -burn in its flash, on a link that does    *)
(* not damage the value of a Write (a resend damaged on its way would be   *)
(* stored after the first echo was accepted).                              *)
THEOREM SetIsHeld ==
    ASSUME "Write" \notin Damageable
    PROVE  CliSpec => []SetMeansHeld
<1>1. CliInv => SetMeansHeld
  BY DEF CliInv, Promises, SetMeansHeld, ExitedOk, Burnable, SetAssumption, Succeeded, Burned,
         Held, HeldParam, Persisted
<1> QED
  BY <1>1, InitCliInv, StepCliInv, PTL DEF CliSpec
=============================================================================
