----------------------------- MODULE ParamClient -----------------------------
(***************************************************************************)
(* The Client of internal/dingo/protocol.go, talking to ParamDevice over   *)
(* its link.  Every call of the library is an operation Begin starts; a    *)
(* send, a receive and a timeout are separate steps, as the code blocks    *)
(* between them, so the device runs in between.                            *)
(*                                                                         *)
(* Real time is abstracted.  A timeout may fire whenever Silent holds: if  *)
(* Prompt, only when no command or reply is on the link (replies arrive    *)
(* within the timeout or not at all); otherwise at any moment, so that     *)
(* replies may come late, after the command was resent or given up.        *)
(***************************************************************************)
EXTENDS ParamDevice

CONSTANTS
    Configs,     \* the parameter lists WriteAll is called with
    Ops,         \* the operations the caller uses
    Tries,       \* requestTries: sends of a request before it fails (code: 6)
    DumpSends,   \* sends of ReadAll that fit in readAllOverall (code: about 22)
    MaxCalls,    \* bound: calls in one behaviour
    Prompt       \* replies never come after the timeout they answer

AllOps == {"WriteAll", "SetParam", "ReadParam", "ReadAll", "CheckCrc",
           "Burn", "Version", "Bootloader"}

ASSUME ClientAssumption ==
    /\ Configs \subseteq Seq(Param)
    /\ \A list \in Configs : \A i, j \in DOMAIN list :
          list[i].addr = list[j].addr => i = j
    /\ Ops \subseteq AllOps
    /\ Tries \in Nat \ {0} /\ DumpSends \in Nat \ {0}
    /\ MaxCalls \in Nat
    /\ Prompt \in BOOLEAN

VARIABLES
    call,    \* the call being made, or the last one
    pc,      \* where it blocks: "idle" (returned), "send", "wait", "vals", "dump"
    req,     \* the request under way: the command and the sends left
    next,    \* WriteAll: position of the next parameter to send
    out,     \* ReadAll: parameters collected
    primed,  \* ReadAll: the device has begun to answer
    sends,   \* ReadAll: times the command was sent
    ret,     \* what the last call returned
    calls,   \* calls begun
    burns    \* calls of Burn begun

callVars == <<call, calls, burns>>
readVars == <<out, primed, sends>>
clientVars == <<callVars, pc, req, next, readVars, ret>>
vars == <<clientVars, deviceVars>>

Call(op, list, arg, val) == [op |-> op, list |-> list, arg |-> arg, val |-> val]

Calls ==
    {Call("WriteAll", list, 0, <<>>) : list \in Configs}
    \cup {Call("SetParam", <<>>, p.addr, <<p.val>>) : p \in Param}
    \cup {Call("ReadParam", <<>>, a, <<>>) : a \in Addr}
    \cup {Call(op, <<>>, 0, <<>>) : op \in AllOps \ {"WriteAll", "SetParam", "ReadParam"}}

NoCall == Call("None", <<>>, 0, <<>>)
NoRet == [ok |-> FALSE, val |-> <<>>, list |-> <<>>]
NoReq == [cmd |-> Msg("Version", 0, <<>>), left |-> 0]

ClientInit ==
    /\ call = NoCall /\ calls = 0 /\ burns = 0
    /\ pc = "idle"
    /\ req = NoReq
    /\ next = 1
    /\ out = <<>> /\ primed = FALSE /\ sends = 0
    /\ ret = NoRet

Idle == pc = "idle"
Silent == Prompt => toDev = <<>> /\ fromDev = <<>>

-----------------------------------------------------------------------------
Send(frame) == toDev' = Append(toDev, frame)

Return(ok, val, list) ==
    /\ pc' = "idle"
    /\ ret' = [ok |-> ok, val |-> val, list |-> list]
    /\ req' = NoReq /\ next' = 1
    /\ out' = <<>> /\ primed' = FALSE /\ sends' = 0

Fail == Return(FALSE, <<>>, <<>>)

(* requestBytes is entered with Tries, requestOnce with one.               *)
Request(cmd, arg, val, tries) ==
    /\ pc' = "send"
    /\ req' = [cmd |-> Msg(cmd, arg, val), left |-> tries]

(* Mutated form: Burn goes through requestBytes like the other requests.   *)
BurnTriesAsRequest == Tries

BurnTries == 1

(* A caller starts one operation of the library.                           *)
Begin(c) ==
    /\ Idle
    /\ call' = c /\ calls' = calls + 1
    /\ burns' = IF c.op = "Burn" THEN burns + 1 ELSE burns
    /\ ret' = NoRet
    /\ \/ c.op = "WriteAll"   /\ Request("WriteAll", 0, <<>>, Tries)
       \/ c.op = "SetParam"   /\ Request("Write", c.arg, c.val, Tries)
       \/ c.op = "ReadParam"  /\ Request("Read", c.arg, <<>>, Tries)
       \/ c.op = "CheckCrc"   /\ Request("CheckCrc", 0, <<>>, Tries)
       \/ c.op = "Version"    /\ Request("Version", 0, <<>>, Tries)
       \/ c.op = "Burn"       /\ Request("BurnSettings", 0, <<>>, BurnTries)
       \/ c.op = "Bootloader" /\ Request("Bootloader", 0, <<>>, 1)
       \/ c.op = "ReadAll"    /\ pc' = "dump" /\ UNCHANGED req
    /\ UNCHANGED <<next, readVars>>

-----------------------------------------------------------------------------
(* The loop shared by requestBytes and requestOnce.                        *)
Want(cmd) == IF cmd = "CheckCrc" THEN "CheckCrcRsp" ELSE cmd

SendRequest ==
    /\ pc = "send" /\ attached
    /\ Send(req.cmd)
    /\ IF req.cmd.cmd = "Bootloader"
       THEN Return(TRUE, <<>>, <<>>)          \* fire-and-forget
       ELSE /\ pc' = "wait"
            /\ req' = [req EXCEPT !.left = @ - 1]
            /\ UNCHANGED <<next, readVars, ret>>
    /\ UNCHANGED <<callVars, fromDev, liveVars, flashVars, envVars>>

(* Mutated form: a send error is ignored and the call waits for a port     *)
(* that is gone.                                                           *)
SendErrorIgnored == FALSE /\ UNCHANGED vars

(* Any send error ends the call at once, without another try.              *)
SendError ==
    /\ ~attached
    /\ \/ pc = "send"
       \/ pc = "vals" /\ next <= Len(call.list)
       \/ pc = "dump" /\ ~primed /\ sends < DumpSends
    /\ Fail
    /\ UNCHANGED <<callVars, deviceVars>>

(* Mutated form: the tries are not counted.                                *)
TimeoutAlwaysResends ==
    /\ pc = "wait" /\ Silent
    /\ pc' = "send"
    /\ UNCHANGED <<req, next, readVars, ret, callVars, deviceVars>>

Timeout ==
    /\ pc = "wait" /\ Silent
    /\ IF req.left > 0
       THEN pc' = "send" /\ UNCHANGED <<req, next, readVars, ret>>
       ELSE Fail
    /\ UNCHANGED <<callVars, deviceVars>>

Receive == fromDev # <<>> /\ fromDev' = Tail(fromDev)

(* A reply to something else is discarded.                                 *)
SkipReply ==
    /\ pc = "wait" /\ Receive
    /\ Head(fromDev).cmd # Want(req.cmd.cmd)
    /\ UNCHANGED <<clientVars, toDev, liveVars, flashVars, envVars>>

(* A reply with the wanted command ends the request.  Neither its address  *)
(* nor the try it answers is compared.                                     *)
Answered(cmd) ==
    /\ pc = "wait" /\ req.cmd.cmd = cmd
    /\ Receive
    /\ Head(fromDev).cmd = Want(cmd)
    /\ UNCHANGED <<callVars, toDev, liveVars, flashVars, envVars>>

Answer == Head(fromDev)

-----------------------------------------------------------------------------
(* WriteAll: start, every parameter once and unacknowledged, completion.   *)
WriteAllStarted ==
    /\ Answered("WriteAll")
    /\ pc' = "vals" /\ req' = NoReq /\ next' = 1
    /\ UNCHANGED <<readVars, ret>>

SendVal ==
    /\ pc = "vals" /\ next <= Len(call.list) /\ attached
    /\ Send(Msg("WriteAllVal", call.list[next].addr, <<call.list[next].val>>))
    /\ next' = next + 1
    /\ UNCHANGED <<callVars, pc, req, readVars, ret>>
    /\ UNCHANGED <<fromDev, liveVars, flashVars, envVars>>

ValsSent ==
    /\ pc = "vals" /\ next > Len(call.list)
    /\ Request("WriteAllComplete", Len(call.list), <<>>, Tries)
    /\ UNCHANGED <<callVars, next, readVars, ret, deviceVars>>

(* Mutated form: the reply's CRC is not compared.                          *)
VerifiedCountOnly(list, reply) == reply.arg = Len(list)

(* Both WriteAll and ReadAll compare the device's count and CRC with their *)
(* own list.                                                               *)
Verified(list, reply) ==
    /\ reply.arg = Len(list)
    /\ reply.val = CrcOf(list)

WriteAllAnswered ==
    /\ Answered("WriteAllComplete")
    /\ Return(Verified(call.list, Answer), <<>>, <<>>)

-----------------------------------------------------------------------------
(* The operations that are one request.                                    *)
(* Mutated form: the echoed value is not compared.                         *)
SetParamAcknowledged ==
    /\ Answered("Write")
    /\ Return(TRUE, <<>>, <<>>)

SetParamAnswered ==
    /\ Answered("Write")
    /\ Return(Answer.val = call.val, <<>>, <<>>)

ReadParamAnswered ==
    /\ Answered("Read")
    /\ Return(TRUE, Answer.val, <<>>)

VersionAnswered ==
    /\ Answered("Version")
    /\ Return(TRUE, Answer.val, <<>>)

(* Mutated form: WriteConfig()'s result in the reply is not looked at.     *)
BurnAcknowledged ==
    /\ Answered("BurnSettings")
    /\ Return(TRUE, <<>>, <<>>)

BurnAnswered ==
    /\ Answered("BurnSettings")
    /\ Return(Answer.val = <<1>>, <<>>, <<>>)

(* Mutated form: a dump without its marker is returned as it is.           *)
CrcNotCompared ==
    /\ Answered("CheckCrc")
    /\ IF call.op = "ReadAll"
       THEN Return(TRUE, <<>>, out)
       ELSE Return(TRUE, Answer.val, <<>>)

(* CheckCrc on its own, or as the end of a ReadAll whose completion marker *)
(* never came.                                                             *)
CrcAnswered ==
    /\ Answered("CheckCrc")
    /\ IF call.op = "ReadAll"
       THEN Return(Answer.val = CrcOf(out), <<>>, out)
       ELSE Return(TRUE, Answer.val, <<>>)

-----------------------------------------------------------------------------
(* ReadAll: resend until the device answers, then collect one dump.        *)
DumpSend ==
    /\ pc = "dump" /\ ~primed /\ sends < DumpSends /\ attached
    /\ sends = 0 \/ Silent
    /\ Send(Msg("ReadAll", 0, <<>>))
    /\ sends' = sends + 1
    /\ UNCHANGED <<callVars, pc, req, next, out, primed, ret>>
    /\ UNCHANGED <<fromDev, liveVars, flashVars, envVars>>

DumpReceive ==
    /\ pc = "dump" /\ sends > 0 /\ Receive
    /\ UNCHANGED <<callVars, toDev, liveVars, flashVars, envVars>>

DumpRsp ==
    /\ DumpReceive
    /\ Answer.cmd \in {"ReadAll", "ReadAllRsp"}
    /\ primed' = TRUE
    /\ out' = IF Answer.cmd = "ReadAllRsp"
              THEN Append(out, [addr |-> Answer.arg, val |-> Answer.val[1]])
              ELSE out
    /\ UNCHANGED <<pc, req, next, sends, ret>>

DumpComplete ==
    /\ DumpReceive
    /\ Answer.cmd = "ReadAllComplete"
    /\ Return(Verified(out, Answer), <<>>, out)

DumpSkip ==
    /\ DumpReceive
    /\ Answer.cmd \notin {"ReadAll", "ReadAllRsp", "ReadAllComplete"}
    /\ UNCHANGED <<pc, req, next, readVars, ret>>

(* After the dump began, readAllQuiet or readAllOverall passed (the latter  *)
(* may cut a dump short): the marker may have been lost, so the collected  *)
(* list is compared with the device's own CRC.                             *)
DumpQuiet ==
    /\ pc = "dump" /\ primed
    /\ Request("CheckCrc", 0, <<>>, Tries)
    /\ UNCHANGED <<callVars, next, readVars, ret, deviceVars>>

(* Mutated form: there is no overall deadline.                             *)
DumpNeverGivesUp == FALSE /\ UNCHANGED vars

(* The overall deadline passed with no answer.                             *)
DumpGiveUp ==
    /\ pc = "dump" /\ ~primed /\ sends = DumpSends /\ Silent
    /\ Fail
    /\ UNCHANGED <<callVars, deviceVars>>

-----------------------------------------------------------------------------
ClientStep ==
    \/ SendRequest \/ SendError \/ Timeout \/ SkipReply
    \/ WriteAllStarted \/ SendVal \/ ValsSent \/ WriteAllAnswered
    \/ SetParamAnswered \/ ReadParamAnswered \/ VersionAnswered
    \/ BurnAnswered \/ CrcAnswered
    \/ DumpSend \/ DumpRsp \/ DumpComplete \/ DumpSkip \/ DumpQuiet \/ DumpGiveUp

EnvStep == (DeviceStep \/ LinkStep) /\ UNCHANGED clientVars

Begins ==
    /\ calls < MaxCalls
    /\ \E c \in Calls :
          /\ c.op \in Ops
          /\ Begin(c)
          /\ UNCHANGED deviceVars

Init == DeviceInit /\ ClientInit

Next == Begins \/ ClientStep \/ EnvStep

Spec == Init /\ [][Next]_vars

(* The client's goroutine and the device's loop keep running; neither the  *)
(* caller nor the faults are obliged to act.                               *)
Fairness ==
    /\ WF_vars(ClientStep)
    /\ WF_vars(DeviceStep /\ UNCHANGED clientVars)

FairSpec == Spec /\ Fairness

-----------------------------------------------------------------------------
TypeOK ==
    /\ DeviceTypeOK
    /\ call \in Calls \cup {NoCall}
    /\ pc \in {"idle", "send", "wait", "vals", "dump"}
    /\ req \in [cmd : Frame, left : 0..Tries]
    /\ next \in 1..(Len(call.list) + 1)
    /\ out \in Seq(Param) /\ primed \in BOOLEAN
    /\ sends \in 0..DumpSends
    /\ ret \in [ok : BOOLEAN, val : Seq(Val), list : Seq(Param)]
    /\ calls \in Nat /\ burns \in Nat

(* Burn is "sent single-shot: a resend would re-flash" (protocol.go:276-   *)
(* 277): the flash is never written more often than Burn was called, with  *)
(* commands dropped, replies lost or late, and calls given up.             *)
OneFlashPerBurn == flashes <= burns

(* A dump ReadAll returns is a dump the device gave: never the prefix of   *)
(* one, two run together, or one with a value changed on the way.          *)
DumpIsWhole ==
    Idle /\ call.op = "ReadAll" /\ ret.ok /\ attached => ret.list = order

(* Every call of the library returns, whatever the link does.              *)
CallsReturn == ~Idle ~> Idle

(* The library implements the store its callers see: success of a call     *)
(* means its effect is on the device, and reads are current.               *)
CS == INSTANCE ConfigStore WITH done <- Idle
RefinesConfigStore == CS!Spec

(* "SetParam writes one parameter [...] and verifies the device echoes     *)
(* back the stored value" (protocol.go:294-295): when it succeeds, the     *)
(* device stores the value.                                                *)
SetParamHolds ==
    Idle /\ call.op = "SetParam" /\ ret.ok /\ attached =>
        <<store[call.arg]>> = call.val
=============================================================================
