------------------------------- MODULE DingoCli -------------------------------
(***************************************************************************)
(* The dingo commands of main.go that speak the parameter protocol, one    *)
(* process after another on the same device: open the port and let it      *)
(* settle, make the command's library calls, close, exit.  A process may   *)
(* be killed at any step and the device may lose power at any step.        *)
(*                                                                         *)
(* slcan.Open drains the port for 1.5 s before the first call: the model   *)
(* takes this to outlast what the previous process left on the link (its   *)
(* commands have been handled, its replies are discarded).                 *)
(***************************************************************************)
EXTENDS ParamClient

CONSTANTS MaxCommands   \* bound: commands run in one behaviour

ASSUME CliAssumption == MaxCommands \in Nat

VARIABLES
    cli,      \* the command: its first library call, and whether -burn is given
    phase,    \* "running" its first call, "burning", or "exited"
    exit,     \* how the last command ended: "ok", "error", "killed"; or "none"
    commands  \* commands run

cliVars == <<cli, phase, exit, commands>>
allVars == <<cliVars, vars>>

(* apply and set take -burn; the other commands are one call.              *)
Burnable == {"WriteAll", "SetParam"}

Commands ==
    {[call |-> c, burn |-> b] : c \in {d \in Calls : d.op \in Ops}, b \in BOOLEAN}

CliInit ==
    /\ Init
    /\ cli = [call |-> NoCall, burn |-> FALSE]
    /\ phase = "exited" /\ exit = "none" /\ commands = 0

BurnCall == Call("Burn", <<>>, 0, <<>>)

(* Mutated form: the port is not drained when it is opened.                *)
RunWithoutDrain ==
    /\ phase = "exited" /\ commands < MaxCommands
    /\ toDev = <<>>
    /\ \E c \in Commands :
          /\ c.burn => c.call.op \in Burnable
          /\ cli' = c
          /\ Begin(c.call)
    /\ attached' = TRUE
    /\ phase' = "running" /\ exit' = "none" /\ commands' = commands + 1
    /\ UNCHANGED <<linkVars, liveVars, flashVars, faults, resets>>

(* A process starts: conn.client opens the port and makes the first call.  *)
Run ==
    /\ phase = "exited" /\ commands < MaxCommands
    /\ toDev = <<>>
    /\ \E c \in Commands :
          /\ c.burn => c.call.op \in Burnable
          /\ cli' = c
          /\ Begin(c.call)
    /\ fromDev' = <<>> /\ attached' = TRUE
    /\ phase' = "running" /\ exit' = "none" /\ commands' = commands + 1
    /\ UNCHANGED <<toDev, liveVars, flashVars, faults, resets>>

(* Mutated form: -burn persists even when the call failed.                 *)
BurnWhateverReturned ==
    /\ phase = "running" /\ Idle /\ cli.burn
    /\ Begin(BurnCall)
    /\ phase' = "burning"
    /\ UNCHANGED <<cli, exit, commands, deviceVars>>

(* maybeBurn: only after the first call succeeded.                         *)
MaybeBurn ==
    /\ phase = "running" /\ Idle /\ cli.burn
    /\ ret.ok
    /\ Begin(BurnCall)
    /\ phase' = "burning"
    /\ UNCHANGED <<cli, exit, commands, deviceVars>>

Exit ==
    /\ Idle
    /\ \/ phase = "running" /\ ~(ret.ok /\ cli.burn)
       \/ phase = "burning"
    /\ phase' = "exited"
    /\ exit' = IF ret.ok THEN "ok" ELSE "error"
    /\ UNCHANGED <<cli, commands, vars>>

(* The process dies; what it has sent stays on the link.                   *)
Kill ==
    /\ phase # "exited"
    /\ IF Idle THEN UNCHANGED <<pc, req, next, readVars, ret>> ELSE Fail
    /\ phase' = "exited" /\ exit' = "killed"
    /\ UNCHANGED <<cli, commands, callVars, deviceVars>>

Steps == (ClientStep \/ EnvStep) /\ UNCHANGED cliVars

CliNext == Run \/ MaybeBurn \/ Exit \/ Kill \/ Steps

CliSpec == CliInit /\ [][CliNext]_allVars

CliFairSpec ==
    /\ CliSpec
    /\ WF_allVars(ClientStep /\ UNCHANGED cliVars)
    /\ WF_allVars(MaybeBurn \/ Exit)

-----------------------------------------------------------------------------
Agrees(live, list) ==
    /\ live.order = list
    /\ \A i \in DOMAIN list : live.store[list[i].addr] = list[i].val

ExitedOk(op) == phase = "exited" /\ exit = "ok" /\ cli.call.op = op

(* "A successful apply means the device holds exactly the config you sent" *)
(* (README.md:94-96), however late the replies came and whatever the       *)
(* commands before it did, as long as the device keeps its power.          *)
ApplyMeansHeld ==
    ExitedOk("WriteAll") /\ attached => Agrees(Live, cli.call.list)

(* apply -burn that succeeded left the flash with the list it was given,   *)
(* even if the device lost power during or after the command.              *)
ApplyBurnMeansPersisted ==
    ExitedOk("WriteAll") /\ cli.burn => Agrees(flash, cli.call.list)

(* A successful set is live on the device, and with -burn also in flash    *)
(* (README.md:126; main.go:186-209): a process starts on a drained port,   *)
(* so no echo of an earlier set can stand for its own.                     *)
SetMeansHeld ==
    /\ ExitedOk("SetParam") /\ attached => <<store[cli.call.arg]>> = cli.call.val
    /\ ExitedOk("SetParam") /\ cli.burn => <<flash.store[cli.call.arg]>> = cli.call.val

(* A flash written on behalf of apply holds the list apply verified: never *)
(* a part of it, not even when the process dies between its calls.         *)
ApplyFlashesOnlyItsList ==
    [][flash' # flash /\ cli.call.op = "WriteAll" =>
          Agrees(flash', cli.call.list)]_allVars

(* Every command exits, whether or not the device answers or still exists. *)
CommandsExit == phase # "exited" ~> phase = "exited"
=============================================================================
