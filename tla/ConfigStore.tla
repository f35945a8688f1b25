----------------------------- MODULE ConfigStore -----------------------------
(***************************************************************************)
(* What the parameter protocol promises its caller, with no link, retries  *)
(* or replies: calls on a device that holds a live configuration and a     *)
(* flash, each of which takes effect between its begin and its end, and    *)
(* whose success means that it did.                                        *)
(*                                                                         *)
(* A call that fails promises nothing about the live configuration: a      *)
(* failed WriteAll may have committed any list.  Its effects end with the  *)
(* next call at the latest.                                                *)
(***************************************************************************)
EXTENDS Integers, Sequences

CONSTANTS Addr, Val

VARIABLES
    store, order,  \* live configuration: values, and the list a dump gives
    flash,         \* persisted configuration
    call,          \* the call in progress or the last one
    done,          \* it has returned
    ret,           \* what it returned
    attached,      \* the device has not restarted under the caller
    flashes,       \* writes of the flash
    burns          \* calls of Burn

vars == <<store, order, flash, call, done, ret, attached, flashes, burns>>

Param == [addr : Addr, val : Val]
Live == [store |-> store, order |-> order]
Values(list) == [i \in DOMAIN list |-> list[i].val]

(* The live configuration is exactly the list, for the list's parameters.  *)
Holds(list) ==
    /\ order = list
    /\ \A i \in DOMAIN list : store[list[i].addr] = list[i].val

(* What success of call c with result r says of the device.                *)
Promise(c, r) ==
    /\ c.op = "WriteAll"  => Holds(c.list)
    /\ c.op = "SetParam"  => c.val = <<store[c.arg]>>
    /\ c.op = "ReadParam" => r.val = <<store[c.arg]>>
    /\ c.op = "ReadAll"   => r.list = order
    /\ c.op = "CheckCrc"  => r.val = Values(order)
    /\ c.op = "Burn"      => flash = Live

Init ==
    /\ store = [a \in Addr |-> 0] /\ order = <<>>
    /\ flash = Live
    /\ call.op = "None" /\ done = TRUE /\ ret.ok = FALSE
    /\ attached = TRUE
    /\ flashes = 0 /\ burns = 0

Begin ==
    /\ done /\ ~done'
    /\ burns' = IF call'.op = "Burn" THEN burns + 1 ELSE burns
    /\ attached => attached'
    /\ ~ret'.ok
    /\ UNCHANGED <<store, order, flash, flashes>>

(* The effects a call may still have: until it has succeeded.              *)
Working == ~(done /\ ret.ok)

Commit ==
    /\ Working /\ call.op = "WriteAll"
    /\ order' \in Seq(Param)
    /\ \A a \in Addr :
          IF \E i \in DOMAIN order' : order'[i].addr = a
          THEN \E i \in DOMAIN order' :
                  order'[i] = [addr |-> a, val |-> store'[a]]
          ELSE store'[a] = store[a]
    /\ UNCHANGED <<flash, call, done, ret, attached, flashes, burns>>

Set ==
    /\ Working /\ call.op = "SetParam"
    /\ \E v \in Val : store' = [store EXCEPT ![call.arg] = v]
    /\ UNCHANGED <<order, flash, call, done, ret, attached, flashes, burns>>

Flash ==
    /\ Working /\ call.op = "Burn"
    /\ flashes < burns
    /\ flashes' = flashes + 1
    /\ flash' \in {flash, Live}
    /\ UNCHANGED <<store, order, call, done, ret, attached, burns>>

(* A power loss: the live configuration is the persisted one again.        *)
Restart ==
    /\ store' = flash.store /\ order' = flash.order
    /\ attached' = FALSE
    /\ UNCHANGED <<flash, call, done, ret, flashes, burns>>

End ==
    /\ ~done /\ done'
    /\ ret'.ok /\ attached => Promise(call, ret')
    /\ UNCHANGED <<store, order, flash, call, attached, flashes, burns>>

Next == Begin \/ Commit \/ Set \/ Flash \/ Restart \/ End

Spec == Init /\ [][Next]_vars
=============================================================================
