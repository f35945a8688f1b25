----------------------------- MODULE ParamDevice -----------------------------
(***************************************************************************)
(* The device side of the dingoFW parameter protocol, and the serial link  *)
(* to it.  The firmware itself is not in the repository: the handlers are  *)
(* those of the in-memory device of internal/dingo/fake_test.go, which     *)
(* "reproduces the firmware's param-protocol semantics (count + CRC)".     *)
(*                                                                         *)
(* Unlike the fake, which answers inside Send, the device here takes one   *)
(* command from a FIFO at a time, so the host and the device interleave.   *)
(* The link keeps the order of frames; it may drop a command, lose a reply *)
(* or damage the value of a frame, at most MaxFaults times in all.         *)
(*                                                                         *)
(* A frame is [cmd, arg, val].  arg stands for the two address fields      *)
(* (index, subindex) or for a parameter count; val for the 32-bit value    *)
(* field: the sequence of one parameter value, or a CRC, which is          *)
(* represented by the sequence of values it was computed over (no two      *)
(* value sequences collide).                                               *)
(***************************************************************************)
EXTENDS Integers, Sequences

CONSTANTS
    Addr,        \* parameter addresses, (index << 8) | subindex
    Val,         \* parameter values
    Rejected,    \* the parameters the firmware refuses as out of range
    Damageable,  \* the commands whose value the link may damage
    MaxFaults,   \* bound: drops, losses and damaged values in one behaviour
    MaxResets    \* bound: times the device loses power or is unplugged

Param == [addr : Addr, val : Val]

ASSUME DeviceAssumption ==
    /\ Addr \subseteq Nat /\ Addr # {}
    /\ Val \subseteq Nat /\ {0, 1} \subseteq Val
    /\ Rejected \subseteq Param
    /\ Damageable \subseteq {"Write", "WriteAllVal", "ReadAllRsp"}
    /\ MaxFaults \in Nat /\ MaxResets \in Nat

VARIABLES
    toDev,     \* commands sent on base+1 and not yet handled
    fromDev,   \* replies on base+0 and not yet received
    store,     \* live value of every parameter
    order,     \* the parameters a dump enumerates, in dump order
    staged,    \* parameters of the WriteAll in progress
    flash,     \* what is persisted: [store, order]
    flashes,   \* number of times the flash was written
    attached,  \* the serial port still leads to the device
    faults,    \* link faults so far
    resets     \* power losses so far

linkVars == <<toDev, fromDev>>
liveVars == <<store, order, staged>>
flashVars == <<flash, flashes>>
envVars == <<attached, faults, resets>>
deviceVars == <<linkVars, liveVars, flashVars, envVars>>

-----------------------------------------------------------------------------
Cmds == {"Read", "Write", "ReadAll", "ReadAllRsp", "ReadAllComplete",
         "WriteAll", "WriteAllVal", "WriteAllComplete", "BurnSettings",
         "Version", "Bootloader", "CheckCrc", "CheckCrcRsp"}

(* Frames that carry one parameter's value.                                *)
Valued == {"Write", "WriteAllVal", "ReadAllRsp"}

Frame == {f \in [cmd : Cmds, arg : Nat, val : Seq(Val)] :
             /\ f.cmd \in Valued => Len(f.val) = 1
             /\ f.cmd \in Valued \cup {"Read"} => f.arg \in Addr}

Msg(cmd, arg, val) == [cmd |-> cmd, arg |-> arg, val |-> val]

(* CRC-32 over the values, in order: the addresses are not covered.        *)
CrcOf(list) == [i \in DOMAIN list |-> list[i].val]

(* The live configuration after the list is written over it, in order.     *)
LastFor(list, a) ==
    {i \in DOMAIN list :
        /\ list[i].addr = a
        /\ \A j \in DOMAIN list : list[j].addr = a => j <= i}

Overlay(live, list) ==
    [a \in Addr |->
        IF LastFor(list, a) # {}
        THEN list[CHOOSE i \in LastFor(list, a) : TRUE].val
        ELSE live[a]]

Live == [store |-> store, order |-> order]

-----------------------------------------------------------------------------
DeviceInit ==
    /\ toDev = <<>> /\ fromDev = <<>> /\ staged = <<>>
    /\ store = [a \in Addr |-> 0]
    /\ order = <<>>
    /\ flash = Live
    /\ flashes = 0
    /\ attached = TRUE
    /\ faults = 0 /\ resets = 0

(* The device takes the oldest command off the link.                       *)
Take(cmd) ==
    /\ toDev # <<>>
    /\ Head(toDev).cmd = cmd
    /\ toDev' = Tail(toDev)

Reply(frames) == fromDev' = fromDev \o frames

DevWriteAll ==
    /\ Take("WriteAll")
    /\ staged' = <<>>
    /\ Reply(<<Msg("WriteAll", 0, <<>>)>>)
    /\ UNCHANGED <<store, order, flashVars, envVars>>

(* A refused value is neither staged nor answered.                         *)
DevWriteAllVal ==
    /\ Take("WriteAllVal")
    /\ LET p == [addr |-> Head(toDev).arg, val |-> Head(toDev).val[1]]
       IN  staged' = IF p \in Rejected THEN staged ELSE Append(staged, p)
    /\ UNCHANGED <<fromDev, store, order, flashVars, envVars>>

(* The staged list is committed whatever its length; only the count and    *)
(* the CRC in the reply tell the host.  It stays staged, so handling a     *)
(* resent completion commits it again.                                     *)
DevWriteAllComplete ==
    /\ Take("WriteAllComplete")
    /\ order' = staged
    /\ store' = Overlay(store, staged)
    /\ Reply(<<Msg("WriteAllComplete", Len(staged), CrcOf(staged))>>)
    /\ UNCHANGED <<staged, flashVars, envVars>>

DevWrite ==
    /\ Take("Write")
    /\ LET p == [addr |-> Head(toDev).arg, val |-> Head(toDev).val[1]]
       IN  \/ /\ p \in Rejected
              /\ UNCHANGED <<fromDev, store>>
           \/ /\ p \notin Rejected
              /\ store' = [store EXCEPT ![p.addr] = p.val]
              /\ Reply(<<Msg("Write", p.addr, <<p.val>>)>>)
    /\ UNCHANGED <<order, staged, flashVars, envVars>>

DevRead ==
    /\ Take("Read")
    /\ LET a == Head(toDev).arg IN Reply(<<Msg("Read", a, <<store[a]>>)>>)
    /\ UNCHANGED <<liveVars, flashVars, envVars>>

(* An acknowledgement, every parameter of the dump, the completion marker. *)
DevReadAll ==
    /\ Take("ReadAll")
    /\ LET rsps == [i \in DOMAIN order |->
                       Msg("ReadAllRsp", order[i].addr, <<order[i].val>>)]
       IN  Reply(<<Msg("ReadAll", 0, <<>>)>> \o rsps
                   \o <<Msg("ReadAllComplete", Len(order), CrcOf(order))>>)
    /\ UNCHANGED <<liveVars, flashVars, envVars>>

DevCheckCrc ==
    /\ Take("CheckCrc")
    /\ Reply(<<Msg("CheckCrcRsp", 0, CrcOf(order))>>)
    /\ UNCHANGED <<liveVars, flashVars, envVars>>

(* WriteConfig() either persists the live configuration and answers 1, or  *)
(* fails and answers 0.                                                    *)
DevBurn ==
    /\ Take("BurnSettings")
    /\ \/ /\ flash' = Live
          /\ Reply(<<Msg("BurnSettings", 0, <<1>>)>>)
       \/ /\ UNCHANGED flash
          /\ Reply(<<Msg("BurnSettings", 0, <<0>>)>>)
    /\ flashes' = flashes + 1
    /\ UNCHANGED <<liveVars, envVars>>

(* The version is constant; 0 stands for its encoding.                     *)
DevVersion ==
    /\ Take("Version")
    /\ Reply(<<Msg("Version", 0, <<0>>)>>)
    /\ UNCHANGED <<liveVars, flashVars, envVars>>

(* Power is lost, or the device resets: the live configuration reverts to  *)
(* the flash, commands on the wire vanish and the port is dead.  Replies   *)
(* the host has buffered survive.                                          *)
Detach ==
    /\ attached' = FALSE
    /\ store' = flash.store /\ order' = flash.order /\ staged' = <<>>
    /\ toDev' = <<>>

(* Fire-and-forget: the device resets into the boot loader.                *)
DevBootloader ==
    /\ toDev # <<>> /\ Head(toDev).cmd = "Bootloader"
    /\ Detach
    /\ UNCHANGED <<fromDev, flashVars, faults, resets>>

DeviceStep ==
    \/ DevWriteAll \/ DevWriteAllVal \/ DevWriteAllComplete
    \/ DevWrite \/ DevRead \/ DevReadAll \/ DevCheckCrc
    \/ DevBurn \/ DevVersion \/ DevBootloader

-----------------------------------------------------------------------------
(* The device was busy: a command is lost without processing or reply.     *)
DropCommand ==
    /\ toDev # <<>> /\ faults < MaxFaults
    /\ toDev' = Tail(toDev)
    /\ faults' = faults + 1
    /\ UNCHANGED <<fromDev, liveVars, flashVars, attached, resets>>

LoseReply ==
    /\ fromDev # <<>> /\ faults < MaxFaults
    /\ fromDev' = Tail(fromDev)
    /\ faults' = faults + 1
    /\ UNCHANGED <<toDev, liveVars, flashVars, attached, resets>>

(* The value of a frame changes on the way.  Only transfers the host checks *)
(* are damaged (the CRC of WriteAll and ReadAll, the echo of SetParam): a   *)
(* single Read carries no check.                                            *)
Damaged(frame) == {[frame EXCEPT !.val = <<v>>] : v \in Val} \ {frame}

DamageCommand ==
    /\ toDev # <<>> /\ faults < MaxFaults
    /\ Head(toDev).cmd \in Damageable
    /\ \E frame \in Damaged(Head(toDev)) : toDev' = [toDev EXCEPT ![1] = frame]
    /\ faults' = faults + 1
    /\ UNCHANGED <<fromDev, liveVars, flashVars, attached, resets>>

DamageReply ==
    /\ fromDev # <<>> /\ faults < MaxFaults
    /\ Head(fromDev).cmd \in Damageable \cap {"ReadAllRsp"}
    /\ \E frame \in Damaged(Head(fromDev)) :
          fromDev' = [fromDev EXCEPT ![1] = frame]
    /\ faults' = faults + 1
    /\ UNCHANGED <<toDev, liveVars, flashVars, attached, resets>>

Reset ==
    /\ resets < MaxResets
    /\ Detach
    /\ resets' = resets + 1
    /\ UNCHANGED <<fromDev, flashVars, faults>>

LinkStep == DropCommand \/ LoseReply \/ DamageCommand \/ DamageReply \/ Reset

-----------------------------------------------------------------------------
DeviceTypeOK ==
    /\ toDev \in Seq(Frame) /\ fromDev \in Seq(Frame)
    /\ store \in [Addr -> Val]
    /\ order \in Seq(Param) /\ staged \in Seq(Param)
    /\ flash \in [store : [Addr -> Val], order : Seq(Param)]
    /\ flashes \in Nat
    /\ attached \in BOOLEAN
    /\ faults \in 0..MaxFaults /\ resets \in 0..MaxResets
=============================================================================
