------------------------------ MODULE DingoSim ------------------------------
(***************************************************************************)
(* One device of fwmodel/model/dingosim.py: a configuration c, the state s *)
(* of its simulation, and Step, one cycle of the device: the received CAN  *)
(* frames are taken in, then every function block is updated, category by  *)
(* category and within a category in slot order, each reading the variable *)
(* map as the blocks before it left it.                                    *)
(*                                                                         *)
(* A variable is <<kind, slot>>.  A configuration is a record of sequences *)
(* of slots; the slots a board has beyond them are disabled and nothing    *)
(* reads them.  A CAN id stands for an identifier and its ide flag, and    *)
(* the data of a frame are the set of its bits that are 1.                 *)
(***************************************************************************)
EXTENDS LogicBlocks, SequencesExt, Dbc

CONSTANTS CycleMs,   \* the length of a cycle in milliseconds
          MaxAge     \* an age at which every time of a configuration is over

ASSUME TimesAreSane == CycleMs \in Nat \ {0} /\ MaxAge \in Nat

AlwaysFalse == <<"sys", 0>>
AlwaysTrue  == <<"sys", 1>>

Slots(kind, seq) == {<<kind, i>> : i \in DOMAIN seq}

VarMap(c) == {AlwaysFalse, AlwaysTrue}
             \cup Slots("digIn", c.inputs)
             \cup Slots("canIn", c.canInputs) \cup Slots("canVal", c.canInputs)
             \cup Slots("virtIn", c.virtualInputs) \cup Slots("output", c.outputs)
             \cup Slots("flasher", c.flashers) \cup Slots("condition", c.conditions)
             \cup Slots("counter", c.counters)

\* the variables that the enabled slots of a configuration read
References(c) ==
  UNION {{c.outputs[i].input : i \in {j \in DOMAIN c.outputs : c.outputs[j].enabled}},
         {c.canOutputs[i].input : i \in {j \in DOMAIN c.canOutputs : c.canOutputs[j].enabled}},
         {c.conditions[i].input : i \in {j \in DOMAIN c.conditions : c.conditions[j].enabled}},
         {c.flashers[i].input : i \in {j \in DOMAIN c.flashers : c.flashers[j].enabled}},
         UNION {{v.var0, v.var1, v.var2} : v \in {w \in Range(c.virtualInputs) : w.enabled}},
         UNION {{k.incInput, k.decInput, k.resetInput} :
                  k \in {w \in Range(c.counters) : w.enabled}}}

\* a configuration with any other reference is refused when it is loaded
Accepted(c) == References(c) \subseteq VarMap(c)

\* the slots of each kind are numbered from 1
Listed(c) ==
  \A slots \in {c.inputs, c.canInputs, c.outputs, c.canOutputs,
               c.virtualInputs, c.flashers, c.counters, c.conditions} :
    slots \in Seq(Range(slots))

\* what load_device makes is a configuration that can run
Runs(c) == Accepted(c) /\ Listed(c)

\* encoding a big-endian signal that runs past the last byte ends the program
Encodable(c) ==
  \A o \in Range(c.canOutputs) :
    o.enabled /\ o.bigEndian => \A k \in Exponents(o) : Place(o, k) \in DataBits

-----------------------------------------------------------------------------
(* The frames the CAN outputs are merged into, one for each id.            *)

Assigned(c) == {i \in DOMAIN c.canOutputs :
                  /\ c.canOutputs[i].enabled
                  /\ c.canOutputs[i].bitLength \in 1..64}
FrameIds(c) == {c.canOutputs[i].id : i \in Assigned(c)}
Members(c, id) == {i \in Assigned(c) : c.canOutputs[i].id = id}
Interval(s) == IF s.interval = 0 THEN 100 ELSE s.interval

(* Mutated form: a merged frame takes the longest interval.               *)
FrameIntervalSlowest(c, id) == Max({Interval(c.canOutputs[i]) : i \in Members(c, id)})

FrameInterval(c, id) == Min({Interval(c.canOutputs[i]) : i \in Members(c, id)})

\* the number of bytes that are sent, which takes no account of the byte order
Dlc(o) == (o.startBit + o.bitLength - 1) \div 8 + 1
FrameDlc(c, id) == Max({Dlc(c.canOutputs[i]) : i \in Members(c, id)})

\* data[id] are the bits of the frame, kept from one transmission to the next,
\* wait[id] is how long it is not yet due, and tx what the last cycle sent
SimInit(c) ==
  [var      |-> [x \in VarMap(c) |-> Value(x = AlwaysTrue)],
   din      |-> [i \in DOMAIN c.inputs |-> DebounceInit],
   dinLatch |-> [i \in DOMAIN c.inputs |-> LatchInit],
   cinAge   |-> [i \in DOMAIN c.canInputs |-> 0],
   cinLatch |-> [i \in DOMAIN c.canInputs |-> LatchInit],
   viLatch  |-> [i \in DOMAIN c.virtualInputs |-> LatchInit],
   flash    |-> [i \in DOMAIN c.flashers |-> FlasherInit],
   count    |-> [i \in DOMAIN c.counters |-> CounterInit],
   sample   |-> [i \in DOMAIN c.canOutputs |-> 0],
   data     |-> [id \in FrameIds(c) |-> {}],
   wait     |-> [id \in FrameIds(c) |-> 0],
   tx       |-> << >>]

-----------------------------------------------------------------------------
(* The blocks of one cycle, in the order in which Step runs them.          *)

(* Mutated form: the search for CAN inputs ends at the first match.       *)
HeardFirst(c, rx) == {i \in DOMAIN c.canInputs :
                        /\ c.canInputs[i].enabled
                        /\ c.canInputs[i].bitLength # 0
                        /\ c.canInputs[i].id \in DOMAIN rx
                        /\ \A j \in 1..(i - 1) : c.canInputs[j].id # c.canInputs[i].id}

\* the CAN inputs that one of the received frames is for
Heard(c, rx) == {i \in DOMAIN c.canInputs :
                   /\ c.canInputs[i].enabled
                   /\ c.canInputs[i].bitLength # 0
                   /\ c.canInputs[i].id \in DOMAIN rx}

Receive(c, s, rx) ==
  LET heard == Heard(c, rx)
      value(i) == DecodeFloat(c.canInputs[i], rx[c.canInputs[i].id])
      result(i) == Compare(c.canInputs[i].operator, value(i), c.canInputs[i].operand)
      latch == [i \in DOMAIN c.canInputs |->
                  IF i \notin heard THEN s.cinLatch[i]
                  ELSE LatchCheck(s.cinLatch[i], c.canInputs[i].mode, FALSE, result(i))]
  IN  [s EXCEPT !.cinAge = [i \in DOMAIN @ |-> IF i \in heard THEN 0 ELSE @[i]],
                !.cinLatch = latch,
                !.var = [x \in DOMAIN @ |->
                  CASE x[1] = "canVal" /\ x[2] \in heard -> value(x[2])
                    [] x[1] = "canIn" /\ x[2] \in heard  -> Value(latch[x[2]].out)
                    [] OTHER                             -> @[x]]]

(* Mutated form: an output that is on never goes off.                    *)
ProfetSticks(c, s, i) ==
  [s EXCEPT !.var[<<"output", i>>] =
     Value(c.outputs[i].enabled /\ (Level(@) \/ Level(s.var[c.outputs[i].input])))]

\* no current is modelled, so an output is on exactly while it is asked to be
Profet(c, s, i) ==
  [s EXCEPT !.var[<<"output", i>>] =
     Value(c.outputs[i].enabled /\ Level(s.var[c.outputs[i].input]))]

DigIn(c, s, i, pin) ==
  LET slot  == c.inputs[i]
      d     == Sampled(s.din[i], pin)
      latch == LatchCheck(s.dinLatch[i], slot.mode, slot.invert, pin)
  IN  IF ~slot.enabled THEN [s EXCEPT !.var[<<"digIn", i>>] = 0]
      ELSE IF MustRead(slot, d)
      THEN [s EXCEPT !.din[i] = Debounced(slot, d), !.dinLatch[i] = latch,
                     !.var[<<"digIn", i>>] = Value(latch.out)]
      ELSE [s EXCEPT !.din[i] = Debounced(slot, d)]

\* a time-out clears what is read of a CAN input, not what its latch remembers
TimedOut(c, s) == {i \in DOMAIN c.canInputs :
                     /\ c.canInputs[i].enabled /\ c.canInputs[i].timeoutEnabled
                     /\ s.cinAge[i] > c.canInputs[i].timeout}

(* Mutated form: the value is cleared, the truth value is not.           *)
CanTimeoutsValueOnly(c, s) ==
  LET out == TimedOut(c, s)
  IN  [s EXCEPT !.var = [x \in DOMAIN @ |->
         IF x[1] = "canVal" /\ x[2] \in out THEN 0 ELSE @[x]]]

CanTimeouts(c, s) ==
  LET out == TimedOut(c, s)
  IN  [s EXCEPT !.var = [x \in DOMAIN @ |->
         IF x[1] \in {"canIn", "canVal"} /\ x[2] \in out THEN 0 ELSE @[x]]]

CanOutputs(c, s) ==
  LET due == {id \in FrameIds(c) : s.wait[id] = 0}
      raw(i) == Raw(c.canOutputs[i], s.var[c.canOutputs[i].input])
      filled(id) == InsertAll([i \in Members(c, id) |-> c.canOutputs[i]],
                              [i \in Members(c, id) |-> raw(i)], s.data[id])
  IN  [s EXCEPT !.sample = [i \in DOMAIN @ |->
                  IF c.canOutputs[i].enabled THEN s.var[c.canOutputs[i].input] ELSE @[i]],
                !.wait = [id \in DOMAIN @ |-> IF id \in due THEN FrameInterval(c, id) ELSE @[id]],
                !.data = [id \in DOMAIN @ |-> IF id \in due THEN filled(id) ELSE @[id]],
                !.tx = [id \in due |-> [dlc |-> FrameDlc(c, id), data |-> filled(id)]]]

VirtIn(c, s, i) ==
  LET slot  == c.virtualInputs[i]
      level == VirtualLevel(slot, Level(s.var[slot.var0]), Level(s.var[slot.var1]),
                            Level(s.var[slot.var2]), slot.var2 = AlwaysFalse)
      latch == LatchCheck(s.viLatch[i], slot.mode, FALSE, level)
  IN  IF ~slot.enabled THEN [s EXCEPT !.var[<<"virtIn", i>>] = 0]
      ELSE [s EXCEPT !.viLatch[i] = latch, !.var[<<"virtIn", i>>] = Value(latch.out)]

Flasher(c, s, i) ==
  LET slot == c.flashers[i]
      r == FlasherUpdate(slot, s.flash[i], s.var[<<"flasher", i>>], Level(s.var[slot.input]))
  IN  IF ~slot.enabled THEN [s EXCEPT !.var[<<"flasher", i>>] = 0]
      ELSE [s EXCEPT !.flash[i] = r.f, !.var[<<"flasher", i>>] = r.v]

Counter(c, s, i) ==
  LET slot == c.counters[i]
      r == CounterUpdate(slot, s.count[i], s.var[<<"counter", i>>],
                         Level(s.var[slot.incInput]), Level(s.var[slot.decInput]),
                         Level(s.var[slot.resetInput]))
  IN  IF ~slot.enabled THEN [s EXCEPT !.var[<<"counter", i>>] = 0]
      ELSE [s EXCEPT !.count[i] = r.k, !.var[<<"counter", i>>] = r.n]

Condition(c, s, i) ==
  LET slot == c.conditions[i]
  IN  [s EXCEPT !.var[<<"condition", i>>] =
         IF slot.enabled THEN ConditionValue(slot.operator, s.var[slot.input], slot.arg) ELSE 0]

\* the clock moves on by one cycle; ages that no setting makes the code read stay 0
Tick(c, s) ==
  LET older(age) == Older(age, CycleMs, MaxAge)
  IN  [s EXCEPT !.din    = [i \in DOMAIN @ |-> [@[i] EXCEPT !.age = older(s.din[i].age)]],
                !.cinAge = [i \in DOMAIN @ |-> IF c.canInputs[i].timeoutEnabled THEN older(@[i]) ELSE 0],
                !.flash  = [i \in DOMAIN @ |-> [on |-> older(@[i].on), off |-> older(@[i].off)]],
                !.count  = [i \in DOMAIN @ |->
                              IF c.counters[i].holdToReset
                              THEN [@[i] EXCEPT !.incAge = older(s.count[i].incAge),
                                                !.decAge = older(s.count[i].decAge)]
                              ELSE @[i]],
                !.wait   = [id \in DOMAIN @ |-> IF @[id] > CycleMs THEN @[id] - CycleMs ELSE 0]]

(* A category of blocks is updated one slot after the other.              *)

SlotsOf(kind, c) ==
  CASE kind = "output"  -> c.outputs       [] kind = "digIn"     -> c.inputs
    [] kind = "virtIn"  -> c.virtualInputs [] kind = "flasher"   -> c.flashers
    [] kind = "counter" -> c.counters      [] kind = "condition" -> c.conditions

Update(kind, c, s, i, pins) ==
  CASE kind = "output"  -> Profet(c, s, i)  [] kind = "digIn"     -> DigIn(c, s, i, pins[i])
    [] kind = "virtIn"  -> VirtIn(c, s, i)  [] kind = "flasher"   -> Flasher(c, s, i)
    [] kind = "counter" -> Counter(c, s, i) [] kind = "condition" -> Condition(c, s, i)

InSlotOrder(kind, c, s, pins) ==
  LET last == Len(SlotsOf(kind, c))
      after[n \in 0..last] == IF n = 0 THEN s ELSE Update(kind, c, after[n - 1], n, pins)
  IN  after[last]

(* Mutated form: the counters are updated before the virtual inputs.     *)
StepCountersFirst(c, s, pins, rx) ==
  LET driven    == InSlotOrder("output", c, Receive(c, s, rx), pins)
      sampled   == CanTimeouts(c, InSlotOrder("digIn", c, driven, pins))
      counted   == InSlotOrder("counter", c, CanOutputs(c, sampled), pins)
      combined  == InSlotOrder("virtIn", c, counted, pins)
      flashed   == InSlotOrder("flasher", c, combined, pins)
  IN  Tick(c, InSlotOrder("condition", c, flashed, pins))

Step(c, s, pins, rx) ==
  LET driven    == InSlotOrder("output", c, Receive(c, s, rx), pins)
      sampled   == CanTimeouts(c, InSlotOrder("digIn", c, driven, pins))
      combined  == InSlotOrder("virtIn", c, CanOutputs(c, sampled), pins)
      flashed   == InSlotOrder("flasher", c, combined, pins)
      counted   == InSlotOrder("counter", c, flashed, pins)
  IN  Tick(c, InSlotOrder("condition", c, counted, pins))

-----------------------------------------------------------------------------
(* What leaves the device: its output pins by number, the sampled          *)
(* variables of its CAN outputs by their place on the bus.  Of two CAN     *)
(* outputs in the same place the one in the higher slot is seen.           *)
Key(o) == <<"can", o.id, o.startBit, o.bitLength>>

Observe(c, s) ==
  LET shown == {i \in DOMAIN c.canOutputs : c.canOutputs[i].enabled}
      seen(p) == Max({i \in shown : Key(c.canOutputs[i]) = p})
  IN  [p \in {<<"out", i>> : i \in DOMAIN c.outputs} \cup {Key(c.canOutputs[i]) : i \in shown} |->
         IF p[1] = "out" THEN s.var[<<"output", p[2]>>] ELSE s.sample[seen(p)]]
=============================================================================
