-------------------------- MODULE LogicEngineProofs --------------------------
(***************************************************************************)
(* Theorems about LogicEngine, for every configuration, bus and stimulus,  *)
(* and what EngineRepin promises of the deployed engine configuration, for *)
(* every debounce and time-out, every length of a cycle, whatever else a   *)
(* device may be configured with and whatever its bus carries.  The        *)
(* invariants speak of one slot and the history of its input, and the      *)
(* theorems follow slot by slot from the lemmas about a cycle.             *)
(***************************************************************************)
EXTENDS EngineRepin, DingoSimProofs, SequenceTheorems

-----------------------------------------------------------------------------
(* The device has one of its configurations and the state for it.          *)

EngineShape == cfg \in Configs /\ Shape(cfg, sim)

\* Every configuration of the device is one that the lemmas about a cycle speak of.
LEMMA ConfigsRun == \A c \in Configs : Runs(c)
BY ConfigsAccepted, ConfigsTyped DEF Runs

\* At power-on.
LEMMA InitShape == Init => EngineShape
BY DEF Init, EngineShape, Shape, SimInit, Fields

\* In every cycle.
LEMMA NextShape == EngineShape /\ [Next]_vars => EngineShape'
<1> SUFFICES ASSUME EngineShape, [Next]_vars PROVE EngineShape'
  OBVIOUS
<1>1. CASE Next
  BY <1>1, ConfigsRun, StepShape DEF Next, Cycle, EngineShape
<1>2. CASE UNCHANGED vars
  BY <1>2 DEF vars, EngineShape
<1> QED BY <1>1, <1>2

\* Always.
LEMMA ShapeAlways == Spec => []EngineShape
BY InitShape, NextShape, PTL DEF Spec

-----------------------------------------------------------------------------
(* Counters.                                                               *)

\* An update of a counter whose limits are in order keeps it in range.
LEMMA CountStays ==
  ASSUME NEW slot, slot.minCount \in Nat, slot.maxCount \in Nat, slot.minCount <= slot.maxCount,
         NEW k, NEW n \in 0..slot.maxCount, NEW inc, NEW dec, NEW reset
  PROVE  CounterUpdate(slot, k, n, inc, dec, reset).n \in 0..slot.maxCount
<1> DEFINE up == Edge(slot.incEdge, k.inc, inc)
           down == Edge(slot.decEdge, k.dec, dec)
           n1 == IF up THEN CountUp(slot, n) ELSE n
<1>1. CountUp(slot, n) \in 0..slot.maxCount
  BY DEF CountUp
<1>2. \A m \in 0..slot.maxCount : CountDown(slot, m) \in 0..slot.maxCount
  BY DEF CountDown
<1>3. Counted(slot, k, n, inc, dec, reset).n = IF down THEN CountDown(slot, n1) ELSE n1
  BY DEF Counted
<1> QED BY <1>1, <1>2, <1>3 DEF CounterUpdate

\* The counters start in range.
LEMMA InitCounts == Init => CountersInRange
<1> SUFFICES ASSUME Init, NEW i \in DOMAIN cfg.counters PROVE sim.var[<<"counter", i>>] = 0
  BY ConfigsTyped DEF Init, CountersInRange
<1>1. <<"counter", i>> \in VarMap(cfg) /\ <<"counter", i>> # AlwaysTrue
  BY DEF VarMap, Slots, AlwaysTrue
<1> QED BY <1>1 DEF Init, SimInit, Value

\* And no cycle takes one out of it.
LEMMA NextCounts == EngineShape /\ CountersInRange /\ [Next]_vars => CountersInRange'
<1> SUFFICES ASSUME EngineShape, CountersInRange, [Next]_vars PROVE CountersInRange'
  OBVIOUS
<1>1. CASE UNCHANGED vars
  BY <1>1 DEF vars, CountersInRange
<1>2. CASE Next
  <2>1. PICK pins, rx : Cycle(pins, rx)
    BY <1>2 DEF Next
  <2>2. cfg' = cfg /\ sim' = Step(cfg, sim, pins, rx) /\ cfg \in Configs /\ Shape(cfg, sim)
    BY <2>1 DEF Cycle, EngineShape
  <2>3. ASSUME NEW i \in DOMAIN cfg.counters, cfg.counters[i].minCount <= cfg.counters[i].maxCount
        PROVE  sim'.var[<<"counter", i>>] \in 0..cfg.counters[i].maxCount
    <3> DEFINE slot == cfg.counters[i]
               x == <<"counter", i>>
    <3>1. sim.var[x] \in 0..slot.maxCount /\ slot.minCount \in Nat /\ slot.maxCount \in Nat
      BY <2>2, <2>3, ConfigsTyped DEF CountersInRange
    <3>2. PICK r : /\ Shape(cfg, r) /\ r.var[x] = sim.var[x]
                   /\ Step(cfg, sim, pins, rx).var[x] = Counter(cfg, r, i).var[x]
      BY <2>2, ConfigsRun, CycleCounter
    <3>3. x \in VarMap(cfg)
      BY DEF VarMap, Slots
    <3> DEFINE n == CounterUpdate(slot, r.count[i], r.var[x], Level(r.var[slot.incInput]),
                                  Level(r.var[slot.decInput]), Level(r.var[slot.resetInput])).n
    <3>4. Counter(cfg, r, i).var[x] = IF slot.enabled THEN n ELSE 0
      BY <3>2, <3>3 DEF Counter, Shape, Fields
    <3>5. n \in 0..slot.maxCount
      BY <2>3, <3>1, <3>2, CountStays
    <3> HIDE DEF n, x, slot
    <3>6. Step(cfg, sim, pins, rx).var[x] \in 0..slot.maxCount
      BY <3>1, <3>2, <3>4, <3>5
    <3> QED BY <2>2, <3>6 DEF x, slot
  <2> QED BY <2>2, <2>3 DEF CountersInRange
<1> QED BY <1>1, <1>2

\* CountersInRange holds for every configuration: a counter whose minCount is not
\* above its maxCount never leaves 0..maxCount (_counter).
THEOREM CountersStayInRange == Spec => []CountersInRange
<1>1. Init => CountersInRange
  BY InitCounts
<1>2. EngineShape /\ CountersInRange /\ [Next]_vars => CountersInRange'
  BY NextCounts
<1> QED BY <1>1, <1>2, ShapeAlways, PTL DEF Spec

-----------------------------------------------------------------------------
(* Outputs.                                                                *)

\* OutputsLagLogic holds for every configuration: an output that does not read a
\* CAN input or an output shows, from the second cycle on, what its input was when
\* the cycle began (step(), which drives the outputs first).
THEOREM OutputsAreACycleLate == Spec => OutputsLagLogic
<1> DEFINE Lags == \A i \in DOMAIN cfg.outputs :
                     LET from == cfg.outputs[i].input
                     IN  (/\ seen.booted
                          /\ cfg.outputs[i].enabled /\ from[1] \notin {"canIn", "canVal", "output"})
                           => sim'.var[<<"output", i>>] = Value(Level(sim.var[from]))
<1>1. EngineShape /\ Next => Lags
  <2> SUFFICES ASSUME EngineShape, Next PROVE Lags
    OBVIOUS
  <2>1. PICK pins, rx : Cycle(pins, rx)
    BY DEF Next
  <2>2. sim' = Step(cfg, sim, pins, rx) /\ cfg \in Configs /\ Shape(cfg, sim)
    BY <2>1 DEF Cycle, EngineShape
  <2> QED BY <2>2, ConfigsRun, CycleLag
<1>2. EngineShape /\ [Next]_vars => [Lags]_vars
  BY <1>1
<1> QED BY <1>2, ShapeAlways, PTL DEF Spec, OutputsLagLogic

-----------------------------------------------------------------------------
(* Digital inputs.                                                         *)

DebounceT == [last : BOOLEAN, check : BOOLEAN, init : BOOLEAN, age : AgeT]

\* What holds of a digital input and the history of its pin: it knows the level the
\* pin had; while a change waits to be read, its age is how long the pin has been
\* stable, which is not long enough; a momentary input has no other memory than the
\* level it last read, and shows that level.
DigitalSlot(slot, d, l, v, pin, stable, booted) ==
  /\ pin \in BOOLEAN /\ booted \in BOOLEAN /\ stable \in Int
  /\ d \in DebounceT /\ l \in LatchT
  /\ ~slot.enabled => v = 0
  /\ slot.enabled =>
       /\ ~booted => ~d.init /\ ~d.check /\ ~d.last /\ ~pin
       /\ booted => d.init /\ d.last = pin
       /\ d.check => d.age = Older(stable, CycleMs, MaxAge) /\ stable <= slot.debounceTime
       /\ slot.mode = "momentary" => l.out = l.last
       /\ slot.mode = "momentary" /\ booted /\ ~d.check => v = Value(pin # slot.invert)

DigitalInv ==
  \A i \in DOMAIN cfg.inputs :
    DigitalSlot(cfg.inputs[i], sim.din[i], sim.dinLatch[i], sim.var[<<"digIn", i>>],
                seen.pins[i], seen.stable[i], seen.booted)

\* a debouncing one cycle later
Aged(d) == [d EXCEPT !.age = Older(@, CycleMs, MaxAge)]

\* A momentary latch that has no other memory than the last level shows the new one.
LEMMA LatchShows ==
  ASSUME NEW l \in LatchT, NEW mode, NEW invert, NEW level
  PROVE  LET m == LatchCheck(l, mode, invert, level)
         IN  /\ m \in LatchT
             /\ mode = "momentary" /\ l.out = l.last =>
                  m.last = (level # invert) /\ m.out = (level # invert)
<1> DEFINE now == level # invert
<1>1. now \in BOOLEAN
  OBVIOUS
<1> HIDE DEF now
<1>2. [last |-> now, out |-> CASE now = l.last -> l.out
                               [] now # l.last /\ mode = "momentary" -> now
                               [] OTHER -> l.out # now] \in LatchT
  BY <1>1 DEF LatchT
<1> QED BY <1>1, <1>2 DEF LatchCheck, now

\* Ages are never negative and never above their limit.
LEMMA OlderType ==
  ASSUME NEW age \in Int
  PROVE  /\ Older(age, CycleMs, MaxAge) \in Int
         /\ age >= -CycleMs => Older(age, CycleMs, MaxAge) \in AgeT
BY TimesAreSane DEF Older, AgeT

\* what is known of a truth value, as facts that the lemma can be given
IsLevel(b) == b \in BOOLEAN
IsOn(b) == b = TRUE

\* One cycle of an enabled input, from the level of its pin to what it shows.
LEMMA DigitalStep ==
  ASSUME NEW slot, slot.enabled, slot.debounceTime \in Nat,
         NEW d, NEW l, NEW v, NEW was, NEW stable, NEW booted,
         DigitalSlot(slot, d, l, v, was, stable, booted),
         NEW pin, IsLevel(pin), NEW booted1, IsOn(booted1)
  PROVE  LET d1      == Sampled(d, pin)
             latch   == LatchCheck(l, slot.mode, slot.invert, pin)
             l1      == IF MustRead(slot, d1) THEN latch ELSE l
             v1      == IF MustRead(slot, d1) THEN Value(latch.out) ELSE v
             stable1 == IF pin = was THEN Older(stable, CycleMs, MaxAge) ELSE 0
         IN  /\ DigitalSlot(slot, Aged(Debounced(slot, d1)), l1, v1, pin, stable1, booted1)
             /\ v1 # v => stable1 > slot.debounceTime \/ ~booted
<1> DEFINE older(age) == Older(age, CycleMs, MaxAge)
           d1      == Sampled(d, pin)
           reads   == MustRead(slot, d1)
           latch   == LatchCheck(l, slot.mode, slot.invert, pin)
           d2      == Aged(Debounced(slot, d1))
           l1      == IF reads THEN latch ELSE l
           v1      == IF reads THEN Value(latch.out) ELSE v
           stable1 == IF pin = was THEN Older(stable, CycleMs, MaxAge) ELSE 0
<1>0. pin \in BOOLEAN /\ booted1 \in BOOLEAN /\ booted1
  BY DEF IsLevel, IsOn
<1>1. /\ was \in BOOLEAN /\ booted \in BOOLEAN /\ stable \in Int
      /\ d \in DebounceT /\ l \in LatchT
      /\ ~booted => ~d.init /\ ~d.check /\ ~d.last /\ ~was
      /\ booted => d.init /\ d.last = was
      /\ d.check => d.age = older(stable) /\ stable <= slot.debounceTime
      /\ slot.mode = "momentary" => l.out = l.last
      /\ slot.mode = "momentary" /\ booted /\ ~d.check => v = Value(was # slot.invert)
  BY DEF DigitalSlot
<1>2. d.last = was
  BY <1>1 DEF DebounceT
<1>3. stable1 \in Int /\ 0 \in AgeT
  BY <1>1, OlderType, TimesAreSane DEF AgeT
<1>4. /\ d1 \in DebounceT /\ d1.last = pin /\ d1.init = d.init
      /\ d1.check <=> d.check \/ pin # was
      /\ d1.check => d1.age = stable1
  <2>1. CASE pin = was
    BY <1>0, <1>1, <1>2, <2>1 DEF Sampled, DebounceT
  <2>2. CASE pin # was
    BY <1>0, <1>1, <1>2, <1>3, <2>2 DEF Sampled, DebounceT
  <2> QED BY <2>1, <2>2
<1>5. reads <=> (d1.check /\ stable1 > slot.debounceTime) \/ ~booted
  BY <1>1, <1>4 DEF MustRead, DebounceT
<1>6. /\ d2 \in DebounceT /\ d2.last = pin /\ d2.init
      /\ d2.check <=> d1.check /\ ~reads
      /\ d2.age = older(d1.age)
  <2>1. d1.age \in AgeT /\ d1.age >= -CycleMs /\ d1.age \in Int
    BY <1>4, TimesAreSane DEF DebounceT, AgeT
  <2>2. older(d1.age) \in AgeT
    BY <2>1, OlderType
  <2> HIDE DEF older
  <2>3. d2 = [d1 EXCEPT !.check = d1.check /\ ~reads, !.init = TRUE, !.age = older(d1.age)]
    BY <1>4 DEF Debounced, DebounceT, older, Aged
  <2> QED BY <1>4, <2>2, <2>3 DEF DebounceT
<1>7. d2.check => d2.age = older(stable1) /\ stable1 <= slot.debounceTime
  BY <1>3, <1>4, <1>5, <1>6
<1>8. l1 \in LatchT /\ (slot.mode = "momentary" => l1.out = l1.last)
  <2>1. /\ latch \in LatchT
        /\ slot.mode = "momentary" /\ l.out = l.last => latch.out = latch.last
    BY <1>1, LatchShows
  <2>2. l1 = latch \/ l1 = l
    OBVIOUS
  <2> HIDE DEF latch
  <2> QED BY <1>1, <2>1, <2>2
<1>9. slot.mode = "momentary" /\ reads => v1 = Value(pin # slot.invert)
  <2> SUFFICES ASSUME slot.mode = "momentary", reads PROVE v1 = Value(pin # slot.invert)
    OBVIOUS
  <2> DEFINE now == pin # slot.invert
  <2>1. LatchCheck(l, slot.mode, slot.invert, pin).out = now
    BY <1>1, LatchShows
  <2> QED BY <2>1
<1>10. slot.mode = "momentary" /\ ~d2.check => v1 = Value(pin # slot.invert)
  <2>1. CASE reads
    BY <1>9, <2>1
  <2>2. CASE ~reads
    BY <1>1, <1>4, <1>5, <1>6, <2>2
  <2> QED BY <2>1, <2>2
<1>11. DigitalSlot(slot, d2, l1, v1, pin, stable1, booted1)
  BY <1>0, <1>3, <1>6, <1>7, <1>8, <1>10 DEF DigitalSlot
<1>12. v1 # v => stable1 > slot.debounceTime \/ ~booted
  BY <1>5
<1> QED BY <1>11, <1>12

\* At power-on the history and the inputs say the same.
LEMMA InitDigital == Init => DigitalInv
<1> SUFFICES ASSUME Init, NEW i \in DOMAIN cfg.inputs
             PROVE  DigitalSlot(cfg.inputs[i], sim.din[i], sim.dinLatch[i], sim.var[<<"digIn", i>>],
                                seen.pins[i], seen.stable[i], seen.booted)
  BY DEF DigitalInv
<1>1. <<"digIn", i>> \in VarMap(cfg) /\ <<"digIn", i>> # AlwaysTrue
  BY DEF VarMap, Slots, AlwaysTrue
<1>2. sim.var[<<"digIn", i>>] = 0
  BY <1>1 DEF Init, SimInit, Value
<1>3. sim.din[i] = DebounceInit /\ sim.dinLatch[i] = LatchInit
  BY DEF Init, SimInit
<1>4. seen.pins[i] = FALSE /\ seen.stable[i] = -CycleMs /\ seen.booted = FALSE
  BY DEF Init, SeenInit
<1>5. DebounceInit \in DebounceT /\ LatchInit \in LatchT /\ -CycleMs \in Int
  BY TimesAreSane DEF DebounceInit, LatchInit, DebounceT, LatchT, AgeT
<1>6. DigitalSlot(cfg.inputs[i], DebounceInit, LatchInit, 0, FALSE, -CycleMs, FALSE)
  BY <1>5 DEF DigitalSlot, DebounceInit, LatchInit
<1> QED BY <1>2, <1>3, <1>4, <1>6

\* A cycle keeps a digital input in step with the history of its pin, and changes
\* what it shows only when the pin has been stable for long enough.
LEMMA CycleDigital ==
  ASSUME EngineShape, DigitalInv, Next, NEW i \in DOMAIN cfg.inputs
  PROVE  /\ cfg' = cfg
         /\ DigitalSlot(cfg.inputs[i], sim'.din[i], sim'.dinLatch[i], sim'.var[<<"digIn", i>>],
                        seen'.pins[i], seen'.stable[i], seen'.booted)
         /\ sim'.var[<<"digIn", i>>] # sim.var[<<"digIn", i>>]
              => seen'.stable[i] > cfg.inputs[i].debounceTime \/ ~seen.booted
<1> DEFINE slot == cfg.inputs[i]
           x == <<"digIn", i>>
<1>1. PICK pins, rx : pins \in [DOMAIN cfg.inputs -> BOOLEAN] /\ Cycle(pins, rx)
  BY DEF Next
<1> DEFINE t == Step(cfg, sim, pins, rx)
<1>2. /\ cfg' = cfg /\ cfg \in Configs /\ Shape(cfg, sim) /\ pins[i] \in BOOLEAN
      /\ sim' = t
  BY <1>1 DEF Cycle, EngineShape
<1>3. /\ seen'.pins[i] = pins[i] /\ seen'.booted = TRUE
      /\ seen'.stable[i] = IF pins[i] = seen.pins[i] THEN Older(seen.stable[i], CycleMs, MaxAge) ELSE 0
  BY <1>1 DEF Cycle, See
<1>4. /\ slot.debounceTime \in Nat
      /\ DigitalSlot(slot, sim.din[i], sim.dinLatch[i], sim.var[x], seen.pins[i], seen.stable[i],
                     seen.booted)
  BY <1>2, ConfigsTyped DEF DigitalInv
<1>5. PICK r : /\ Shape(cfg, r) /\ r.var[x] = sim.var[x]
               /\ r.din[i] = sim.din[i] /\ r.dinLatch[i] = sim.dinLatch[i]
               /\ t.var[x] = DigIn(cfg, r, i, pins[i]).var[x]
               /\ t.dinLatch[i] = DigIn(cfg, r, i, pins[i]).dinLatch[i]
               /\ t.din[i] = [DigIn(cfg, r, i, pins[i]).din[i] EXCEPT !.age = Older(@, CycleMs, MaxAge)]
  BY <1>2, ConfigsRun, CycleDigIn
<1> DEFINE d1 == Sampled(sim.din[i], pins[i])
           latch == LatchCheck(sim.dinLatch[i], slot.mode, slot.invert, pins[i])
<1>6. /\ ~slot.enabled => /\ t.var[x] = 0 /\ t.dinLatch[i] = sim.dinLatch[i]
                          /\ t.din[i] = [sim.din[i] EXCEPT !.age = Older(@, CycleMs, MaxAge)]
      /\ slot.enabled =>
           /\ t.din[i] = Aged(Debounced(slot, d1))
           /\ MustRead(slot, d1) => t.dinLatch[i] = latch /\ t.var[x] = Value(latch.out)
           /\ ~MustRead(slot, d1) => t.dinLatch[i] = sim.dinLatch[i] /\ t.var[x] = sim.var[x]
  <2> HIDE DEF t
  <2> QED BY <1>5, DigInParts DEF Aged
<1> HIDE DEF t, x
<1>7. CASE slot.enabled
  <2> DEFINE d == sim.din[i]
             l == sim.dinLatch[i]
             pin == pins[i]
             shown == LatchCheck(l, slot.mode, slot.invert, pin)
             reads == MustRead(slot, Sampled(d, pin))
             l1 == IF reads THEN shown ELSE l
             v1 == IF reads THEN Value(shown.out) ELSE sim.var[x]
             stable1 == IF pin = seen.pins[i] THEN Older(seen.stable[i], CycleMs, MaxAge) ELSE 0
             booted1 == seen'.booted
  <2>1. /\ slot.enabled /\ slot.debounceTime \in Nat /\ pin \in BOOLEAN
        /\ IsLevel(pin) /\ IsOn(booted1)
    BY <1>2, <1>3, <1>4, <1>7 DEF IsLevel, IsOn
  <2>2. /\ DigitalSlot(slot, Aged(Debounced(slot, Sampled(d, pin))), l1, v1, pin, stable1, booted1)
        /\ v1 # sim.var[x] => stable1 > slot.debounceTime \/ ~seen.booted
    <3> HIDE DEF slot, d, l, pin, booted1
    <3> QED BY <1>4, <2>1, DigitalStep DEF d, l
  <2>3. /\ t.din[i] = Aged(Debounced(slot, Sampled(d, pin)))
        /\ t.dinLatch[i] = l1 /\ t.var[x] = v1 /\ seen'.stable[i] = stable1
        /\ seen'.pins[i] = pin
    BY <1>3, <1>6, <1>7
  <2> HIDE DEF slot, d, l, pin, l1, v1, stable1
  <2>4. /\ DigitalSlot(slot, t.din[i], t.dinLatch[i], t.var[x], seen'.pins[i], seen'.stable[i], booted1)
        /\ t.var[x] # sim.var[x] => seen'.stable[i] > slot.debounceTime \/ ~seen.booted
    BY <2>2, <2>3
  <2> QED BY <1>2, <2>4 DEF slot, x
<1>8. CASE ~slot.enabled
  <2>1. sim.din[i] \in DebounceT /\ sim.dinLatch[i] \in LatchT /\ sim.var[x] = 0 /\ seen.stable[i] \in Int
    BY <1>4, <1>8 DEF DigitalSlot
  <2>2. sim.din[i].age \in Int /\ sim.din[i].age >= -CycleMs
    BY <2>1, TimesAreSane DEF DebounceT, AgeT
  <2>3. Older(sim.din[i].age, CycleMs, MaxAge) \in AgeT
    BY <2>2, OlderType
  <2>4. t.din[i] \in DebounceT
    BY <1>6, <1>8, <2>1, <2>3 DEF DebounceT
  <2>5. seen'.stable[i] \in Int
    BY <1>3, <2>1, OlderType
  <2>6. DigitalSlot(slot, t.din[i], t.dinLatch[i], t.var[x], seen'.pins[i], seen'.stable[i], seen'.booted)
    BY <1>2, <1>3, <1>6, <1>8, <2>1, <2>4, <2>5 DEF DigitalSlot
  <2> QED BY <1>2, <1>3, <1>6, <1>8, <2>1, <2>6 DEF x
<1> QED BY <1>7, <1>8

\* The invariant of the digital inputs is inductive.
LEMMA NextDigital == EngineShape /\ DigitalInv /\ [Next]_vars => DigitalInv'
<1> SUFFICES ASSUME EngineShape, DigitalInv, [Next]_vars PROVE DigitalInv'
  OBVIOUS
<1>1. CASE Next
  <2>1. cfg' = cfg
    BY <1>1 DEF Next, Cycle
  <2>2. ASSUME NEW i \in DOMAIN cfg.inputs
        PROVE  DigitalSlot(cfg.inputs[i], sim'.din[i], sim'.dinLatch[i], sim'.var[<<"digIn", i>>],
                           seen'.pins[i], seen'.stable[i], seen'.booted)
    BY <1>1, CycleDigital
  <2> QED BY <2>1, <2>2 DEF DigitalInv
<1>2. CASE UNCHANGED vars
  BY <1>2 DEF vars, DigitalInv
<1> QED BY <1>1, <1>2

\* It holds always.
LEMMA DigitalAlways == Spec => [](EngineShape /\ DigitalInv)
BY InitShape, NextShape, InitDigital, NextDigital, PTL DEF Spec

\* StablePinsRead holds for every configuration: a momentary input whose pin has kept
\* its level for longer than debounceTime shows that level (_digin).
THEOREM StablePinsAreRead == Spec => []StablePinsRead
<1>1. EngineShape /\ DigitalInv => StablePinsRead
  <2> SUFFICES ASSUME EngineShape, DigitalInv, NEW i \in DOMAIN cfg.inputs,
                      cfg.inputs[i].enabled, cfg.inputs[i].mode = "momentary",
                      seen.booted, seen.stable[i] > cfg.inputs[i].debounceTime
               PROVE  sim.var[<<"digIn", i>>] = Value(seen.pins[i] # cfg.inputs[i].invert)
    BY DEF StablePinsRead
  <2> DEFINE slot == cfg.inputs[i]
             d == sim.din[i]
  <2>1. DigitalSlot(slot, d, sim.dinLatch[i], sim.var[<<"digIn", i>>],
                    seen.pins[i], seen.stable[i], seen.booted)
    BY DEF DigitalInv
  <2> HIDE DEF d
  <2>2. seen.stable[i] \in Int /\ slot.debounceTime \in Nat
    BY <2>1, ConfigsTyped DEF DigitalSlot, EngineShape
  <2>3. ~(seen.stable[i] <= slot.debounceTime)
    BY <2>2
  <2> QED BY <2>1, <2>3 DEF DigitalSlot
<1> QED BY <1>1, DigitalAlways, PTL

\* BouncesFiltered holds for every configuration: what is read of a digital input
\* changes only after its pin has kept its level for longer than debounceTime, or in
\* the first cycle (_digin).
THEOREM BouncesAreFiltered == Spec => BouncesFiltered
<1> DEFINE Filtered == \A i \in DOMAIN cfg.inputs :
                         sim'.var[<<"digIn", i>>] # sim.var[<<"digIn", i>>]
                           => seen'.stable[i] > cfg.inputs[i].debounceTime \/ ~seen.booted
<1>1. EngineShape /\ DigitalInv /\ Next => Filtered
  BY CycleDigital
<1>2. EngineShape /\ DigitalInv /\ [Next]_vars => [Filtered]_vars
  BY <1>1
<1> QED BY <1>2, DigitalAlways, PTL DEF Spec, BouncesFiltered
-----------------------------------------------------------------------------
(* CAN inputs.                                                             *)

\* What is known of a CAN input's last frame.
Known(slot, silence, carried) ==
  carried # << >> /\ ~(slot.timeoutEnabled /\ silence > slot.timeout)

\* What holds of a CAN input that is read and the history of its id: its age is how
\* long the bus has been silent; it shows the last frame while that is known; a
\* momentary input has no other memory than the level it last saw.
CanInSlot(slot, l, age, v, x, silence, carried) ==
  LET value == DecodeFloat(slot, carried[1])
      known == Known(slot, silence, carried)
  IN  /\ silence \in Int /\ silence >= -CycleMs /\ silence <= MaxAge
      /\ slot.timeoutEnabled => age = Older(silence, CycleMs, MaxAge)
      /\ l \in LatchT
      /\ slot.mode = "momentary" => l.out = l.last
      /\ v = IF known THEN value ELSE 0
      /\ slot.mode = "momentary" =>
           x = IF known /\ Compare(slot.operator, value, slot.operand) THEN 1 ELSE 0

IsRead(slot) == slot.enabled /\ slot.bitLength # 0

CanInInv ==
  \A i \in DOMAIN cfg.canInputs :
    IsRead(cfg.canInputs[i]) =>
      CanInSlot(cfg.canInputs[i], sim.cinLatch[i], sim.cinAge[i], sim.var[<<"canVal", i>>],
                sim.var[<<"canIn", i>>], seen.silence[cfg.canInputs[i].id],
                seen.carried[cfg.canInputs[i].id])

\* A CAN input that hears nothing goes on as it was until it times out.
LEMMA CanInWaits ==
  ASSUME NEW slot, slot.timeout \in Nat, NEW l, NEW age, NEW v, NEW x, NEW silence, NEW carried,
         CanInSlot(slot, l, age, v, x, silence, carried)
  PROVE  LET out == slot.timeoutEnabled /\ age > slot.timeout
         IN  CanInSlot(slot, l, IF slot.timeoutEnabled THEN Older(age, CycleMs, MaxAge) ELSE 0,
                       IF out THEN 0 ELSE v, IF out THEN 0 ELSE x,
                       Older(silence, CycleMs, MaxAge), carried)
<1> DEFINE silence1 == Older(silence, CycleMs, MaxAge)
           out == slot.timeoutEnabled /\ age > slot.timeout
           value == DecodeFloat(slot, carried[1])
           result == Compare(slot.operator, value, slot.operand)
<1>1. /\ silence \in Int /\ silence >= -CycleMs /\ silence <= MaxAge
      /\ slot.timeoutEnabled => age = silence1
      /\ l \in LatchT /\ (slot.mode = "momentary" => l.out = l.last)
      /\ v = IF Known(slot, silence, carried) THEN value ELSE 0
      /\ slot.mode = "momentary" => x = IF Known(slot, silence, carried) /\ result THEN 1 ELSE 0
  BY DEF CanInSlot
<1>2. silence1 \in Int /\ silence1 >= -CycleMs /\ silence1 <= MaxAge /\ silence <= silence1
  BY <1>1, TimesAreSane DEF Older
<1> HIDE DEF silence1, value, result
<1>3. CASE out
  <2>1. ~Known(slot, silence1, carried)
    BY <1>1, <1>3 DEF Known
  <2> QED BY <1>1, <1>2, <1>3, <2>1 DEF CanInSlot, silence1
<1>4. CASE ~out
  <2>1. Known(slot, silence1, carried) <=> Known(slot, silence, carried)
    BY <1>1, <1>2, <1>4 DEF Known
  <2> QED BY <1>1, <1>2, <1>4, <2>1 DEF CanInSlot, silence1, value, result
<1> QED BY <1>3, <1>4

\* A comparison is a truth value.
LEMMA CompareIsLevel ==
  ASSUME NEW op \in Operators, NEW a, NEW b
  PROVE  Compare(op, a, b) \in BOOLEAN
<1>1. Compare("eq", a, b) \in BOOLEAN /\ Compare("ne", a, b) \in BOOLEAN
  BY DEF Compare
<1>2. Compare("gt", a, b) \in BOOLEAN /\ Compare("lt", a, b) \in BOOLEAN
  BY DEF Compare
<1>3. Compare("ge", a, b) \in BOOLEAN /\ Compare("le", a, b) \in BOOLEAN
  BY DEF Compare
<1>4. Compare("bitand", a, b) \in BOOLEAN /\ Compare("bitnand", a, b) \in BOOLEAN
  BY DEF Compare, SharesBit
<1> QED BY <1>1, <1>2, <1>3, <1>4 DEF Operators

\* A CAN input that hears a frame shows it, whatever it showed before.
LEMMA CanInHears ==
  ASSUME NEW slot, slot.timeout \in Nat, slot.operator \in Operators,
         NEW l \in LatchT, slot.mode = "momentary" => l.out = l.last, NEW data
  PROVE  LET latch == CanLatch(slot, l, data)
         IN  CanInSlot(slot, latch, IF slot.timeoutEnabled THEN Older(0, CycleMs, MaxAge) ELSE 0,
                       DecodeFloat(slot, data), Value(latch.out), 0, <<data>>)
<1> DEFINE value == DecodeFloat(slot, data)
           result == Compare(slot.operator, value, slot.operand)
           latch == CanLatch(slot, l, data)
<1>1. result \in BOOLEAN
  BY CompareIsLevel
<1>2. /\ Known(slot, 0, <<data>>) /\ value = DecodeFloat(slot, <<data>>[1])
      /\ result = Compare(slot.operator, value, slot.operand)
  BY DEF Known
<1> HIDE DEF result, value
<1>3. /\ latch \in LatchT
      /\ slot.mode = "momentary" => latch.last = result /\ latch.out = result
  BY <1>1 DEF CanLatch, LatchCheck, LatchT, result, value
<1> HIDE DEF latch
<1>4. slot.mode = "momentary" => latch.out = latch.last
  BY <1>3
<1>5. slot.mode = "momentary" => Value(latch.out) = IF result THEN 1 ELSE 0
  BY <1>3 DEF Value
<1>6. 0 \in Int /\ 0 >= -CycleMs /\ 0 <= MaxAge
  BY TimesAreSane
<1> DEFINE age == IF slot.timeoutEnabled THEN Older(0, CycleMs, MaxAge) ELSE 0
           x == Value(latch.out)
<1>7. slot.timeoutEnabled => age = Older(0, CycleMs, MaxAge)
  OBVIOUS
<1> HIDE DEF age, x
<1>8. CanInSlot(slot, latch, age, value, x, 0, <<data>>)
  BY <1>2, <1>3, <1>4, <1>5, <1>6, <1>7 DEF CanInSlot, x
<1> QED BY <1>8 DEF value, result, latch, age, x


\* At power-on nothing was heard.
LEMMA InitCanIn == Init => CanInInv
<1> SUFFICES ASSUME Init, NEW i \in DOMAIN cfg.canInputs
             PROVE  LET id == cfg.canInputs[i].id
                    IN  CanInSlot(cfg.canInputs[i], sim.cinLatch[i], sim.cinAge[i],
                                  sim.var[<<"canVal", i>>], sim.var[<<"canIn", i>>],
                                  seen.silence[id], seen.carried[id])
  BY DEF CanInInv
<1> DEFINE slot == cfg.canInputs[i]
<1>1. slot.id \in DOMAIN Bus(cfg)
  BY ConfigsTyped DEF Init
<1>2. seen.silence[slot.id] = -CycleMs /\ seen.carried[slot.id] = << >>
  BY <1>1 DEF Init, SeenInit
<1>3. sim.cinLatch[i] = LatchInit /\ sim.cinAge[i] = 0
  BY DEF Init, SimInit
<1>4. sim.var[<<"canVal", i>>] = 0 /\ sim.var[<<"canIn", i>>] = 0
  <2>1. /\ <<"canVal", i>> \in VarMap(cfg) /\ <<"canVal", i>> # AlwaysTrue
        /\ <<"canIn", i>> \in VarMap(cfg) /\ <<"canIn", i>> # AlwaysTrue
    BY DEF VarMap, Slots, AlwaysTrue
  <2> QED BY <2>1 DEF Init, SimInit, Value
<1>5. Older(-CycleMs, CycleMs, MaxAge) = 0 /\ -CycleMs \in Int /\ -CycleMs <= MaxAge
  BY TimesAreSane DEF Older
<1>6. LatchInit \in LatchT /\ LatchInit.out = LatchInit.last
  BY DEF LatchInit, LatchT
<1> HIDE DEF slot
<1>7. CanInSlot(slot, LatchInit, 0, 0, 0, -CycleMs, << >>)
  BY <1>5, <1>6 DEF CanInSlot, Known
<1> QED BY <1>2, <1>3, <1>4, <1>7 DEF slot

\* A cycle keeps a CAN input that is read in step with the history of its id.
LEMMA CycleHeard ==
  ASSUME EngineShape, CanInInv, Next, NEW i \in DOMAIN cfg.canInputs, IsRead(cfg.canInputs[i])
  PROVE  LET id == cfg.canInputs[i].id
         IN  CanInSlot(cfg.canInputs[i], sim'.cinLatch[i], sim'.cinAge[i],
                       sim'.var[<<"canVal", i>>], sim'.var[<<"canIn", i>>],
                       seen'.silence[id], seen'.carried[id])
<1> DEFINE slot == cfg.canInputs[i]
           id == slot.id
           v == <<"canVal", i>>
           x == <<"canIn", i>>
<1>1. PICK pins, rx : Cycle(pins, rx)
  BY DEF Next
<1> DEFINE t == Step(cfg, sim, pins, rx)
           value == DecodeFloat(slot, rx[id])
           latch == CanLatch(slot, sim.cinLatch[i], rx[id])
<1>2. cfg \in Configs /\ Shape(cfg, sim) /\ sim' = t
  BY <1>1 DEF Cycle, EngineShape
<1>3. slot.timeout \in Nat /\ slot.operator \in Operators /\ id \in DOMAIN Bus(cfg)
  BY <1>2, ConfigsTyped
<1>4. /\ seen'.silence[id] = IF id \in DOMAIN rx THEN 0 ELSE Older(seen.silence[id], CycleMs, MaxAge)
      /\ seen'.carried[id] = IF id \in DOMAIN rx THEN <<rx[id]>> ELSE seen.carried[id]
  BY <1>1, <1>3 DEF Cycle, See
<1>5. i \in Heard(cfg, rx) <=> id \in DOMAIN rx
  BY DEF Heard, IsRead
<1>6. CanInSlot(slot, sim.cinLatch[i], sim.cinAge[i], sim.var[v], sim.var[x],
                seen.silence[id], seen.carried[id])
  BY DEF CanInInv
<1>7. CASE id \in DOMAIN rx
  <2>1. /\ t.var[v] = value /\ t.var[x] = Value(latch.out) /\ t.cinLatch[i] = latch
        /\ t.cinAge[i] = IF slot.timeoutEnabled THEN Older(0, CycleMs, MaxAge) ELSE 0
    <3>1. ~(0 > slot.timeout)
      BY <1>3
    <3> HIDE DEF t
    <3> QED BY <1>2, <1>5, <1>7, <3>1, ConfigsRun, CycleCanIn DEF t
  <2>2. seen'.silence[id] = 0 /\ seen'.carried[id] = <<rx[id]>>
    BY <1>4, <1>7
  <2>3. sim.cinLatch[i] \in LatchT /\ (slot.mode = "momentary" => sim.cinLatch[i].out = sim.cinLatch[i].last)
    BY <1>6 DEF CanInSlot
  <2> HIDE DEF slot, id, v, x, t
  <2>4. CanInSlot(slot, latch, IF slot.timeoutEnabled THEN Older(0, CycleMs, MaxAge) ELSE 0,
                  value, Value(latch.out), 0, <<rx[id]>>)
    BY <1>3, <2>3, CanInHears
  <2> HIDE DEF value, latch
  <2>5. CanInSlot(slot, t.cinLatch[i], t.cinAge[i], t.var[v], t.var[x], seen'.silence[id], seen'.carried[id])
    BY <2>1, <2>2, <2>4
  <2> QED BY <1>2, <2>5 DEF slot, id, v, x
<1>8. CASE id \notin DOMAIN rx
  <2> DEFINE out == slot.timeoutEnabled /\ sim.cinAge[i] > slot.timeout
  <2>1. /\ t.var[v] = IF out THEN 0 ELSE sim.var[v]
        /\ t.var[x] = IF out THEN 0 ELSE sim.var[x]
        /\ t.cinLatch[i] = sim.cinLatch[i]
        /\ t.cinAge[i] = IF slot.timeoutEnabled THEN Older(sim.cinAge[i], CycleMs, MaxAge) ELSE 0
    <3> HIDE DEF t
    <3> QED BY <1>2, <1>5, <1>8, ConfigsRun, CycleCanIn DEF t, IsRead
  <2>2. seen'.silence[id] = Older(seen.silence[id], CycleMs, MaxAge) /\ seen'.carried[id] = seen.carried[id]
    BY <1>4, <1>8
  <2> HIDE DEF slot, id, v, x, t
  <2>3. CanInSlot(slot, sim.cinLatch[i], IF slot.timeoutEnabled THEN Older(sim.cinAge[i], CycleMs, MaxAge) ELSE 0,
                  IF out THEN 0 ELSE sim.var[v], IF out THEN 0 ELSE sim.var[x],
                  Older(seen.silence[id], CycleMs, MaxAge), seen.carried[id])
    BY <1>3, <1>6, CanInWaits
  <2> HIDE DEF out
  <2>4. CanInSlot(slot, t.cinLatch[i], t.cinAge[i], t.var[v], t.var[x], seen'.silence[id], seen'.carried[id])
    BY <2>1, <2>2, <2>3
  <2> QED BY <1>2, <2>4 DEF slot, id, v, x
<1> QED BY <1>7, <1>8

\* The invariant of the CAN inputs is inductive.
LEMMA NextCanIn == EngineShape /\ CanInInv /\ [Next]_vars => CanInInv'
<1> SUFFICES ASSUME EngineShape, CanInInv, [Next]_vars PROVE CanInInv'
  OBVIOUS
<1>1. CASE Next
  <2>1. cfg' = cfg
    BY <1>1 DEF Next, Cycle
  <2>2. ASSUME NEW i \in DOMAIN cfg.canInputs, IsRead(cfg.canInputs[i])
        PROVE  LET id == cfg.canInputs[i].id
               IN  CanInSlot(cfg.canInputs[i], sim'.cinLatch[i], sim'.cinAge[i],
                             sim'.var[<<"canVal", i>>], sim'.var[<<"canIn", i>>],
                             seen'.silence[id], seen'.carried[id])
    BY <1>1, <2>2, CycleHeard
  <2> QED BY <2>1, <2>2 DEF CanInInv
<1>2. CASE UNCHANGED vars
  BY <1>2 DEF vars, CanInInv
<1> QED BY <1>1, <1>2

\* CanInputsFollowBus holds for every configuration: a CAN input shows the last frame
\* of its id until the bus has been silent for longer than its time-out, then nothing
\* (step(), RX and time-outs).
THEOREM CanInputsFollow == Spec => []CanInputsFollowBus
<1>1. CanInInv => CanInputsFollowBus
  <2> SUFFICES ASSUME CanInInv, NEW i \in DOMAIN cfg.canInputs, IsRead(cfg.canInputs[i])
               PROVE  LET slot == cfg.canInputs[i]
                          known == seen.carried[slot.id] # << >> /\ ~Silent(i)
                          value == DecodeFloat(slot, seen.carried[slot.id][1])
                      IN  /\ sim.var[<<"canVal", i>>] = IF known THEN value ELSE 0
                          /\ slot.mode = "momentary"
                               => sim.var[<<"canIn", i>>] =
                                    Value(known /\ Compare(slot.operator, value, slot.operand))
    BY DEF CanInputsFollowBus, IsRead
  <2>1. LET id == cfg.canInputs[i].id
        IN  CanInSlot(cfg.canInputs[i], sim.cinLatch[i], sim.cinAge[i], sim.var[<<"canVal", i>>],
                      sim.var[<<"canIn", i>>], seen.silence[id], seen.carried[id])
    BY DEF CanInInv
  <2> QED BY <2>1 DEF CanInSlot, Known, Silent, Value
<1> QED BY <1>1, InitCanIn, NextCanIn, ShapeAlways, PTL DEF Spec

-----------------------------------------------------------------------------
(* CAN outputs.                                                            *)

\* A frame's interval is a number above 0 and no longer than that of any member.
LEMMA FrameIntervalBounds ==
  ASSUME NEW c \in Configs, NEW i \in Assigned(c)
  PROVE  LET id == c.canOutputs[i].id
         IN  /\ id \in FrameIds(c)
             /\ FrameInterval(c, id) \in Nat \ {0}
             /\ FrameInterval(c, id) <= Interval(c.canOutputs[i])
             /\ Interval(c.canOutputs[i]) \in Nat
<1> DEFINE id == c.canOutputs[i].id
           T == {Interval(c.canOutputs[j]) : j \in Members(c, id)}
<1>1. ASSUME NEW j \in Assigned(c) PROVE Interval(c.canOutputs[j]) \in Nat \ {0}
  <2>1. c.canOutputs[j].interval \in Nat
    BY ConfigsTyped DEF Assigned
  <2> QED BY <2>1 DEF Interval
<1>2. T \subseteq Nat \ {0} /\ T \subseteq Nat
  BY <1>1 DEF Members
<1>3. Interval(c.canOutputs[i]) \in T /\ id \in FrameIds(c)
  BY DEF Members, FrameIds
<1> HIDE DEF T
<1>4. \E n \in T : \A m \in T : n <= m
  BY <1>2, <1>3, LeastNumber
<1>5. Min(T) \in T /\ \A m \in T : Min(T) <= m
  BY <1>4 DEF Min
<1>6. FrameInterval(c, id) = Min(T)
  BY DEF FrameInterval, T
<1> QED BY <1>2, <1>3, <1>5, <1>6

\* What holds of a CAN output and the frame it is sent in: the frame is due early
\* enough.
OnTime(interval, wait, gap) ==
  /\ wait \in Nat /\ gap \in Int
  /\ wait = 0 => gap < interval
  /\ wait # 0 => gap + wait <= interval - CycleMs

FramesInv ==
  \A i \in Assigned(cfg) :
    LET id == cfg.canOutputs[i].id
    IN  OnTime(FrameInterval(cfg, id), sim.wait[id], seen.gap[i])

\* A frame that is sent, or waits for one cycle more, is still on time.
LEMMA OnTimeStep ==
  ASSUME NEW interval \in Nat \ {0}, NEW wait, NEW gap, OnTime(interval, wait, gap)
  PROVE  LET w    == IF wait = 0 THEN interval ELSE wait
             gap1 == IF wait = 0 THEN 0 ELSE Older(gap, CycleMs, MaxAge)
         IN  OnTime(interval, IF w > CycleMs THEN w - CycleMs ELSE 0, gap1)
<1>1. CASE wait = 0
  BY <1>1, TimesAreSane DEF OnTime
<1>2. CASE wait # 0
  <2> DEFINE gap1 == Older(gap, CycleMs, MaxAge)
  <2>1. gap1 \in Int /\ gap1 <= gap + CycleMs
    BY TimesAreSane DEF OnTime, Older
  <2> HIDE DEF gap1
  <2>2. OnTime(interval, IF wait > CycleMs THEN wait - CycleMs ELSE 0, gap1)
    BY <1>2, <2>1, TimesAreSane DEF OnTime
  <2> QED BY <1>2, <2>2 DEF gap1
<1> QED BY <1>1, <1>2

\* At power-on every frame is due.
LEMMA InitFrames == Init => FramesInv
<1> SUFFICES ASSUME Init, NEW i \in Assigned(cfg)
             PROVE  OnTime(FrameInterval(cfg, cfg.canOutputs[i].id), sim.wait[cfg.canOutputs[i].id],
                           seen.gap[i])
  BY DEF FramesInv
<1> DEFINE id == cfg.canOutputs[i].id
<1>1. id \in FrameIds(cfg) /\ FrameInterval(cfg, id) \in Nat \ {0}
  BY FrameIntervalBounds DEF Init
<1>2. sim.wait[id] = 0
  BY <1>1 DEF Init, SimInit
<1>3. seen.gap[i] = 0
  BY DEF Init, SeenInit, Assigned
<1> QED BY <1>1, <1>2, <1>3 DEF OnTime

\* In every cycle.
LEMMA NextFrames == EngineShape /\ FramesInv /\ [Next]_vars => FramesInv'
<1> SUFFICES ASSUME EngineShape, FramesInv, [Next]_vars PROVE FramesInv'
  OBVIOUS
<1>1. CASE Next
  <2>1. PICK pins, rx : Cycle(pins, rx)
    BY <1>1 DEF Next
  <2>2. cfg' = cfg /\ cfg \in Configs /\ Shape(cfg, sim) /\ sim' = Step(cfg, sim, pins, rx)
    BY <2>1 DEF Cycle, EngineShape
  <2>3. ASSUME NEW i \in Assigned(cfg)
        PROVE  OnTime(FrameInterval(cfg, cfg.canOutputs[i].id), sim'.wait[cfg.canOutputs[i].id],
                      seen'.gap[i])
    <3> DEFINE id == cfg.canOutputs[i].id
               interval == FrameInterval(cfg, id)
               w == IF sim.wait[id] = 0 THEN interval ELSE sim.wait[id]
    <3>1. id \in FrameIds(cfg) /\ interval \in Nat \ {0}
      BY <2>2, FrameIntervalBounds
    <3>2. OnTime(interval, sim.wait[id], seen.gap[i])
      BY DEF FramesInv
    <3>3. /\ sim'.wait[id] = IF w > CycleMs THEN w - CycleMs ELSE 0
          /\ id \in DOMAIN sim'.tx <=> sim.wait[id] = 0
      BY <2>2, <3>1, ConfigsRun, CycleFrames
    <3>4. seen'.gap[i] = IF id \in DOMAIN sim'.tx THEN 0 ELSE Older(seen.gap[i], CycleMs, MaxAge)
      BY <2>1 DEF Cycle, See, Assigned
    <3> HIDE DEF interval, id
    <3>5. OnTime(interval, IF w > CycleMs THEN w - CycleMs ELSE 0,
                 IF sim.wait[id] = 0 THEN 0 ELSE Older(seen.gap[i], CycleMs, MaxAge))
      BY <3>1, <3>2, OnTimeStep
    <3>6. OnTime(interval, sim'.wait[id], seen'.gap[i])
      BY <3>3, <3>4, <3>5
    <3> QED BY <3>6 DEF interval, id
  <2> QED BY <2>2, <2>3 DEF FramesInv
<1>2. CASE UNCHANGED vars
  BY <1>2 DEF vars, FramesInv
<1> QED BY <1>1, <1>2

\* FramesOnTime holds for every configuration: a CAN output is sent at least once in
\* its own interval, whatever it shares its frame with (_init_can_frames).
THEOREM FramesAreOnTime == Spec => []FramesOnTime
<1>1. EngineShape /\ FramesInv => FramesOnTime
  <2> SUFFICES ASSUME EngineShape, FramesInv, NEW i \in Assigned(cfg)
               PROVE  seen.gap[i] < Interval(cfg.canOutputs[i])
    BY DEF FramesOnTime
  <2> DEFINE id == cfg.canOutputs[i].id
             interval == FrameInterval(cfg, id)
  <2>1. interval \in Nat /\ interval <= Interval(cfg.canOutputs[i]) /\ Interval(cfg.canOutputs[i]) \in Nat
    BY FrameIntervalBounds DEF EngineShape
  <2>2. OnTime(interval, sim.wait[id], seen.gap[i])
    BY DEF FramesInv
  <2> HIDE DEF interval
  <2> QED BY <2>1, <2>2, TimesAreSane DEF OnTime
<1> QED BY <1>1, InitFrames, NextFrames, ShapeAlways, PTL DEF Spec

\* The frame that a cycle sends carries the value that each of its CAN outputs
\* had in this cycle, for every configuration and every state of the device: the
\* receivers of a merged frame find the value of every member, unless a member
\* runs out of the frame or a higher slot was given the same bits.
THEOREM SentFramesAreCurrent ==
  ASSUME NEW c, NEW s, NEW id \in FrameIds(c), s.wait[id] = 0,
         {"sample", "wait", "data", "tx"} \subseteq DOMAIN s,
         DOMAIN c.canOutputs \subseteq Nat,
         NEW i \in Members(c, id),
         IsSignal(c.canOutputs[i]),
         \A k \in Exponents(c.canOutputs[i]) : Place(c.canOutputs[i], k) \in DataBits,
         \A j \in Members(c, id) :
           j > i => Places(c.canOutputs[j]) \cap Places(c.canOutputs[i]) = {}
  PROVE  /\ id \in DOMAIN CanOutputs(c, s).tx
         /\ Extract(c.canOutputs[i], CanOutputs(c, s).tx[id].data)
              = Raw(c.canOutputs[i], s.var[c.canOutputs[i].input])
<1> DEFINE due == {d \in FrameIds(c) : s.wait[d] = 0}
           raw(j) == Raw(c.canOutputs[j], s.var[c.canOutputs[j].input])
           signals == [j \in Members(c, id) |-> c.canOutputs[j]]
           raws == [j \in Members(c, id) |-> raw(j)]
<1>1. id \in due
  OBVIOUS
<1>2. /\ DOMAIN CanOutputs(c, s).tx = due
      /\ CanOutputs(c, s).tx[id].data = InsertAll(signals, raws, s.data[id])
  BY <1>1 DEF CanOutputs
<1>3. Members(c, id) \in SUBSET Nat
  BY DEF Members, Assigned
<1>4. raw(i) \subseteq Exponents(c.canOutputs[i])
  BY DEF Raw, BitsOf
<1>5. Extract(signals[i], InsertAll(signals, raws, s.data[id])) = raws[i] \cap Exponents(signals[i])
  <2> DEFINE S == Members(c, id)
             before == s.data[id]
  <2>1. DOMAIN signals = S /\ S \in SUBSET Nat /\ i \in S
    BY <1>3
  <2>2. \A j \in S : j > i => Places(signals[j]) \cap Places(signals[i]) = {}
    OBVIOUS
  <2>3. /\ IsSignal(signals[i])
        /\ \A k \in Exponents(signals[i]) : Place(signals[i], k) \in DataBits
    BY signals[i] = c.canOutputs[i]
  <2>4. Extract(signals[i], InsertAll(signals, raws, before)) = raws[i] \cap Exponents(signals[i])
    <3> HIDE DEF signals, raws, S, before
    <3> QED BY <2>1, <2>2, <2>3, SignalsKeepApart
  <2> QED BY <2>4
<1> QED BY <1>1, <1>2, <1>4, <1>5

\* What is sent is what the CAN outputs make of the state in which they are reached,
\* and it is what they sample there.
LEMMA CycleSends ==
  ASSUME NEW c \in Configs, NEW s, NEW pins, NEW rx, Shape(c, s),
         NEW t, t = Step(c, s, pins, rx), NEW w, w = Waited(c, s, pins, rx)
  PROVE  /\ Shape(c, w) /\ w.wait = s.wait
         /\ t.tx = CanOutputs(c, w).tx
         /\ \A i \in Assigned(c) : t.sample[i] = w.var[c.canOutputs[i].input]
<1> DEFINE sent == Sent(c, s, pins, rx)
<1>1. Shape(c, w)
  BY ConfigsRun, StagesKeep
<1>2. w.wait = s.wait /\ t.tx = sent.tx /\ t.sample = sent.sample
  BY ConfigsRun, MemoryPasses DEF Fields
<1>3. sent = CanOutputs(c, w)
  BY DEF Sent
<1> HIDE DEF sent
<1>4. \A i \in Assigned(c) : sent.sample[i] = w.var[c.canOutputs[i].input]
  BY <1>1, <1>3 DEF CanOutputs, Shape, Fields, Assigned
<1> QED BY <1>1, <1>2, <1>3, <1>4

\* The settings of a CAN output that is given a frame.
LEMMA OutputTypes ==
  ASSUME NEW c \in Configs, NEW i \in Assigned(c), NEW o, o = c.canOutputs[i]
  PROVE  /\ o.startBit \in Nat /\ o.bitLength \in Nat /\ o.bitLength >= 1
         /\ o.bigEndian \in BOOLEAN /\ o.factor \in Int /\ o.offset \in Int
         /\ o.enabled /\ Dlc(o) \in Nat
         /\ i \in 1..Len(c.canOutputs) /\ Len(c.canOutputs) \in Nat
<1>1. i \in DOMAIN c.canOutputs /\ o.enabled /\ o.bitLength \in 1..64
  BY DEF Assigned
<1>2. /\ o.startBit \in Nat /\ o.bigEndian \in BOOLEAN /\ o.factor \in Int /\ o.offset \in Int
  BY <1>1, ConfigsTyped
<1>3. o.bitLength \in Nat /\ o.bitLength >= 1
  BY <1>1
<1>4. Dlc(o) \in Nat
  BY <1>2, <1>3 DEF Dlc
<1>5. i \in 1..Len(c.canOutputs) /\ Len(c.canOutputs) \in Nat
  <2> DEFINE slots == c.canOutputs
  <2>1. slots \in Seq(Range(slots))
    BY ConfigsTyped DEF Listed
  <2> HIDE DEF slots
  <2>2. Len(slots) \in Nat /\ DOMAIN slots = 1..Len(slots)
    BY <2>1
  <2> QED BY <1>1, <2>2 DEF slots
<1> QED BY <1>1, <1>2, <1>3, <1>4, <1>5

\* A frame is as long as its longest member.
LEMMA FrameHoldsMembers ==
  ASSUME NEW c \in Configs, NEW id, NEW i \in Members(c, id)
  PROVE  FrameDlc(c, id) \in Nat /\ Dlc(c.canOutputs[i]) <= FrameDlc(c, id)
<1> DEFINE T == {Dlc(c.canOutputs[j]) : j \in Members(c, id)}
           Bound(m) == \E b \in Nat : \A j \in Members(c, id) : j <= m => Dlc(c.canOutputs[j]) <= b
           P == {m \in Nat : Bound(m)}
           last == Len(c.canOutputs)
<1>1. ASSUME NEW j \in Members(c, id)
      PROVE  Dlc(c.canOutputs[j]) \in Nat /\ j \in 1..last /\ last \in Nat
  BY OutputTypes DEF Members
<1>2. 0 \in P
  <2>1. \A j \in Members(c, id) : ~(j <= 0)
    BY <1>1
  <2>2. Bound(0)
    BY <2>1
  <2> QED BY <2>2
<1>3. ASSUME NEW m \in Nat, m \in P PROVE m + 1 \in P
  <2>1. PICK b \in Nat : \A j \in Members(c, id) : j <= m => Dlc(c.canOutputs[j]) <= b
    BY <1>3
  <2>2. CASE m + 1 \in Members(c, id)
    <3> DEFINE d == Dlc(c.canOutputs[m + 1])
    <3>1. d \in Nat /\ b + d \in Nat
      BY <1>1, <2>2
    <3>2. ASSUME NEW j \in Members(c, id), j <= m + 1 PROVE Dlc(c.canOutputs[j]) <= b + d
      <4>1. CASE j = m + 1
        BY <3>1, <4>1
      <4>2. CASE j # m + 1
        <5>1. j <= m
          BY <1>1, <3>2, <4>2
        <5>2. Dlc(c.canOutputs[j]) \in Nat /\ Dlc(c.canOutputs[j]) <= b
          BY <1>1, <2>1, <5>1
        <5> HIDE DEF d
        <5> QED BY <3>1, <5>2
      <4> QED BY <4>1, <4>2
    <3>3. Bound(m + 1)
      <4> HIDE DEF d
      <4> QED BY <3>1, <3>2
    <3> QED BY <3>3
  <2>3. CASE m + 1 \notin Members(c, id)
    <3>1. \A j \in Members(c, id) : j <= m + 1 => j <= m
      BY <1>1, <2>3
    <3>2. Bound(m + 1)
      BY <2>1, <3>1
    <3> QED BY <3>2
  <2> QED BY <2>2, <2>3
<1>4. last \in P
  <2> HIDE DEF P
  <2>1. Nat \subseteq P
    BY <1>2, <1>3, Counting
  <2> QED BY <1>1, <2>1
<1>5. PICK b \in Nat : \A j \in Members(c, id) : j <= last => Dlc(c.canOutputs[j]) <= b
  BY <1>4
<1>6. \A n \in T : n <= b
  BY <1>1, <1>5
<1>7. T \in SUBSET Nat /\ T # {} /\ Dlc(c.canOutputs[i]) \in T
  BY <1>1
<1>8. FrameDlc(c, id) = Max(T)
  BY DEF FrameDlc
<1> HIDE DEF T
<1> QED BY <1>6, <1>7, <1>8, GreatestNumber

\* The places of a signal that ends within the frame, or was accepted for it, are
\* among the bits that are sent.
LEMMA PlacesAreSent ==
  ASSUME NEW c \in Configs, NEW id, NEW i \in Members(c, id), NEW o, o = c.canOutputs[i],
         Coded(o), o.startBit + o.bitLength <= 64,
         o.bigEndian => Places(o) \subseteq 0..(8 * FrameDlc(c, id) - 1),
         NEW k \in Exponents(o)
  PROVE  Place(o, k) \in DataBits /\ Place(o, k) \in 0..(8 * FrameDlc(c, id) - 1)
<1>1. i \in Assigned(c) /\ k \in 0..(o.bitLength - 1)
  BY DEF Members, Exponents
<1>2. o.startBit \in Nat /\ o.bitLength \in Nat /\ o.bitLength >= 1 /\ o.enabled /\ o.bigEndian \in BOOLEAN
  BY <1>1, OutputTypes
<1>3. CASE o.bigEndian
  <2>1. o \in Range(c.canOutputs)
    BY <1>1 DEF Range, Assigned
  <2>2. Place(o, k) \in DataBits
    BY <1>2, <1>3, <2>1, ConfigsAccepted DEF Encodable
  <2>3. Place(o, k) \in Places(o)
    BY <2>2 DEF Places
  <2> QED BY <1>3, <2>2, <2>3
<1>4. CASE ~o.bigEndian
  <2>1. Place(o, k) = o.startBit + k
    BY <1>4 DEF Place
  <2>2. Place(o, k) \in DataBits
    <3> DEFINE start == o.startBit
               long == o.bitLength
    <3>1. start \in Nat /\ long \in Nat /\ k \in 0..(long - 1) /\ start + long <= 64
      BY <1>1, <1>2
    <3> HIDE DEF start, long
    <3>2. start + k \in 0..63
      BY <3>1
    <3> QED BY <2>1, <3>2 DEF start, DataBits
  <2> DEFINE end == o.startBit + o.bitLength - 1
             dlc == FrameDlc(c, id)
  <2>3. dlc \in Nat /\ end \div 8 + 1 <= dlc
    BY FrameHoldsMembers DEF Dlc
  <2>4. o.startBit + k \in Nat /\ end \in Nat /\ o.startBit + k <= end
    BY <1>1, <1>2
  <2> HIDE DEF end, dlc
  <2>5. end < 8 * (end \div 8 + 1)
    BY <2>4
  <2>6. 8 * (end \div 8 + 1) <= 8 * dlc
    BY <2>3, <2>4
  <2>7. o.startBit + k \in 0..(8 * dlc - 1)
    BY <2>3, <2>4, <2>5, <2>6
  <2> QED BY <2>1, <2>2, <2>7 DEF dlc
<1> QED BY <1>3, <1>4

\* What a signal holds in these digits is a number below 2^bitLength.
LEMMA HoldsNumber ==
  ASSUME NEW o, Coded(o), NEW x, Holds(o, x)
  PROVE  \E n \in Nat : /\ n < 2^o.bitLength /\ (o.bitLength = 32 => n < 2^31)
                        /\ x = n * o.factor + o.offset
<1> DEFINE all == 2^o.bitLength
<1>1. o.bitLength \in 1..32
  BY DEF Coded
<1>2. all \in Nat
  BY <1>1, PowersDouble
<1>3. CASE o.bitLength = 32
  <2>1. PICK n \in 0..(2^31 - 1) : x = n * o.factor + o.offset
    BY <1>3 DEF Holds
  <2>2. n \in Nat /\ n < 2^31 /\ n < 2^32
    OBVIOUS
  <2> QED BY <1>3, <2>1, <2>2
<1>4. CASE o.bitLength # 32
  <2>1. PICK n \in 0..(all - 1) : x = n * o.factor + o.offset
    BY <1>4 DEF Holds
  <2> HIDE DEF all
  <2>2. n \in Nat /\ n < all
    BY <1>2
  <2> QED BY <1>4, <2>1, <2>2 DEF all
<1> QED BY <1>3, <1>4

\* A frame that is due is sent with as many bytes as its members need.
LEMMA DueFrameSize ==
  ASSUME NEW c, NEW w, Shape(c, w), NEW id \in FrameIds(c), w.wait[id] = 0
  PROVE  CanOutputs(c, w).tx[id].dlc = FrameDlc(c, id)
BY DEF CanOutputs, Shape, Fields

\* A CAN output of a frame that a cycle sends is read back as it was sampled.
LEMMA CycleCarries ==
  ASSUME NEW c \in Configs, NEW s, NEW pins, NEW rx, Shape(c, s),
         NEW t, t = Step(c, s, pins, rx), NEW id \in DOMAIN t.tx, NEW i \in Members(c, id)
  PROVE  Carries(c, t, id, i)
<1> DEFINE o == c.canOutputs[i]
           dlc == t.tx[id].dlc
           data == t.tx[id].data
           sent == 0..(8 * dlc - 1)
           onWire == data \cap sent
           w == Waited(c, s, pins, rx)
           signal == ReadBack(o)
<1> SUFFICES ASSUME Coded(o), o.startBit + o.bitLength <= 64, Holds(o, t.sample[i]),
                    o.bigEndian => Places(o) \subseteq sent,
                    \A j \in Members(c, id) : j > i => Places(c.canOutputs[j]) \cap Places(o) = {}
             PROVE  DecodeFloat(signal, onWire) = t.sample[i]
  BY DEF Carries
<1>0. o = c.canOutputs[i]
  OBVIOUS
<1> HIDE DEF o
<1>1. /\ Shape(c, w) /\ w.wait = s.wait /\ t.tx = CanOutputs(c, w).tx
      /\ \A j \in Assigned(c) : t.sample[j] = w.var[c.canOutputs[j].input]
  BY CycleSends
<1>2. id \in FrameIds(c) /\ s.wait[id] = 0
  BY ConfigsRun, CycleFrames
<1>3. i \in Assigned(c)
  BY DEF Members
<1>4. /\ o.startBit \in Nat /\ o.bitLength \in Nat /\ o.bitLength >= 1 /\ o.bigEndian \in BOOLEAN
      /\ o.factor \in Int /\ o.offset \in Int
  BY <1>0, <1>3, OutputTypes
<1> HIDE DEF w
<1>5. dlc = FrameDlc(c, id)
  BY <1>1, <1>2, DueFrameSize
<1>6. \A k \in Exponents(o) : Place(o, k) \in DataBits /\ Place(o, k) \in 0..(8 * dlc - 1)
  BY <1>0, <1>5, PlacesAreSent
<1>7. IsSignal(o)
  <2> DEFINE start == o.startBit
             long == o.bitLength
  <2>1. start \in Nat /\ long \in Nat /\ long >= 1 /\ start + long <= 64
    BY <1>4
  <2> HIDE DEF start, long
  <2>2. start \in 0..63
    BY <2>1
  <2> QED BY <1>4, <2>2 DEF start, IsSignal, DataBits
<1>8. DOMAIN c.canOutputs \subseteq Nat
  <2> DEFINE slots == c.canOutputs
  <2>1. slots \in Seq(Range(slots))
    BY ConfigsTyped DEF Listed
  <2> HIDE DEF slots
  <2>2. DOMAIN slots \subseteq Nat
    BY <2>1
  <2> QED BY <2>2 DEF slots
<1>9. Extract(o, data) = Raw(o, t.sample[i])
  <2>1. {"sample", "wait", "data", "tx"} \subseteq DOMAIN w /\ w.wait[id] = 0
    BY <1>1, <1>2 DEF Shape, Fields
  <2>2. Extract(c.canOutputs[i], CanOutputs(c, w).tx[id].data)
          = Raw(c.canOutputs[i], w.var[c.canOutputs[i].input])
    BY <1>0, <1>2, <1>6, <1>7, <1>8, <2>1, SentFramesAreCurrent
  <2> QED BY <1>0, <1>1, <1>3, <2>2 DEF data
<1>10. /\ signal.signed = FALSE /\ signal.startBit = o.startBit /\ signal.bitLength = o.bitLength
       /\ signal.bigEndian = o.bigEndian /\ signal.factor = o.factor /\ signal.offset = o.offset
  BY DEF ReadBack
<1> HIDE DEF signal, dlc, data
<1>11. Extract(signal, onWire) = Extract(o, data)
  <2>1. Exponents(signal) = Exponents(o) /\ \A k \in Exponents(o) : Place(signal, k) = Place(o, k)
    BY <1>10 DEF Exponents, Coded, Place
  <2> QED BY <1>6, <2>1 DEF Extract
<1>12. Raw(signal, t.sample[i]) = Raw(o, t.sample[i])
  BY <1>10 DEF Raw, BitsOf, Exponents, Coded
<1>13. PICK n \in Nat : /\ n < 2^o.bitLength /\ (o.bitLength = 32 => n < 2^31)
                        /\ t.sample[i] = n * o.factor + o.offset
  BY HoldsNumber
<1>14. /\ Coded(signal) /\ signal.factor \in Int /\ signal.offset \in Int
       /\ n < 2^signal.bitLength /\ (signal.bitLength = 32 => n < 2^31)
       /\ Extract(signal, onWire) = Raw(signal, n * signal.factor + signal.offset)
  BY <1>4, <1>9, <1>10, <1>11, <1>12, <1>13 DEF Coded
<1> HIDE DEF onWire
<1>15. DecodeFloat(signal, onWire) = n * signal.factor + signal.offset
  BY <1>10, <1>14, NumbersReadBack
<1> QED BY <1>10, <1>13, <1>15

\* In every cycle.
LEMMA NextCarries == EngineShape /\ FramesCarrySamples /\ [Next]_vars => FramesCarrySamples'
<1> SUFFICES ASSUME EngineShape, FramesCarrySamples, [Next]_vars PROVE FramesCarrySamples'
  OBVIOUS
<1>1. CASE Next
  <2>1. PICK pins, rx : Cycle(pins, rx)
    BY <1>1 DEF Next
  <2>2. cfg' = cfg /\ cfg \in Configs /\ Shape(cfg, sim) /\ sim' = Step(cfg, sim, pins, rx)
    BY <2>1 DEF Cycle, EngineShape
  <2>3. \A id \in DOMAIN sim'.tx : \A i \in Members(cfg, id) : Carries(cfg, sim', id, i)
    BY <2>2, CycleCarries
  <2> QED BY <2>2, <2>3 DEF FramesCarrySamples
<1>2. CASE UNCHANGED vars
  BY <1>2 DEF vars, FramesCarrySamples
<1> QED BY <1>1, <1>2

\* FramesCarrySamples holds for every configuration: what a frame carries of a CAN
\* output is what was sampled, whatever else is in the frame (_can_outputs,
\* encode_float, decode_float).
THEOREM FramesAreFaithful == Spec => []FramesCarrySamples
<1>1. Init => FramesCarrySamples
  BY DEF Init, SimInit, FramesCarrySamples
<1> QED BY <1>1, NextCarries, ShapeAlways, PTL DEF Spec

-----------------------------------------------------------------------------
(* Types.  Every variable of a kind has its type and every block's memory  *)
(* its own; each update keeps them, so a category does and so does a cycle. *)

FlashT == [on : AgeT, off : AgeT]
CountT == [inc : BOOLEAN, dec : BOOLEAN, reset : BOOLEAN, incAge : AgeT, decAge : AgeT]

VarT(x) == CASE x[1] = "canVal"                    -> Int
             [] x[1] \in {"counter", "condition"} -> Nat
             [] OTHER                             -> 0..1

VarsTyped(c, v) ==
  /\ \A x \in VarMap(c) : v[x] \in VarT(x)
  /\ v[AlwaysFalse] = 0 /\ v[AlwaysTrue] = 1

\* what the fields of a state other than var remember
Remembered == Fields \ {"var", "sample", "tx"}
MemoryT(c, f) ==
  CASE f = "din"      -> [DOMAIN c.inputs -> DebounceT]
    [] f = "dinLatch" -> [DOMAIN c.inputs -> LatchT]
    [] f = "cinAge"   -> [DOMAIN c.canInputs -> AgeT]
    [] f = "cinLatch" -> [DOMAIN c.canInputs -> LatchT]
    [] f = "viLatch"  -> [DOMAIN c.virtualInputs -> LatchT]
    [] f = "flash"    -> [DOMAIN c.flashers -> FlashT]
    [] f = "count"    -> [DOMAIN c.counters -> CountT]
    [] f = "data"     -> [FrameIds(c) -> SUBSET DataBits]
    [] f = "wait"     -> [FrameIds(c) -> Nat]

Typed(c, s) == /\ Shape(c, s)
               /\ VarsTyped(c, s.var)
               /\ \A f \in Remembered : s[f] \in MemoryT(c, f)

\* The invariant says what TypeOK says.
LEMMA TypedIsTypeOK == cfg \in Configs /\ Typed(cfg, sim) => TypeOK
<1> SUFFICES ASSUME cfg \in Configs, Typed(cfg, sim) PROVE TypeOK
  OBVIOUS
<1>1. DOMAIN sim.var = VarMap(cfg)
  BY DEF Typed, Shape
<1>2. /\ \A x \in VarMap(cfg) : sim.var[x] \in VarT(x)
      /\ sim.var[AlwaysFalse] = 0 /\ sim.var[AlwaysTrue] = 1
  BY DEF Typed, VarsTyped
<1>3. /\ sim.din \in MemoryT(cfg, "din") /\ sim.dinLatch \in MemoryT(cfg, "dinLatch")
      /\ sim.cinLatch \in MemoryT(cfg, "cinLatch") /\ sim.viLatch \in MemoryT(cfg, "viLatch")
      /\ sim.cinAge \in MemoryT(cfg, "cinAge") /\ sim.flash \in MemoryT(cfg, "flash")
      /\ sim.count \in MemoryT(cfg, "count") /\ sim.data \in MemoryT(cfg, "data")
      /\ sim.wait \in MemoryT(cfg, "wait")
  BY DEF Typed, Remembered, Fields
<1> QED BY <1>1, <1>2, <1>3 DEF TypeOK, VarT, MemoryT, DebounceT, FlashT, CountT

-----------------------------------------------------------------------------
(* The blocks.                                                             *)

\* A level is a truth value, what is stored of one is 0 or 1.
LEMMA LevelTypes ==
  ASSUME NEW v, NEW b
  PROVE  Level(v) \in BOOLEAN /\ Value(b) \in 0..1
BY DEF Level, Value

\* The latch.
LEMMA LatchType ==
  ASSUME NEW l \in LatchT, NEW mode, NEW invert, NEW level
  PROVE  LatchCheck(l, mode, invert, level) \in LatchT
BY LatchShows

\* The debouncing.
LEMMA DebouncedType ==
  ASSUME NEW d \in DebounceT, NEW slot, NEW pin \in BOOLEAN
  PROVE  Debounced(slot, Sampled(d, pin)) \in DebounceT
<1>1. 0 \in AgeT
  BY TimesAreSane DEF AgeT
<1> DEFINE d1 == Sampled(d, pin)
<1>2. d1 \in DebounceT
  BY <1>1 DEF Sampled, DebounceT
<1> HIDE DEF d1
<1>3. \A b \in BOOLEAN : [d1 EXCEPT !.check = b, !.init = TRUE] \in DebounceT
  BY <1>2 DEF DebounceT
<1>4. (IF MustRead(slot, d1) THEN FALSE ELSE d1.check) \in BOOLEAN
  BY <1>2 DEF DebounceT
<1>5. Debounced(slot, d1) \in DebounceT
  BY <1>3, <1>4 DEF Debounced
<1> QED BY <1>5 DEF d1

\* The flasher.
LEMMA FlasherTypes ==
  ASSUME NEW slot, NEW f \in FlashT, NEW v, NEW input
  PROVE  FlasherUpdate(slot, f, v, input).v \in 0..1 /\ FlasherUpdate(slot, f, v, input).f \in FlashT
<1>1. 0 \in AgeT
  BY TimesAreSane DEF AgeT
<1> QED BY <1>1 DEF FlasherUpdate, FlashT, Value

\* The counter, whatever its limits.
LEMMA CounterTypes ==
  ASSUME NEW slot, slot.minCount \in Nat, slot.maxCount \in Nat, NEW k \in CountT, NEW n \in Nat,
         NEW inc \in BOOLEAN, NEW dec \in BOOLEAN, NEW reset \in BOOLEAN
  PROVE  /\ CounterUpdate(slot, k, n, inc, dec, reset).n \in Nat
         /\ CounterUpdate(slot, k, n, inc, dec, reset).k \in CountT
<1>1. 0 \in AgeT
  BY TimesAreSane DEF AgeT
<1> DEFINE up == Edge(slot.incEdge, k.inc, inc)
           down == Edge(slot.decEdge, k.dec, dec)
           n1 == IF up THEN CountUp(slot, n) ELSE n
<1>2. n1 \in Nat
  BY DEF CountUp
<1>3. \A m \in Nat : CountDown(slot, m) \in Nat
  BY DEF CountDown
<1>4. Counted(slot, k, n, inc, dec, reset).n \in Nat
  <2> HIDE DEF n1, down
  <2>1. Counted(slot, k, n, inc, dec, reset).n = IF down THEN CountDown(slot, n1) ELSE n1
    BY DEF Counted, n1, down
  <2> QED BY <1>2, <1>3, <2>1
<1>5. Counted(slot, k, n, inc, dec, reset).k \in CountT
  BY <1>1 DEF Counted, CountT
<1> QED BY <1>4, <1>5 DEF CounterUpdate

\* The bits that two numbers share are sixteen at most.
LEMMA BitAndBounds ==
  ASSUME NEW a \in Int, NEW b \in Int
  PROVE  BitAnd(a, b) \in Nat /\ BitAnd(a, b) <= 65535
<1> DEFINE bit(k) == ((a \div 2^k) % 2) * ((b \div 2^k) % 2) * 2^k
           Bits(f, n) == f = [k \in 0..n |-> IF k = 0 THEN 0 ELSE f[k - 1] + bit(k - 1)]
           P == {n \in Nat : \E f : Bits(f, n) /\ \A k \in 0..n : f[k] \in 0..(2^k - 1)}
<1>1. ASSUME NEW k \in Nat PROVE bit(k) \in 0..2^k /\ 2^k \in Nat /\ 2^k > 0
  <2>1. 2^k \in Nat /\ 2^k > 0
    BY PowersDouble
  <2> DEFINE p == 2^k
  <2> HIDE DEF p
  <2>2. a \div p \in Int /\ b \div p \in Int
    BY <2>1 DEF p
  <2>3. (a \div p) % 2 \in {0, 1} /\ (b \div p) % 2 \in {0, 1}
    BY <2>2
  <2>4. \A x \in {0, 1}, y \in {0, 1} : x * y * p \in 0..p
    BY <2>1 DEF p
  <2> QED BY <2>1, <2>3, <2>4 DEF p
<1>2. 0 \in P
  <2> DEFINE f == [k \in 0..0 |-> 0]
  <2>1. Bits(f, 0)
    OBVIOUS
  <2>2. 2^0 = 1
    OBVIOUS
  <2> HIDE DEF Bits
  <2>3. \A k \in 0..0 : f[k] \in 0..(2^k - 1)
    BY <2>2
  <2> QED BY <2>1, <2>3
<1>3. ASSUME NEW n \in Nat, n \in P PROVE n + 1 \in P
  <2> HIDE DEF bit
  <2>1. PICK f : Bits(f, n) /\ \A k \in 0..n : f[k] \in 0..(2^k - 1)
    BY <1>3
  <2> DEFINE g == [k \in 0..(n + 1) |-> IF k = n + 1 THEN f[n] + bit(n) ELSE f[k]]
  <2>2. ASSUME NEW k \in 0..(n + 1)
        PROVE  g[k] = IF k = 0 THEN 0 ELSE g[k - 1] + bit(k - 1)
    <3>1. CASE k = n + 1
      BY <3>1
    <3>2. CASE k # n + 1
      <4>1. k \in 0..n /\ (k # 0 => k - 1 \in 0..(n + 1) /\ k - 1 # n + 1)
        BY <3>2
      <4>2. g[k] = f[k] /\ (k # 0 => g[k - 1] = f[k - 1])
        BY <4>1, <3>2
      <4>3. f[k] = IF k = 0 THEN 0 ELSE f[k - 1] + bit(k - 1)
        BY <4>1, <2>1
      <4> QED BY <4>2, <4>3
    <3> QED BY <3>1, <3>2
  <2>3. g = [k \in 0..(n + 1) |-> g[k]]
    OBVIOUS
  <2>4. f[n] \in 0..(2^n - 1) /\ bit(n) \in 0..2^n /\ 2^(n + 1) = 2 * 2^n /\ 2^n \in Nat
    BY <1>1, <2>1, PowersDouble
  <2>5. f[n] + bit(n) \in 0..(2^(n + 1) - 1)
    BY <2>4
  <2>6. \A k \in 0..(n + 1) : g[k] \in 0..(2^k - 1)
    BY <2>1, <2>5
  <2>7. Bits(g, n + 1)
    <3> HIDE DEF g
    <3> QED BY <2>2, <2>3
  <2> HIDE DEF Bits, g
  <2> QED BY <2>6, <2>7
<1>4. 16 \in P
  <2> HIDE DEF P
  <2> QED BY <1>2, <1>3, Counting
<1> HIDE DEF bit
<1>5. PICK f : Bits(f, 16) /\ \A k \in 0..16 : f[k] \in 0..(2^k - 1)
  BY <1>4
<1> DEFINE sum == CHOOSE h : Bits(h, 16)
<1>6. Bits(sum, 16)
  BY <1>5
<1>7. BitAnd(a, b) = sum[16]
  BY DEF BitAnd, bit
<1> HIDE DEF sum
<1> DEFINE Q == {n \in Nat : n \in 0..16 => sum[n] \in 0..(2^n - 1)}
<1>8. 0 \in Q
  BY <1>6
<1>9. ASSUME NEW n \in Nat, n \in Q PROVE n + 1 \in Q
  <2> SUFFICES ASSUME n + 1 \in 0..16 PROVE sum[n + 1] \in 0..(2^(n + 1) - 1)
    OBVIOUS
  <2>1. sum[n + 1] = sum[n] + bit(n) /\ sum[n] \in 0..(2^n - 1)
    BY <1>6, <1>9
  <2>2. bit(n) \in 0..2^n /\ 2^(n + 1) = 2 * 2^n /\ 2^n \in Nat
    BY <1>1, PowersDouble
  <2> QED BY <2>1, <2>2
<1>10. 16 \in Q
  <2> HIDE DEF Q
  <2> QED BY <1>8, <1>9, Counting
<1>11. sum[16] \in 0..(2^16 - 1)
  BY <1>10
<1> QED BY <1>7, <1>11

\* So what a condition stores is a number, though it need not be a truth value.
LEMMA ConditionType ==
  ASSUME NEW op, NEW a \in Int, NEW b \in Int
  PROVE  ConditionValue(op, a, b) \in Nat
<1>1. BitAnd(a, b) \in Nat /\ AllOnes - BitAnd(a, b) \in Nat
  BY BitAndBounds DEF AllOnes
<1>2. Value(Compare(op, a, b)) \in Nat
  BY LevelTypes
<1> QED BY <1>1, <1>2 DEF ConditionValue

\* What is decoded of a frame is an integer.
LEMMA DecodedType ==
  ASSUME NEW slot, slot.factor \in Int, slot.offset \in Int, NEW data
  PROVE  DecodeFloat(slot, data) \in Int
<1> DEFINE raw == Extract(slot, data)
           sign == slot.bitLength - 1
<1>1. raw \in SUBSET Nat /\ IsFiniteSet(raw) /\ \A k \in raw : k \in Nat
  <2>1. raw \subseteq 0..31
    BY DEF Extract, Exponents, Coded
  <2>2. IsFiniteSet(0..31)
    BY FS_Interval, 0 \in Int, 31 \in Int
  <2> QED BY <2>1, <2>2, FS_Subset
<1> HIDE DEF raw, sign
<1>2. Sum(raw) \in Nat
  BY <1>1, SumWithout
<1>3. sign \in raw => Sum(raw \ {sign}) \in Nat /\ 2^sign \in Nat
  BY <1>1, SumWithout, PowersDouble
<1>4. DecodeInt(slot, data) \in Int
  BY <1>2, <1>3 DEF DecodeInt, raw, sign
<1> QED BY <1>4 DEF DecodeFloat

\* A frame keeps within its eight bytes.
LEMMA FilledType ==
  ASSUME NEW signals, NEW raws, NEW data \in SUBSET DataBits
  PROVE  InsertAll(signals, raws, data) \in SUBSET DataBits
BY DEF InsertAll, Insert

-----------------------------------------------------------------------------
(* The categories.                                                         *)

\* the settings that ConfigsTyped asks for
Settable(c) ==
  /\ Runs(c)
  /\ \A i \in DOMAIN c.canInputs : c.canInputs[i].factor \in Int /\ c.canInputs[i].offset \in Int
  /\ \A i \in DOMAIN c.conditions : c.conditions[i].arg \in Int
  /\ \A i \in DOMAIN c.counters : c.counters[i].minCount \in Nat /\ c.counters[i].maxCount \in Nat
  /\ \A id \in FrameIds(c) : FrameInterval(c, id) \in Nat

\* The always-false and always-true variables belong to no slot.
LEMMA OwnIsNotAlways ==
  ASSUME NEW kind \in Kinds, NEW i
  PROVE  <<kind, i>> # AlwaysFalse /\ <<kind, i>> # AlwaysTrue
BY DEF Kinds, AlwaysFalse, AlwaysTrue

\* An update that gives its slot's variable and its block's memory their types
\* leaves the state typed.
LEMMA SlotTyped ==
  ASSUME NEW c, NEW s, Typed(c, s), NEW kind \in Kinds, NEW i \in DOMAIN SlotsOf(kind, c),
         NEW u, InSlot(kind, c, s, u, i),
         u.var[<<kind, i>>] \in VarT(<<kind, i>>),
         \A f \in Memory(kind) : u[f] \in MemoryT(c, f)
  PROVE  Typed(c, u)
<1>1. /\ Shape(c, u)
      /\ \A x \in VarMap(c) : x # <<kind, i>> => u.var[x] = s.var[x]
      /\ \A f \in Fields \ {"var"} : f \notin Memory(kind) => u[f] = s[f]
  BY DEF InSlot
<1>2. AlwaysFalse \in VarMap(c) /\ AlwaysTrue \in VarMap(c)
  BY DEF VarMap
<1>3. VarsTyped(c, u.var)
  BY <1>1, <1>2, OwnIsNotAlways DEF Typed, VarsTyped
<1>4. \A f \in Remembered : u[f] \in MemoryT(c, f)
  BY <1>1 DEF Typed, Remembered
<1> QED BY <1>1, <1>3, <1>4 DEF Typed

\* What a variable of a kind that holds truth values has, and a counter or condition.
LEMMA KindTypes ==
  ASSUME NEW i
  PROVE  /\ \A kind \in {"output", "digIn", "virtIn", "flasher"} : VarT(<<kind, i>>) = 0..1
         /\ \A kind \in {"counter", "condition"} : VarT(<<kind, i>>) = Nat
BY DEF VarT

\* An output.
LEMMA OutputTyped ==
  ASSUME NEW c, NEW s, Typed(c, s), NEW i \in DOMAIN c.outputs
  PROVE  Typed(c, Profet(c, s, i))
<1> DEFINE u == Profet(c, s, i)
           x == <<"output", i>>
<1>1. Shape(c, s) /\ x \in VarMap(c)
  BY DEF Typed, VarMap, Slots
<1>2. u.var[x] \in VarT(x)
  <2>1. u.var[x] = Value(c.outputs[i].enabled /\ Level(s.var[c.outputs[i].input]))
    BY <1>1 DEF Profet, Shape, Fields
  <2> QED BY <2>1, LevelTypes, KindTypes
<1> HIDE DEF u, x
<1> QED BY <1>1, <1>2, OutputInSlot, SlotTyped DEF Kinds, SlotsOf, Memory, u, x

\* A digital input.
LEMMA DigInTyped ==
  ASSUME NEW c, NEW s, Typed(c, s), NEW i \in DOMAIN c.inputs, NEW pin \in BOOLEAN
  PROVE  Typed(c, DigIn(c, s, i, pin))
<1> DEFINE u == DigIn(c, s, i, pin)
           x == <<"digIn", i>>
           slot == c.inputs[i]
           d == Debounced(slot, Sampled(s.din[i], pin))
           latch == LatchCheck(s.dinLatch[i], slot.mode, slot.invert, pin)
<1>1. Shape(c, s) /\ x \in VarMap(c) /\ s.var[x] \in VarT(x)
  BY DEF Typed, VarsTyped, VarMap, Slots
<1>2. s.din \in [DOMAIN c.inputs -> DebounceT] /\ s.dinLatch \in [DOMAIN c.inputs -> LatchT]
  BY DEF Typed, Remembered, Fields, MemoryT
<1>3. d \in DebounceT /\ latch \in LatchT
  BY <1>2, DebouncedType, LatchType
<1> HIDE DEF d, latch
<1>4. /\ u.din = s.din \/ u.din = [s.din EXCEPT ![i] = d]
      /\ u.dinLatch = s.dinLatch \/ u.dinLatch = [s.dinLatch EXCEPT ![i] = latch]
      /\ u.var[x] = s.var[x] \/ u.var[x] = 0 \/ u.var[x] = Value(latch.out)
  BY <1>1 DEF DigIn, Shape, Fields, d, latch
<1> HIDE DEF u
<1>5. u.din \in [DOMAIN c.inputs -> DebounceT] /\ u.dinLatch \in [DOMAIN c.inputs -> LatchT]
  BY <1>2, <1>3, <1>4
<1>6. u.var[x] \in VarT(x)
  <2>1. VarT(x) = 0..1 /\ Value(latch.out) \in 0..1
    BY KindTypes, LevelTypes
  <2> HIDE DEF x
  <2> QED BY <1>1, <1>4, <2>1
<1>7. \A f \in Memory("digIn") : u[f] \in MemoryT(c, f)
  BY <1>5 DEF Memory, MemoryT
<1>8. "digIn" \in Kinds /\ i \in DOMAIN SlotsOf("digIn", c) /\ InSlot("digIn", c, s, u, i)
  BY <1>1, DigInInSlot DEF Kinds, SlotsOf, u
<1> QED BY <1>6, <1>7, <1>8, SlotTyped DEF u

\* A virtual input.
LEMMA VirtInTyped ==
  ASSUME NEW c, NEW s, Typed(c, s), NEW i \in DOMAIN c.virtualInputs
  PROVE  Typed(c, VirtIn(c, s, i))
<1> DEFINE u == VirtIn(c, s, i)
           x == <<"virtIn", i>>
           slot == c.virtualInputs[i]
           level == VirtualLevel(slot, Level(s.var[slot.var0]), Level(s.var[slot.var1]),
                                 Level(s.var[slot.var2]), slot.var2 = AlwaysFalse)
           latch == LatchCheck(s.viLatch[i], slot.mode, FALSE, level)
<1>1. Shape(c, s) /\ x \in VarMap(c)
  BY DEF Typed, VarMap, Slots
<1>2. s.viLatch \in [DOMAIN c.virtualInputs -> LatchT]
  BY DEF Typed, Remembered, Fields, MemoryT
<1>3. latch \in LatchT
  <2> HIDE DEF level
  <2> QED BY <1>2, LatchType
<1> HIDE DEF latch
<1>4. /\ u.viLatch = s.viLatch \/ u.viLatch = [s.viLatch EXCEPT ![i] = latch]
      /\ u.var[x] = 0 \/ u.var[x] = Value(latch.out)
  BY <1>1 DEF VirtIn, Shape, Fields, latch
<1> HIDE DEF u
<1>5. u.viLatch \in [DOMAIN c.virtualInputs -> LatchT]
  BY <1>2, <1>3, <1>4
<1>6. u.var[x] \in VarT(x)
  <2>1. VarT(x) = 0..1 /\ Value(latch.out) \in 0..1
    BY KindTypes, LevelTypes
  <2> HIDE DEF x
  <2> QED BY <1>4, <2>1
<1>7. \A f \in Memory("virtIn") : u[f] \in MemoryT(c, f)
  BY <1>5 DEF Memory, MemoryT
<1>8. "virtIn" \in Kinds /\ i \in DOMAIN SlotsOf("virtIn", c) /\ InSlot("virtIn", c, s, u, i)
  BY <1>1, VirtInInSlot DEF Kinds, SlotsOf, u
<1> QED BY <1>6, <1>7, <1>8, SlotTyped DEF u

\* A flasher.
LEMMA FlasherTyped ==
  ASSUME NEW c, NEW s, Typed(c, s), NEW i \in DOMAIN c.flashers
  PROVE  Typed(c, Flasher(c, s, i))
<1> DEFINE u == Flasher(c, s, i)
           x == <<"flasher", i>>
           slot == c.flashers[i]
           r == FlasherUpdate(slot, s.flash[i], s.var[x], Level(s.var[slot.input]))
<1>1. Shape(c, s) /\ x \in VarMap(c)
  BY DEF Typed, VarMap, Slots
<1>2. s.flash \in [DOMAIN c.flashers -> FlashT]
  BY DEF Typed, Remembered, Fields, MemoryT
<1>3. r.v \in 0..1 /\ r.f \in FlashT
  BY <1>2, FlasherTypes
<1> HIDE DEF r
<1>4. /\ u.flash = s.flash \/ u.flash = [s.flash EXCEPT ![i] = r.f]
      /\ u.var[x] = 0 \/ u.var[x] = r.v
  BY <1>1 DEF Flasher, Shape, Fields, r
<1> HIDE DEF u
<1>5. u.flash \in [DOMAIN c.flashers -> FlashT]
  BY <1>2, <1>3, <1>4
<1>6. u.var[x] \in VarT(x)
  <2>1. VarT(x) = 0..1
    BY KindTypes
  <2> HIDE DEF x
  <2> QED BY <1>3, <1>4, <2>1
<1>7. \A f \in Memory("flasher") : u[f] \in MemoryT(c, f)
  BY <1>5 DEF Memory, MemoryT
<1>8. "flasher" \in Kinds /\ i \in DOMAIN SlotsOf("flasher", c) /\ InSlot("flasher", c, s, u, i)
  BY <1>1, FlasherInSlot DEF Kinds, SlotsOf, u
<1> QED BY <1>6, <1>7, <1>8, SlotTyped DEF u

\* A counter.
LEMMA CounterTyped ==
  ASSUME NEW c, Settable(c), NEW s, Typed(c, s), NEW i \in DOMAIN c.counters
  PROVE  Typed(c, Counter(c, s, i))
<1> DEFINE u == Counter(c, s, i)
           x == <<"counter", i>>
           slot == c.counters[i]
           r == CounterUpdate(slot, s.count[i], s.var[x], Level(s.var[slot.incInput]),
                              Level(s.var[slot.decInput]), Level(s.var[slot.resetInput]))
<1>1. Shape(c, s) /\ x \in VarMap(c) /\ s.var[x] \in Nat
  <2>1. x \in VarMap(c)
    BY DEF VarMap, Slots
  <2> QED BY <2>1, KindTypes DEF Typed, VarsTyped
<1>2. s.count \in [DOMAIN c.counters -> CountT]
  BY DEF Typed, Remembered, Fields, MemoryT
<1>3. r.n \in Nat /\ r.k \in CountT
  <2>1. slot.minCount \in Nat /\ slot.maxCount \in Nat /\ s.count[i] \in CountT
    BY <1>2 DEF Settable
  <2> HIDE DEF slot, x
  <2> QED BY <1>1, <2>1, LevelTypes, CounterTypes
<1> HIDE DEF r
<1>4. /\ u.count = s.count \/ u.count = [s.count EXCEPT ![i] = r.k]
      /\ u.var[x] = 0 \/ u.var[x] = r.n
  BY <1>1 DEF Counter, Shape, Fields, r
<1> HIDE DEF u
<1>5. u.count \in [DOMAIN c.counters -> CountT]
  BY <1>2, <1>3, <1>4
<1>6. u.var[x] \in VarT(x)
  <2>1. VarT(x) = Nat
    BY KindTypes
  <2> HIDE DEF x
  <2> QED BY <1>3, <1>4, <2>1
<1>7. \A f \in Memory("counter") : u[f] \in MemoryT(c, f)
  BY <1>5 DEF Memory, MemoryT
<1>8. "counter" \in Kinds /\ i \in DOMAIN SlotsOf("counter", c) /\ InSlot("counter", c, s, u, i)
  BY <1>1, CounterInSlot DEF Kinds, SlotsOf, u
<1> QED BY <1>6, <1>7, <1>8, SlotTyped DEF u

\* Every variable is an integer.
LEMMA VariablesAreIntegers ==
  ASSUME NEW c, NEW s, Typed(c, s), NEW x \in VarMap(c)
  PROVE  s.var[x] \in Int
<1>1. VarT(x) \in {Int, Nat, 0..1}
  BY DEF VarT
<1> QED BY <1>1 DEF Typed, VarsTyped

\* A condition.
LEMMA ConditionTyped ==
  ASSUME NEW c, Settable(c), NEW s, Typed(c, s), NEW i \in DOMAIN c.conditions
  PROVE  Typed(c, Condition(c, s, i))
<1> DEFINE u == Condition(c, s, i)
           x == <<"condition", i>>
           slot == c.conditions[i]
<1>1. Shape(c, s) /\ x \in VarMap(c)
  BY DEF Typed, VarMap, Slots
<1>2. slot.enabled => ConditionValue(slot.operator, s.var[slot.input], slot.arg) \in Nat
  <2> SUFFICES ASSUME slot.enabled PROVE ConditionValue(slot.operator, s.var[slot.input], slot.arg) \in Nat
    OBVIOUS
  <2>1. slot.input \in VarMap(c) /\ slot.arg \in Int
    BY ReferencesExist DEF Settable
  <2>2. s.var[slot.input] \in Int
    BY <2>1, VariablesAreIntegers
  <2> HIDE DEF slot
  <2> QED BY <2>1, <2>2, ConditionType
<1>3. u.var[x] = IF slot.enabled THEN ConditionValue(slot.operator, s.var[slot.input], slot.arg) ELSE 0
  BY <1>1 DEF Condition, Shape, Fields
<1> HIDE DEF u, slot
<1>4. u.var[x] \in VarT(x)
  <2>1. VarT(x) = Nat
    BY KindTypes
  <2> HIDE DEF x
  <2> QED BY <1>2, <1>3, <2>1
<1>5. "condition" \in Kinds /\ i \in DOMAIN SlotsOf("condition", c) /\ InSlot("condition", c, s, u, i)
  BY <1>1, ConditionInSlot DEF Kinds, SlotsOf, u
<1>6. Memory("condition") = {}
  BY DEF Memory
<1> QED BY <1>4, <1>5, <1>6, SlotTyped DEF u

\* Any of them, and so a whole category.
LEMMA UpdateTyped ==
  ASSUME NEW c, Settable(c), NEW s, Typed(c, s), NEW kind \in Kinds,
         NEW i \in DOMAIN SlotsOf(kind, c), NEW pins \in [DOMAIN c.inputs -> BOOLEAN]
  PROVE  Typed(c, Update(kind, c, s, i, pins))
BY OutputTyped, DigInTyped, VirtInTyped, FlasherTyped, CounterTyped, ConditionTyped
   DEF Kinds, SlotsOf, Update

\* By induction over the slots.
LEMMA CategoryTyped ==
  ASSUME NEW c, Settable(c), NEW s, Typed(c, s), NEW kind \in Kinds,
         NEW pins \in [DOMAIN c.inputs -> BOOLEAN]
  PROVE  Typed(c, InSlotOrder(kind, c, s, pins))
<1> DEFINE last == Len(SlotsOf(kind, c))
<1>1. last \in Nat /\ DOMAIN SlotsOf(kind, c) = 1..last
  BY SlotsAreNumbered DEF Settable
<1>2. PICK h : Run(kind, c, s, pins, h)
  BY <1>1, AfterSlots
<1> HIDE DEF last
<1>3. /\ h[0] = s /\ InSlotOrder(kind, c, s, pins) = h[last]
      /\ \A n \in 1..last : h[n] = Update(kind, c, h[n - 1], n, pins)
  BY <1>2 DEF Run, last
<1> DEFINE P == {n \in Nat : n <= last => Typed(c, h[n])}
<1>4. 0 \in P
  BY <1>3
<1>5. ASSUME NEW n \in Nat, n \in P PROVE n + 1 \in P
  <2> SUFFICES ASSUME n + 1 <= last PROVE Typed(c, h[n + 1])
    OBVIOUS
  <2>1. n + 1 \in 1..last /\ (n + 1) - 1 = n /\ Typed(c, h[n])
    BY <1>1, <1>5
  <2>2. h[n + 1] = Update(kind, c, h[n], n + 1, pins)
    BY <1>3, <2>1
  <2> QED BY <1>1, <2>1, <2>2, UpdateTyped
<1>6. last \in P
  <2> HIDE DEF P
  <2> QED BY <1>1, <1>4, <1>5, Counting
<1> QED BY <1>1, <1>3, <1>6

-----------------------------------------------------------------------------
(* The other stages of a cycle.                                            *)

\* Always-false and always-true are variables of no CAN input.
LEMMA AlwaysVariables ==
  ASSUME NEW c
  PROVE  /\ AlwaysFalse \in VarMap(c) /\ AlwaysFalse[1] = "sys"
         /\ AlwaysTrue \in VarMap(c) /\ AlwaysTrue[1] = "sys"
BY DEF VarMap, AlwaysFalse, AlwaysTrue

\* Taking in the frames.
LEMMA ReceiveTyped ==
  ASSUME NEW c, Settable(c), NEW s, Typed(c, s), NEW rx
  PROVE  Typed(c, Receive(c, s, rx))
<1> DEFINE t == Receive(c, s, rx)
           heard == Heard(c, rx)
           value(i) == DecodeFloat(c.canInputs[i], rx[c.canInputs[i].id])
           result(i) == Compare(c.canInputs[i].operator, value(i), c.canInputs[i].operand)
           check(i) == LatchCheck(s.cinLatch[i], c.canInputs[i].mode, FALSE, result(i))
           latch == [i \in DOMAIN c.canInputs |-> IF i \notin heard THEN s.cinLatch[i] ELSE check(i)]
<1>1. Shape(c, s) /\ VarsTyped(c, s.var)
  BY DEF Typed
<1>2. /\ s.cinLatch \in [DOMAIN c.canInputs -> LatchT]
      /\ s.cinAge \in [DOMAIN c.canInputs -> AgeT]
  BY DEF Typed, Remembered, Fields, MemoryT
<1>3. \A i \in DOMAIN c.canInputs : value(i) \in Int /\ check(i) \in LatchT
  <2> SUFFICES ASSUME NEW i \in DOMAIN c.canInputs PROVE value(i) \in Int /\ check(i) \in LatchT
    OBVIOUS
  <2>1. value(i) \in Int
    BY DecodedType DEF Settable
  <2>2. s.cinLatch[i] \in LatchT
    BY <1>2
  <2> HIDE DEF result
  <2> QED BY <2>1, <2>2, LatchType
<1>4. heard \subseteq DOMAIN c.canInputs
  BY DEF Heard
<1> HIDE DEF value, result, check, heard
<1>5. latch \in [DOMAIN c.canInputs -> LatchT]
  BY <1>2, <1>3
<1>6. /\ Shape(c, t)
      /\ \A f \in Fields \ {"var", "cinAge", "cinLatch"} : t[f] = s[f]
  BY <1>1, ReceiveKeeps
<1>7. t.cinLatch = latch
  BY <1>1 DEF Receive, Shape, Fields, heard, value, result, check
<1>8. t.cinAge = [i \in DOMAIN c.canInputs |-> IF i \in heard THEN 0 ELSE s.cinAge[i]]
  BY <1>1 DEF Receive, Shape, Fields, heard
<1>9. \A x \in VarMap(c) :
        t.var[x] = CASE x[1] = "canVal" /\ x[2] \in heard -> value(x[2])
                     [] x[1] = "canIn" /\ x[2] \in heard  -> Value(latch[x[2]].out)
                     [] OTHER                             -> s.var[x]
  BY <1>1 DEF Receive, Shape, Fields, heard, value, result, check
<1> HIDE DEF t, latch
<1>10. t.cinAge \in [DOMAIN c.canInputs -> AgeT]
  <2>1. 0 \in AgeT
    BY TimesAreSane DEF AgeT
  <2> QED BY <1>2, <1>8, <2>1
<1>11. VarsTyped(c, t.var)
  <2>1. ASSUME NEW x \in VarMap(c) PROVE t.var[x] \in VarT(x)
    <3>1. CASE x[1] = "canVal" /\ x[2] \in heard
      BY <1>3, <1>4, <1>9, <3>1 DEF VarT
    <3>2. CASE x[1] = "canIn" /\ x[2] \in heard
      <4>1. t.var[x] = Value(latch[x[2]].out)
        BY <1>9, <3>2
      <4>2. VarT(x) = 0..1
        BY <3>2 DEF VarT
      <4> QED BY <4>1, <4>2, LevelTypes
    <3>3. CASE ~(x[1] = "canVal" /\ x[2] \in heard) /\ ~(x[1] = "canIn" /\ x[2] \in heard)
      BY <1>1, <1>9, <3>3 DEF VarsTyped
    <3> QED BY <3>1, <3>2, <3>3
  <2>2. t.var[AlwaysFalse] = s.var[AlwaysFalse] /\ t.var[AlwaysTrue] = s.var[AlwaysTrue]
    BY <1>9, AlwaysVariables
  <2> QED BY <1>1, <2>1, <2>2 DEF VarsTyped
<1>12. \A f \in Remembered : t[f] \in MemoryT(c, f)
  <2>1. t.cinLatch \in MemoryT(c, "cinLatch") /\ t.cinAge \in MemoryT(c, "cinAge")
    BY <1>5, <1>7, <1>10 DEF MemoryT
  <2>2. \A f \in Remembered : f # "cinLatch" /\ f # "cinAge" => t[f] = s[f]
    BY <1>6 DEF Remembered
  <2> QED BY <2>1, <2>2 DEF Typed
<1>13. Typed(c, t)
  BY <1>6, <1>11, <1>12 DEF Typed
<1> QED BY <1>13 DEF t

\* The time-outs.
LEMMA TimeoutsTyped ==
  ASSUME NEW c, NEW s, Typed(c, s)
  PROVE  Typed(c, CanTimeouts(c, s))
<1> DEFINE t == CanTimeouts(c, s)
           out == TimedOut(c, s)
<1>1. Shape(c, s) /\ VarsTyped(c, s.var) /\ Shape(c, t) /\ \A f \in Fields \ {"var"} : t[f] = s[f]
  BY TimeoutsKeep DEF Typed
<1>2. \A x \in VarMap(c) :
        t.var[x] = IF x[1] \in {"canIn", "canVal"} /\ x[2] \in out THEN 0 ELSE s.var[x]
  BY <1>1 DEF CanTimeouts, Shape, Fields
<1> HIDE DEF t, out
<1>3. VarsTyped(c, t.var)
  <2>1. \A x \in VarMap(c) : 0 \in VarT(x)
    BY DEF VarT
  <2> QED BY <1>1, <1>2, <2>1, AlwaysVariables DEF VarsTyped
<1>4. \A f \in Remembered : t[f] \in MemoryT(c, f)
  BY <1>1 DEF Typed, Remembered
<1>5. Typed(c, t)
  BY <1>1, <1>3, <1>4 DEF Typed
<1> QED BY <1>5 DEF t

\* The CAN outputs.
LEMMA CanOutputsTyped ==
  ASSUME NEW c, Settable(c), NEW s, Typed(c, s)
  PROVE  Typed(c, CanOutputs(c, s))
<1> DEFINE t == CanOutputs(c, s)
           due == {id \in FrameIds(c) : s.wait[id] = 0}
           raw(i) == Raw(c.canOutputs[i], s.var[c.canOutputs[i].input])
           filled(id) == InsertAll([i \in Members(c, id) |-> c.canOutputs[i]],
                                   [i \in Members(c, id) |-> raw(i)], s.data[id])
<1>1. Shape(c, s) /\ VarsTyped(c, s.var) /\ Shape(c, t)
  BY CanOutputsKeep DEF Typed
<1>2. \A f \in Fields \ {"sample", "wait", "data", "tx"} : t[f] = s[f]
  BY <1>1, CanOutputsKeep
<1>3. s.data \in [FrameIds(c) -> SUBSET DataBits] /\ s.wait \in [FrameIds(c) -> Nat]
  BY DEF Typed, Remembered, Fields, MemoryT
<1>4. \A id \in FrameIds(c) : filled(id) \in SUBSET DataBits
  <2> HIDE DEF raw
  <2> QED BY <1>3, FilledType
<1>5. /\ t.wait = [id \in FrameIds(c) |-> IF id \in due THEN FrameInterval(c, id) ELSE s.wait[id]]
      /\ t.data = [id \in FrameIds(c) |-> IF id \in due THEN filled(id) ELSE s.data[id]]
  BY <1>1, <1>3 DEF CanOutputs, Shape, Fields
<1> HIDE DEF t, filled, due
<1>6. t.wait \in [FrameIds(c) -> Nat] /\ t.data \in [FrameIds(c) -> SUBSET DataBits]
  BY <1>3, <1>4, <1>5 DEF Settable
<1>7. \A f \in Remembered : t[f] \in MemoryT(c, f)
  <2>1. t.wait \in MemoryT(c, "wait") /\ t.data \in MemoryT(c, "data")
    BY <1>6 DEF MemoryT
  <2>2. \A f \in Remembered : f # "wait" /\ f # "data" => t[f] = s[f]
    BY <1>2 DEF Remembered
  <2> QED BY <2>1, <2>2 DEF Typed
<1>8. t.var = s.var
  BY <1>2 DEF Fields
<1>9. Typed(c, t)
  BY <1>1, <1>7, <1>8 DEF Typed
<1> QED BY <1>9 DEF t

\* The passing of time.
LEMMA TickTyped ==
  ASSUME NEW c, NEW s, Typed(c, s)
  PROVE  Typed(c, Tick(c, s))
<1> DEFINE t == Tick(c, s)
           older(age) == Older(age, CycleMs, MaxAge)
<1>1. Shape(c, s) /\ VarsTyped(c, s.var) /\ Shape(c, t)
  BY TickKeeps DEF Typed
<1>2. \A f \in Fields \ {"din", "cinAge", "flash", "count", "wait"} : t[f] = s[f]
  BY <1>1, TickKeeps
<1>3. /\ s.din \in [DOMAIN c.inputs -> DebounceT] /\ s.cinAge \in [DOMAIN c.canInputs -> AgeT]
      /\ s.flash \in [DOMAIN c.flashers -> FlashT] /\ s.count \in [DOMAIN c.counters -> CountT]
      /\ s.wait \in [FrameIds(c) -> Nat]
  BY DEF Typed, Remembered, Fields, MemoryT
<1>4. \A age \in AgeT : older(age) \in AgeT
  <2> SUFFICES ASSUME NEW age \in AgeT PROVE older(age) \in AgeT
    OBVIOUS
  <2>1. age \in Int /\ age >= -CycleMs
    BY TimesAreSane DEF AgeT
  <2> QED BY <2>1, OlderType
<1> HIDE DEF older
<1>5. t.din \in [DOMAIN c.inputs -> DebounceT]
  <2>1. t.din = [i \in DOMAIN c.inputs |-> [s.din[i] EXCEPT !.age = older(s.din[i].age)]]
    BY <1>1 DEF Tick, Shape, Fields, older
  <2>2. \A d \in DebounceT : [d EXCEPT !.age = older(d.age)] \in DebounceT
    BY <1>4 DEF DebounceT
  <2> HIDE DEF t
  <2> QED BY <1>3, <2>1, <2>2
<1>6. t.cinAge \in [DOMAIN c.canInputs -> AgeT]
  <2>1. t.cinAge = [i \in DOMAIN c.canInputs |->
                      IF c.canInputs[i].timeoutEnabled THEN older(s.cinAge[i]) ELSE 0]
    BY <1>1 DEF Tick, Shape, Fields, older
  <2>2. 0 \in AgeT
    BY TimesAreSane DEF AgeT
  <2> HIDE DEF t
  <2> QED BY <1>3, <1>4, <2>1, <2>2
<1>7. t.flash \in [DOMAIN c.flashers -> FlashT]
  <2>1. t.flash = [i \in DOMAIN c.flashers |-> [on |-> older(s.flash[i].on), off |-> older(s.flash[i].off)]]
    BY <1>1 DEF Tick, Shape, Fields, older
  <2>2. \A f \in FlashT : [on |-> older(f.on), off |-> older(f.off)] \in FlashT
    BY <1>4 DEF FlashT
  <2> HIDE DEF t
  <2> QED BY <1>3, <2>1, <2>2
<1>8. t.count \in [DOMAIN c.counters -> CountT]
  <2> DEFINE aged(k) == [k EXCEPT !.incAge = older(k.incAge), !.decAge = older(k.decAge)]
  <2>1. t.count = [i \in DOMAIN c.counters |->
                     IF c.counters[i].holdToReset
                     THEN [s.count[i] EXCEPT !.incAge = older(s.count[i].incAge),
                                             !.decAge = older(s.count[i].decAge)]
                     ELSE s.count[i]]
    BY <1>1 DEF Tick, Shape, Fields, older
  <2>2. \A k \in CountT : aged(k) \in CountT
    BY <1>4 DEF CountT
  <2>3. \A i \in DOMAIN c.counters : t.count[i] = aged(s.count[i]) \/ t.count[i] = s.count[i]
    BY <2>1
  <2> HIDE DEF t, aged
  <2>4. t.count = [i \in DOMAIN c.counters |-> t.count[i]]
    BY <2>1
  <2> QED BY <1>3, <2>2, <2>3, <2>4
<1>9. t.wait \in [FrameIds(c) -> Nat]
  <2>1. t.wait = [id \in FrameIds(c) |-> IF s.wait[id] > CycleMs THEN s.wait[id] - CycleMs ELSE 0]
    BY <1>1 DEF Tick, Shape, Fields
  <2> HIDE DEF t
  <2> QED BY <1>3, <2>1, TimesAreSane
<1> HIDE DEF t
<1>10. \A f \in Remembered : t[f] \in MemoryT(c, f)
  <2>1. /\ t.din \in MemoryT(c, "din") /\ t.cinAge \in MemoryT(c, "cinAge")
        /\ t.flash \in MemoryT(c, "flash") /\ t.count \in MemoryT(c, "count")
        /\ t.wait \in MemoryT(c, "wait")
    BY <1>5, <1>6, <1>7, <1>8, <1>9 DEF MemoryT
  <2>2. \A f \in Remembered : f \notin {"din", "cinAge", "flash", "count", "wait"} => t[f] = s[f]
    BY <1>2 DEF Remembered
  <2> QED BY <2>1, <2>2 DEF Typed
<1>11. t.var = s.var
  BY <1>2 DEF Fields
<1>12. Typed(c, t)
  BY <1>1, <1>10, <1>11 DEF Typed
<1> QED BY <1>12 DEF t

\* A cycle.
LEMMA StepTyped ==
  ASSUME NEW c, Settable(c), NEW s, Typed(c, s), NEW pins \in [DOMAIN c.inputs -> BOOLEAN], NEW rx
  PROVE  Typed(c, Step(c, s, pins, rx))
<1>0. Kinds = {"output", "digIn", "virtIn", "flasher", "counter", "condition"}
  BY DEF Kinds
<1>1. Typed(c, Driven(c, s, pins, rx))
  BY <1>0, ReceiveTyped, CategoryTyped DEF Driven
<1>2. Typed(c, Sensed(c, s, pins, rx))
  BY <1>0, <1>1, CategoryTyped DEF Sensed
<1>3. Typed(c, Sent(c, s, pins, rx))
  BY <1>2, TimeoutsTyped, CanOutputsTyped DEF Waited, Sent
<1>4. Typed(c, Combined(c, s, pins, rx))
  BY <1>0, <1>3, CategoryTyped DEF Combined
<1>5. Typed(c, Flashed(c, s, pins, rx))
  BY <1>0, <1>4, CategoryTyped DEF Flashed
<1>6. Typed(c, CountedUp(c, s, pins, rx))
  BY <1>0, <1>5, CategoryTyped DEF CountedUp
<1>7. Typed(c, Decided(c, s, pins, rx))
  BY <1>0, <1>6, CategoryTyped DEF Decided
<1> QED BY <1>7, TickTyped, StepStages

-----------------------------------------------------------------------------
(* The types always hold.                                                  *)

EngineTyped == cfg \in Configs /\ Typed(cfg, sim)

\* The configurations have the settings that the lemmas ask for.
LEMMA ConfigsSettable == \A c \in Configs : Settable(c)
<1> SUFFICES ASSUME NEW c \in Configs PROVE Settable(c)
  OBVIOUS
<1>1. ASSUME NEW id \in FrameIds(c) PROVE FrameInterval(c, id) \in Nat
  <2>1. PICK i \in Assigned(c) : id = c.canOutputs[i].id
    BY DEF FrameIds
  <2> QED BY <2>1, FrameIntervalBounds
<1>2. Runs(c)
  BY ConfigsRun
<1> QED BY <1>1, <1>2, ConfigsTyped DEF Settable

\* At power-on.
LEMMA InitTyped == Init => EngineTyped
<1> SUFFICES ASSUME Init PROVE EngineTyped
  OBVIOUS
<1>1. cfg \in Configs /\ Shape(cfg, sim)
  BY InitShape DEF EngineShape
<1>2. sim = SimInit(cfg)
  BY DEF Init
<1>3. VarsTyped(cfg, sim.var)
  <2>1. \A x \in VarMap(cfg) : sim.var[x] = Value(x = AlwaysTrue)
    BY <1>2 DEF SimInit
  <2>2. \A x \in VarMap(cfg) : 0 \in VarT(x)
    BY DEF VarT
  <2>3. VarT(AlwaysTrue) = 0..1
    BY DEF VarT, AlwaysTrue
  <2>4. AlwaysFalse # AlwaysTrue
    BY DEF AlwaysFalse, AlwaysTrue
  <2> QED BY <2>1, <2>2, <2>3, <2>4, AlwaysVariables DEF VarsTyped, Value
<1>4. \A f \in Remembered : sim[f] \in MemoryT(cfg, f)
  <2>1. 0 \in AgeT
    BY TimesAreSane DEF AgeT
  <2>2. /\ DebounceInit \in DebounceT /\ LatchInit \in LatchT /\ FlasherInit \in FlashT
        /\ CounterInit \in CountT
    BY <2>1 DEF DebounceInit, DebounceT, LatchInit, LatchT, FlasherInit, FlashT, CounterInit, CountT
  <2>3. /\ sim.din = [i \in DOMAIN cfg.inputs |-> DebounceInit]
        /\ sim.dinLatch = [i \in DOMAIN cfg.inputs |-> LatchInit]
        /\ sim.cinAge = [i \in DOMAIN cfg.canInputs |-> 0]
        /\ sim.cinLatch = [i \in DOMAIN cfg.canInputs |-> LatchInit]
        /\ sim.viLatch = [i \in DOMAIN cfg.virtualInputs |-> LatchInit]
        /\ sim.flash = [i \in DOMAIN cfg.flashers |-> FlasherInit]
        /\ sim.count = [i \in DOMAIN cfg.counters |-> CounterInit]
        /\ sim.data = [id \in FrameIds(cfg) |-> {}]
        /\ sim.wait = [id \in FrameIds(cfg) |-> 0]
    BY <1>2 DEF SimInit
  <2> QED BY <2>1, <2>2, <2>3 DEF Remembered, Fields, MemoryT
<1> QED BY <1>1, <1>3, <1>4 DEF EngineTyped, Typed

\* In every cycle.
LEMMA NextTyped == EngineTyped /\ [Next]_vars => EngineTyped'
<1> SUFFICES ASSUME EngineTyped, [Next]_vars PROVE EngineTyped'
  OBVIOUS
<1>1. CASE Next
  <2>1. PICK pins \in [DOMAIN cfg.inputs -> BOOLEAN], rx \in Arrivals(cfg) : Cycle(pins, rx)
    BY <1>1 DEF Next
  <2>2. cfg' = cfg /\ sim' = Step(cfg, sim, pins, rx)
    BY <2>1 DEF Cycle
  <2> QED BY <2>2, ConfigsSettable, StepTyped DEF EngineTyped
<1>2. CASE UNCHANGED vars
  BY <1>2 DEF vars, EngineTyped
<1> QED BY <1>1, <1>2

\* TypeOK holds for every configuration, bus and stimulus: no block leaves the type
\* of its variable, no count becomes negative and no frame grows beyond eight bytes.
THEOREM EngineTypes == Spec => []TypeOK
<1>1. EngineTyped => TypeOK
  BY TypedIsTypeOK DEF EngineTyped
<1> QED BY <1>1, InitTyped, NextTyped, PTL DEF Spec

-----------------------------------------------------------------------------
(* The deployed engine configuration.                                      *)

HORN_PRESS   == Vin(6)
HEATER_PRESS == Vin(7)
STARTER      == <<"output", 1>>
HORN         == <<"output", 7>>

-----------------------------------------------------------------------------
(* The slots that matter.                                                  *)

\* the virtual inputs that the promises are about
Watched == {1, 2, 3, 6, 7}

\* a bit of the state, and a momentary latch that remembers what it shows
Lit(s, x) == Level(s.var[x])
Shows(l)  == l \in LatchT /\ l.out = l.last

\* What holds between two cycles of the engine configuration.  The chord, the starter
\* request and the horn are what their inputs make of them; the arming lags behind
\* the cranking by a cycle, but is lost with the chord; a chord that is held means
\* that the engine does not run.
EngineOrder(s) ==
  /\ \A i \in Watched : Shows(s.viLatch[i])
  /\ Lit(s, CHORD) = (Lit(s, brake) /\ Lit(s, washer))
  /\ Lit(s, START_REQ) = (Lit(s, CHORD) /\ Lit(s, horn))
  /\ Lit(s, HORN_PRESS) = (Lit(s, horn) /\ ~Lit(s, CHORD))
  /\ Lit(s, ARMED) => Lit(s, CHORD) /\ Lit(s, Ctr(2))
  /\ Lit(s, CHORD) => ~Lit(s, Ctr(1))
  /\ \A i \in {1, 2} : s.var[Ctr(i)] \in 0..1 /\ Lit(s, Cnd(i)) = Lit(s, Ctr(i))
  /\ s.count[1].inc = Lit(s, ARMED) /\ s.count[2].inc = Lit(s, START_REQ)
  /\ s.count[1].dec = Lit(s, CHORD) /\ s.count[2].dec = Lit(s, CHORD)
  /\ Lit(s, Ctr(3)) => s.count[3].reset
  /\ ~(Lit(s, STARTER) /\ Lit(s, HORN))
  /\ ~Lit(s, AlwaysFalse)

EngineInv == IsEngine => EngineOrder(sim)

\* both of two terms, or the first of them without the second
TwoTerms(slot, x0, x1) ==
  /\ slot.enabled /\ slot.mode = "momentary" /\ slot.cond0 = "and"
  /\ slot.var0 = x0 /\ slot.not0 = FALSE /\ slot.var1 = x1
  /\ slot.var2 = AlwaysFalse
BothOf(slot, x0, x1)      == TwoTerms(slot, x0, x1) /\ slot.not1 = FALSE
OneWithout(slot, x0, x1)  == TwoTerms(slot, x0, x1) /\ slot.not1 = TRUE

\* The settings of those slots.
LEMMA EngineVirtIns ==
  /\ Watched \subseteq DOMAIN Engine.virtualInputs
  /\ BothOf(Engine.virtualInputs[1], brake, washer)
  /\ BothOf(Engine.virtualInputs[2], CHORD, horn)
  /\ BothOf(Engine.virtualInputs[3], CHORD, CRANKED)
  /\ OneWithout(Engine.virtualInputs[6], horn, CHORD)
  /\ BothOf(Engine.virtualInputs[7], Din(1), ENGINE_RUN)
<1> DEFINE starter == [AndNot(washer, brake) EXCEPT !.cond1 = "and", !.var2 = ENGINE_RUN]
           vins == <<And(brake, washer), And(Vin(1), horn), And(Vin(1), CRANKED),
                     Or(ENGINE_RUN, Vin(2)), starter,
                     AndNot(horn, Vin(1)), And(Din(1), ENGINE_RUN), And(HEATER_LATCHED, ENGINE_RUN)>>
<1>1. Engine.virtualInputs = << >> \o vins
  BY DEF Engine, EngineWith
<1> HIDE DEF starter
<1>2. vins \in Seq({vins[i] : i \in 1..8})
  OBVIOUS
<1>3. Engine.virtualInputs = vins
  <2> HIDE DEF vins
  <2> QED BY <1>1, <1>2, ConcatEmptySeq
<1> QED BY <1>3 DEF Watched, And, AndNot, Both, CHORD, TwoTerms, BothOf, OneWithout
\* a counter that is a latch: one of its inputs sets it and the other one clears it
LatchSlot(slot, inc, incEdge, dec, decEdge) ==
  /\ slot.enabled /\ slot.holdToReset = FALSE /\ slot.wrapAround = FALSE
  /\ slot.minCount = 0 /\ slot.maxCount = 1
  /\ slot.resetInput = AlwaysFalse /\ slot.resetEdge = "rising"
  /\ slot.incInput = inc /\ slot.incEdge = incEdge
  /\ slot.decInput = dec /\ slot.decEdge = decEdge

\* one that the fall of an input clears
ToggleSlot(slot, inc, reset) ==
  /\ slot.enabled /\ slot.holdToReset = FALSE
  /\ slot.resetInput = reset /\ slot.resetEdge = "falling"
  /\ slot.incInput = inc /\ slot.incEdge = "rising"
  /\ slot.decInput = AlwaysFalse /\ slot.decEdge = "rising"

\* The counters, and the conditions that read them.
LEMMA EngineBlocks ==
  /\ 1..3 \subseteq DOMAIN Engine.counters /\ 1..3 \subseteq DOMAIN Engine.conditions
  /\ LatchSlot(Engine.counters[1], ARMED, "falling", CHORD, "rising")
  /\ LatchSlot(Engine.counters[2], START_REQ, "rising", CHORD, "falling")
  /\ ToggleSlot(Engine.counters[3], HEATER_PRESS, ENGINE_RUN)
  /\ \A i \in 1..3 : Engine.conditions[i] = Cond(Ctr(i), "ge", 1)
<1> DEFINE k == Engine.counters
           d == Engine.conditions
           toggle == Count(Vin(7), "rising", AlwaysFalse, "rising", ENGINE_RUN, "falling", 1, TRUE)
<1>1. k = <<Latch(Vin(3), "falling", Vin(1), "rising"), Latch(Vin(2), "rising", Vin(1), "falling"), toggle>>
  <2>1. k = <<Latch(Vin(0 + 3), "falling", Vin(0 + 1), "rising"),
              Latch(Vin(0 + 2), "rising", Vin(0 + 1), "falling"),
              Count(Vin(0 + 7), "rising", AlwaysFalse, "rising", ENGINE_RUN, "falling", 1, TRUE)>>
    BY Zenon DEF Engine, EngineWith
  <2>2. 0 + 3 = 3 /\ 0 + 1 = 1 /\ 0 + 2 = 2 /\ 0 + 7 = 7
    OBVIOUS
  <2> QED BY <2>1, <2>2, Zenon
<1>2. d = <<Cond(Ctr(1), "ge", 1), Cond(Ctr(2), "ge", 1), Cond(Ctr(3), "ge", 1)>>
  BY DEF Engine, EngineWith
<1>3. \A inc, incEdge, dec, decEdge :
        LatchSlot(Latch(inc, incEdge, dec, decEdge), inc, incEdge, dec, decEdge)
  BY DEF LatchSlot, Latch, Count
<1>4. ToggleSlot(toggle, Vin(7), ENGINE_RUN)
  BY DEF ToggleSlot, Count
<1> HIDE DEF k, d, toggle
<1>5. 1..3 \subseteq DOMAIN k /\ 1..3 \subseteq DOMAIN d
  BY <1>1, <1>2
<1>6. /\ LatchSlot(k[1], Vin(3), "falling", Vin(1), "rising")
      /\ LatchSlot(k[2], Vin(2), "rising", Vin(1), "falling")
      /\ ToggleSlot(k[3], Vin(7), ENGINE_RUN)
  BY <1>1, <1>3, <1>4
<1>7. \A i \in 1..3 : d[i] = Cond(Ctr(i), "ge", 1)
  BY <1>2
<1> QED BY <1>5, <1>6, <1>7 DEF k, d, CHORD, ARMED, START_REQ, HEATER_PRESS

\* The outputs that the promises are about, and the CAN inputs.
LEMMA EngineEnds ==
  /\ {1, 6, 7} \subseteq DOMAIN Engine.outputs
  /\ Engine.outputs[1] = Output(START_REQ) /\ Engine.outputs[6] = Output(START_REQ)
  /\ Engine.outputs[7] = Output(HORN_PRESS)
  /\ 1..3 \subseteq DOMAIN Engine.canInputs
  /\ \A i \in 1..3 :
       LET slot == Engine.canInputs[i]
       IN  slot.enabled /\ slot.bitLength = 1 /\ slot.mode = "momentary"
<1> DEFINE o == Engine.outputs
           k == Engine.canInputs
<1>1. /\ o = <<Output(Vin(2)), Output(Vin(4)), Output(Vin(5)), Output(Vin(4)), Output(ENGINE_RUN),
             Output(Vin(2)), Output(Vin(6)), Output(AlwaysTrue)>>
      /\ k = <<Board(1), Board(8), Switch("0x300", 0)>>
  BY DEF Engine, EngineWith
<1> HIDE DEF o, k
<1>2. {1, 6, 7} \subseteq DOMAIN o /\ o[1] = Output(Vin(2)) /\ o[6] = Output(Vin(2)) /\ o[7] = Output(Vin(6))
  BY <1>1
<1>3. /\ 1..3 \subseteq DOMAIN k
      /\ \A i \in 1..3 : k[i].enabled /\ k[i].bitLength = 1 /\ k[i].mode = "momentary"
  <2> DEFINE Fits(slot) == slot.enabled /\ slot.bitLength = 1 /\ slot.mode = "momentary"
  <2>1. \A id, bit : Fits(Switch(id, bit))
    BY DEF Switch, CanInput
  <2>2. Fits(Board(1)) /\ Fits(Board(8)) /\ Fits(Switch("0x300", 0))
    BY <2>1 DEF Board
  <2> HIDE DEF Fits
  <2>3. 1..3 \subseteq DOMAIN k /\ \A i \in 1..3 : Fits(k[i])
    BY <1>1, <2>2
  <2> QED BY <2>3 DEF Fits
<1> QED BY <1>2, <1>3 DEF o, k, START_REQ, HORN_PRESS

-----------------------------------------------------------------------------
(* One cycle.                                                              *)

\* A momentary latch that shows what it remembers shows the new level.
LEMMA LatchFollows ==
  ASSUME NEW l, Shows(l), NEW level, IsLevel(level)
  PROVE  LET k == LatchCheck(l, "momentary", FALSE, level)
         IN  Shows(k) /\ Level(Value(k.out)) = level
<1> DEFINE k == LatchCheck(l, "momentary", FALSE, level)
<1>1. k \in LatchT /\ k.last = level /\ k.out = level
  BY DEF Shows, LatchT, LatchCheck, IsLevel
<1> HIDE DEF k
<1>2. k.out = level
  BY <1>1
<1>3. Level(Value(k.out)) = level
  BY <1>2 DEF IsLevel, Level, Value
<1> QED BY <1>1, <1>3 DEF Shows, k

\* The constant variable that is off stays so.
LEMMA AlwaysFalseStays ==
  ASSUME NEW c \in Configs, NEW s, NEW pins, NEW rx, Shape(c, s)
  PROVE  Step(c, s, pins, rx).var[AlwaysFalse] = s.var[AlwaysFalse]
<1>1. AlwaysFalse \in VarMap(c) /\ AlwaysFalse[1] = "sys"
  BY DEF VarMap, AlwaysFalse
<1> QED BY <1>1, ConfigsRun, VariablesPass
\* What a cycle makes of a virtual input over two terms.
LEMMA TwoTermsStep ==
  ASSUME NEW c \in Configs, NEW s, NEW pins, NEW rx, Shape(c, s), NEW t, t = Step(c, s, pins, rx),
         NEW i \in DOMAIN c.virtualInputs, Shows(s.viLatch[i]),
         NEW x0, NEW x1, TwoTerms(c.virtualInputs[i], x0, x1)
  PROVE  LET Read(x) == Level(Reading("virtIn", i, s, t, x))
         IN  /\ Shows(t.viLatch[i])
             /\ BothOf(c.virtualInputs[i], x0, x1) => Lit(t, Vin(i)) = (Read(x0) /\ Read(x1))
             /\ OneWithout(c.virtualInputs[i], x0, x1) => Lit(t, Vin(i)) = (Read(x0) /\ ~Read(x1))
<1> DEFINE slot == c.virtualInputs[i]
           Read(x) == Reading("virtIn", i, s, t, x)
           level == VirtualLevel(slot, Level(Read(slot.var0)), Level(Read(slot.var1)),
                                 Level(Read(slot.var2)), slot.var2 = AlwaysFalse)
           latch == VirtLatch(slot, s.viLatch[i], Read(slot.var0), Read(slot.var1), Read(slot.var2))
<1>1. slot.enabled /\ slot.mode = "momentary"
  BY DEF TwoTerms
<1>2. t.viLatch[i] = latch /\ t.var[<<"virtIn", i>>] = Value(latch.out)
  BY <1>1, ConfigsRun, CycleVirtIn
<1> HIDE DEF Read
<1>3. latch = LatchCheck(s.viLatch[i], "momentary", FALSE, level)
  BY <1>1 DEF VirtLatch
<1>4. /\ BothOf(slot, x0, x1) => level = (Level(Read(x0)) /\ Level(Read(x1)))
      /\ OneWithout(slot, x0, x1) => level = (Level(Read(x0)) /\ ~Level(Read(x1)))
      /\ IsLevel(level)
  BY DEF VirtualLevel, Combine, Level, IsLevel, TwoTerms, BothOf, OneWithout
<1> HIDE DEF level, latch
<1>5. /\ Shows(LatchCheck(s.viLatch[i], "momentary", FALSE, level))
      /\ Level(Value(LatchCheck(s.viLatch[i], "momentary", FALSE, level).out)) = level
  BY <1>4, LatchFollows
<1>6. Shows(latch) /\ Level(Value(latch.out)) = level
  BY <1>3, <1>5
<1> QED BY <1>2, <1>4, <1>6 DEF Lit, Vin, Read

\* The virtual inputs of the engine after a cycle.
LEMMA PressesStep ==
  ASSUME Engine \in Configs, NEW s, NEW pins, NEW rx, Shape(Engine, s),
         NEW t, t = Step(Engine, s, pins, rx), \A i \in Watched : Shows(s.viLatch[i])
  PROVE  /\ \A i \in Watched : Shows(t.viLatch[i])
         /\ Lit(t, CHORD) = (Lit(t, brake) /\ Lit(t, washer))
         /\ Lit(t, START_REQ) = (Lit(t, CHORD) /\ Lit(t, horn))
         /\ Lit(t, ARMED) = (Lit(t, CHORD) /\ Lit(s, CRANKED))
         /\ Lit(t, HORN_PRESS) = (Lit(t, horn) /\ ~Lit(t, CHORD))
         /\ Lit(t, HEATER_PRESS) => Lit(s, ENGINE_RUN)
<1> DEFINE v == Engine.virtualInputs
           Read(i, x) == Level(Reading("virtIn", i, s, t, x))
           Shown(i, x0, x1) ==
             /\ Shows(t.viLatch[i])
             /\ BothOf(v[i], x0, x1) => Lit(t, Vin(i)) = (Read(i, x0) /\ Read(i, x1))
             /\ OneWithout(v[i], x0, x1) => Lit(t, Vin(i)) = (Read(i, x0) /\ ~Read(i, x1))
<1>1. /\ Shown(1, brake, washer) /\ Shown(2, CHORD, horn) /\ Shown(3, CHORD, CRANKED)
      /\ Shown(6, horn, CHORD) /\ Shown(7, Din(1), ENGINE_RUN)
  <2>1. \A i \in Watched : i \in DOMAIN v
    BY EngineVirtIns
  <2>2. ASSUME NEW i \in Watched, NEW x0, NEW x1, TwoTerms(v[i], x0, x1)
        PROVE  Shown(i, x0, x1)
    BY <2>1, <2>2, TwoTermsStep
  <2> HIDE DEF Shown
  <2> QED BY <2>2, EngineVirtIns DEF Watched, BothOf, OneWithout
<1>2. /\ Read(1, brake) = Lit(t, brake) /\ Read(1, washer) = Lit(t, washer)
      /\ Read(2, CHORD) = Lit(t, CHORD) /\ Read(2, horn) = Lit(t, horn)
      /\ Read(3, CHORD) = Lit(t, CHORD) /\ Read(3, CRANKED) = Lit(s, CRANKED)
      /\ Read(6, CHORD) = Lit(t, CHORD) /\ Read(6, horn) = Lit(t, horn)
      /\ Read(7, ENGINE_RUN) = Lit(s, ENGINE_RUN)
  BY DEF Reading, Later, Lit, brake, washer, horn, CHORD, CRANKED, ENGINE_RUN, Vin, Cin, Cnd
<1> HIDE DEF Read
<1> QED BY <1>1, <1>2, EngineVirtIns DEF Watched, CHORD, START_REQ, ARMED, HORN_PRESS, HEATER_PRESS
\* An update u of a latch that was n, with the memory k, from the numbers that its inputs have.
IsBit(n) == n \in 0..1
Latched(u, k, n, incEdge, x0, decEdge, x1) ==
  /\ u.n = IF Edge(decEdge, k.dec, Level(x1)) THEN 0 ELSE IF Edge(incEdge, k.inc, Level(x0)) THEN 1 ELSE n
  /\ u.k.inc = Level(x0) /\ u.k.dec = Level(x1)

\* Clearing it comes last, so it wins.
LEMMA LatchCounts ==
  ASSUME NEW slot, NEW inc, NEW incEdge, NEW dec, NEW decEdge, LatchSlot(slot, inc, incEdge, dec, decEdge),
         NEW k, NEW n, IsBit(n), NEW x0, NEW x1, NEW x2, ~Level(x2)
  PROVE  Latched(CountOn(slot, k, n, x0, x1, x2), k, n, incEdge, x0, decEdge, x1)
<1>1. ~ResetFires(slot, k, Level(x0), Level(x1), Level(x2))
  BY DEF ResetFires, HeldToReset, LatchSlot, Edge
<1>2. (n = 0 \/ n = 1) /\ CountUp(slot, n) = 1 /\ CountDown(slot, 0) = 0 /\ CountDown(slot, 1) = 0
  BY DEF CountUp, CountDown, LatchSlot, IsBit
<1> DEFINE up == Edge(slot.incEdge, k.inc, Level(x0))
           down == Edge(slot.decEdge, k.dec, Level(x1))
           u == Counted(slot, k, n, Level(x0), Level(x1), Level(x2))
<1>3. /\ u.n = IF down THEN CountDown(slot, IF up THEN CountUp(slot, n) ELSE n)
               ELSE IF up THEN CountUp(slot, n) ELSE n
      /\ u.k.inc = Level(x0) /\ u.k.dec = Level(x1)
  BY DEF Counted
<1>4. CountOn(slot, k, n, x0, x1, x2) = u
  BY <1>1 DEF CountOn, CounterUpdate
<1>5. up = Edge(incEdge, k.inc, Level(x0)) /\ down = Edge(decEdge, k.dec, Level(x1))
  BY DEF LatchSlot
<1> HIDE DEF u, up, down
<1>6. u.n = IF down THEN 0 ELSE IF up THEN 1 ELSE n
  BY <1>2, <1>3
<1> QED BY <1>3, <1>4, <1>5, <1>6 DEF Latched

\* An update of a toggle that cannot be pressed while its reset is low: it is on afterwards
\* only if the reset is high, and remembers that.
LEMMA ToggleCounts ==
  ASSUME NEW slot, NEW inc, NEW reset, ToggleSlot(slot, inc, reset),
         NEW k, NEW n, n = 0 \/ k.reset, NEW x0, NEW x1, NEW x2, ~Level(x1), Level(x0) => Level(x2)
  PROVE  LET u == CountOn(slot, k, n, x0, x1, x2)
         IN  Level(u.n) => Level(x2) /\ u.k.reset
<1> DEFINE u == CountOn(slot, k, n, x0, x1, x2)
<1>1. CASE Level(x2)
  <2>1. ~ResetFires(slot, k, Level(x0), Level(x1), Level(x2))
    BY <1>1 DEF ResetFires, HeldToReset, ToggleSlot, Edge
  <2>2. u = Counted(slot, k, n, Level(x0), Level(x1), Level(x2))
    BY <2>1 DEF CountOn, CounterUpdate
  <2>3. u.k.reset = Level(x2)
    BY <2>2 DEF Counted
  <2> QED BY <1>1, <2>3
<1>2. CASE ~Level(x2) /\ k.reset
  <2>1. ResetFires(slot, k, Level(x0), Level(x1), Level(x2))
    BY <1>2 DEF ResetFires, ToggleSlot, Edge
  <2>2. u.n = 0
    BY <2>1 DEF CountOn, CounterUpdate
  <2> QED BY <2>2 DEF Level
<1>3. CASE ~Level(x2) /\ ~k.reset
  <2>1. ~ResetFires(slot, k, Level(x0), Level(x1), Level(x2))
    BY <1>3 DEF ResetFires, HeldToReset, ToggleSlot, Edge
  <2>2. u = Counted(slot, k, n, Level(x0), Level(x1), Level(x2))
    BY <2>1 DEF CountOn, CounterUpdate
  <2>3. u.n = n
    BY <1>3, <2>2 DEF Counted, ToggleSlot, Edge
  <2> QED BY <1>3, <2>3 DEF Level
<1> QED BY <1>1, <1>2, <1>3
\* The counters of the engine after a cycle.
LEMMA CountsStep ==
  ASSUME Engine \in Configs, NEW s, NEW pins, NEW rx, Shape(Engine, s),
         NEW t, t = Step(Engine, s, pins, rx),
         s.var[Ctr(1)] \in 0..1, s.var[Ctr(2)] \in 0..1, ~Lit(s, AlwaysFalse),
         Lit(s, Ctr(3)) => s.count[3].reset, Lit(t, HEATER_PRESS) => Lit(s, ENGINE_RUN)
  PROVE  /\ t.var[Ctr(1)] = IF Edge("rising", s.count[1].dec, Lit(t, CHORD)) THEN 0
                            ELSE IF Edge("falling", s.count[1].inc, Lit(t, ARMED)) THEN 1
                            ELSE s.var[Ctr(1)]
         /\ t.var[Ctr(2)] = IF Edge("falling", s.count[2].dec, Lit(t, CHORD)) THEN 0
                            ELSE IF Edge("rising", s.count[2].inc, Lit(t, START_REQ)) THEN 1
                            ELSE s.var[Ctr(2)]
         /\ t.count[1].inc = Lit(t, ARMED) /\ t.count[1].dec = Lit(t, CHORD)
         /\ t.count[2].inc = Lit(t, START_REQ) /\ t.count[2].dec = Lit(t, CHORD)
         /\ Lit(t, Ctr(3)) => Lit(s, ENGINE_RUN) /\ t.count[3].reset
<1> DEFINE k == Engine.counters
           Read(i, x) == Reading("counter", i, s, t, x)
           u(i) == CountOn(k[i], s.count[i], s.var[Ctr(i)],
                           Read(i, k[i].incInput), Read(i, k[i].decInput), Read(i, k[i].resetInput))
<1>1. ASSUME NEW i \in 1..3 PROVE t.var[Ctr(i)] = u(i).n /\ t.count[i] = u(i).k
  <2>1. i \in DOMAIN k /\ k[i].enabled /\ ~k[i].holdToReset
    BY EngineBlocks DEF LatchSlot, ToggleSlot
  <2>2. t.var[<<"counter", i>>] = u(i).n /\ t.count[i] = CountAged(k[i], u(i).k)
    BY <2>1, ConfigsRun, CycleCounts DEF Ctr
  <2> HIDE DEF u, k
  <2> QED BY <2>1, <2>2 DEF CountAged, Ctr
<1>2. t.var[AlwaysFalse] = s.var[AlwaysFalse]
  BY AlwaysFalseStays
<1>3. \A i \in 1..3 : /\ Read(i, CHORD) = t.var[CHORD] /\ Read(i, ARMED) = t.var[ARMED]
                      /\ Read(i, START_REQ) = t.var[START_REQ]
                      /\ Read(i, HEATER_PRESS) = t.var[HEATER_PRESS]
                      /\ Read(i, ENGINE_RUN) = s.var[ENGINE_RUN]
                      /\ Read(i, AlwaysFalse) = s.var[AlwaysFalse]
  BY <1>2 DEF Reading, Later, CHORD, ARMED, START_REQ, HEATER_PRESS, ENGINE_RUN, AlwaysFalse, Vin, Cnd
<1> HIDE DEF Read
<1>4. /\ u(1) = CountOn(k[1], s.count[1], s.var[Ctr(1)], t.var[ARMED], t.var[CHORD], s.var[AlwaysFalse])
      /\ u(2) = CountOn(k[2], s.count[2], s.var[Ctr(2)], t.var[START_REQ], t.var[CHORD], s.var[AlwaysFalse])
      /\ u(3) = CountOn(k[3], s.count[3], s.var[Ctr(3)], t.var[HEATER_PRESS], s.var[AlwaysFalse],
                        s.var[ENGINE_RUN])
  BY <1>3, EngineBlocks DEF LatchSlot, ToggleSlot
<1> HIDE DEF u, k
<1>9. ~Level(s.var[AlwaysFalse])
  BY DEF Lit
<1>5. Latched(u(1), s.count[1], s.var[Ctr(1)], "falling", t.var[ARMED], "rising", t.var[CHORD])
  <2>1. LatchSlot(k[1], ARMED, "falling", CHORD, "rising") /\ IsBit(s.var[Ctr(1)])
    BY EngineBlocks DEF k, IsBit
  <2> QED BY <1>4, <1>9, <2>1, LatchCounts
<1>6. Latched(u(2), s.count[2], s.var[Ctr(2)], "rising", t.var[START_REQ], "falling", t.var[CHORD])
  <2>1. LatchSlot(k[2], START_REQ, "rising", CHORD, "falling") /\ IsBit(s.var[Ctr(2)])
    BY EngineBlocks DEF k, IsBit
  <2> QED BY <1>4, <1>9, <2>1, LatchCounts
<1>7. Level(u(3).n) => Level(s.var[ENGINE_RUN]) /\ u(3).k.reset
  <2>1. s.var[Ctr(3)] = 0 \/ s.count[3].reset
    BY DEF Lit, Level
  <2>2. ToggleSlot(k[3], HEATER_PRESS, ENGINE_RUN) /\ ~Level(s.var[AlwaysFalse])
        /\ (Level(t.var[HEATER_PRESS]) => Level(s.var[ENGINE_RUN]))
    BY EngineBlocks DEF Lit, k
  <2> QED BY <1>4, <2>1, <2>2, ToggleCounts
<1>8. \A i \in {1, 2, 3} : t.var[Ctr(i)] = u(i).n /\ t.count[i] = u(i).k
  BY <1>1
<1> QED BY <1>5, <1>6, <1>7, <1>8 DEF Lit, Latched

\* The conditions and the outputs of the engine after a cycle.
LEMMA EndsStep ==
  ASSUME Engine \in Configs, NEW s, NEW pins, NEW rx, Shape(Engine, s),
         NEW t, t = Step(Engine, s, pins, rx),
         t.var[Ctr(1)] \in 0..1, t.var[Ctr(2)] \in 0..1
  PROVE  /\ \A i \in {1, 2} : Lit(t, Cnd(i)) = Lit(t, Ctr(i))
         /\ \A i \in {1, 6} : Lit(t, <<"output", i>>) = Lit(s, START_REQ)
         /\ Lit(t, HORN) = Lit(s, HORN_PRESS)
<1>1. ASSUME NEW i \in {1, 2} PROVE Lit(t, Cnd(i)) = Lit(t, Ctr(i))
  <2> DEFINE slot == Engine.conditions[i]
  <2>1. i \in DOMAIN Engine.conditions /\ slot = Cond(Ctr(i), "ge", 1)
    BY EngineBlocks
  <2>2. slot.enabled /\ slot.operator = "ge" /\ slot.input = Ctr(i) /\ slot.arg = 1
    BY <2>1 DEF Cond
  <2> HIDE DEF slot
  <2>3. t.var[<<"condition", i>>] =
          ConditionValue(slot.operator, Reading("condition", i, s, t, slot.input), slot.arg)
    BY <2>1, <2>2, ConfigsRun, CycleCondition DEF slot
  <2>4. Reading("condition", i, s, t, Ctr(i)) = t.var[Ctr(i)]
    BY DEF Reading, Later, Ctr
  <2>5. t.var[Cnd(i)] = ConditionValue("ge", t.var[Ctr(i)], 1)
    BY <2>2, <2>3, <2>4 DEF Cnd
  <2>6. t.var[Ctr(i)] \in 0..1
    OBVIOUS
  <2> QED BY <2>5, <2>6 DEF ConditionValue, Compare, Value, Lit, Level
<1>2. ASSUME NEW i \in {1, 6, 7}, NEW from, Engine.outputs[i] = Output(from),
             from[1] \notin {"canIn", "canVal", "output"}
      PROVE  Lit(t, <<"output", i>>) = Lit(s, from)
  <2>1. i \in DOMAIN Engine.outputs /\ Engine.outputs[i].enabled /\ Engine.outputs[i].input = from
    BY <1>2, EngineEnds DEF Output
  <2>2. t.var[<<"output", i>>] = Value(Level(s.var[from]))
    BY <1>2, <2>1, ConfigsRun, CycleLag
  <2> QED BY <2>2 DEF Lit, Level, Value
<1>3. /\ START_REQ[1] \notin {"canIn", "canVal", "output"}
      /\ HORN_PRESS[1] \notin {"canIn", "canVal", "output"}
  BY DEF START_REQ, HORN_PRESS, Vin
<1> QED BY <1>1, <1>2, <1>3, EngineEnds DEF HORN
-----------------------------------------------------------------------------
(* What a cycle of the engine configuration keeps, and what it may do.     *)

\* How the chord and the two latches move: a press of the chord clears the one that says
\* that the engine runs, its release the one that says that it cranked, and to be released
\* with the engine running the chord must have cranked it.
Moves(s, t) ==
  LET chord == Lit(s, CHORD)   chordNext == Lit(t, CHORD)
      runs  == Lit(s, Ctr(1))  runsNext  == Lit(t, Ctr(1))
      cranked == Lit(s, Ctr(2))  crankedNext == Lit(t, Ctr(2))
  IN  /\ chordNext => ~runsNext
      /\ chord /\ chordNext /\ cranked => crankedNext
      /\ chord /\ ~chordNext => ~crankedNext /\ (runsNext => cranked)
      /\ ~chord /\ ~chordNext => runsNext = runs /\ crankedNext = cranked

\* A cycle keeps EngineOrder and moves as it should.
LEMMA EngineStep ==
  ASSUME Engine \in Configs, NEW s, NEW pins, NEW rx, Shape(Engine, s),
         NEW t, t = Step(Engine, s, pins, rx), EngineOrder(s)
  PROVE  /\ EngineOrder(t) /\ Moves(s, t)
         /\ Lit(s, ARMED) /\ ~Lit(t, CHORD) => Lit(t, ENGINE_RUN)
         /\ ~Lit(s, ENGINE_RUN) => ~Lit(t, Ctr(3))
         /\ \A i \in {1, 6} : Lit(t, <<"output", i>>) = Lit(s, START_REQ)
<1>1. /\ \A i \in Watched : Shows(t.viLatch[i])
      /\ Lit(t, CHORD) = (Lit(t, brake) /\ Lit(t, washer))
      /\ Lit(t, START_REQ) = (Lit(t, CHORD) /\ Lit(t, horn))
      /\ Lit(t, ARMED) = (Lit(t, CHORD) /\ Lit(s, CRANKED))
      /\ Lit(t, HORN_PRESS) = (Lit(t, horn) /\ ~Lit(t, CHORD))
      /\ Lit(t, HEATER_PRESS) => Lit(s, ENGINE_RUN)
  BY PressesStep DEF EngineOrder
<1>2. /\ s.var[Ctr(1)] \in 0..1 /\ s.var[Ctr(2)] \in 0..1
      /\ Lit(s, ENGINE_RUN) = Lit(s, Ctr(1)) /\ Lit(s, CRANKED) = Lit(s, Ctr(2))
      /\ ~Lit(s, AlwaysFalse) /\ (Lit(s, Ctr(3)) => s.count[3].reset)
  BY DEF EngineOrder, ENGINE_RUN, CRANKED
<1>3. /\ t.var[Ctr(1)] = IF Edge("rising", s.count[1].dec, Lit(t, CHORD)) THEN 0
                         ELSE IF Edge("falling", s.count[1].inc, Lit(t, ARMED)) THEN 1
                         ELSE s.var[Ctr(1)]
      /\ t.var[Ctr(2)] = IF Edge("falling", s.count[2].dec, Lit(t, CHORD)) THEN 0
                         ELSE IF Edge("rising", s.count[2].inc, Lit(t, START_REQ)) THEN 1
                         ELSE s.var[Ctr(2)]
      /\ t.count[1].inc = Lit(t, ARMED) /\ t.count[1].dec = Lit(t, CHORD)
      /\ t.count[2].inc = Lit(t, START_REQ) /\ t.count[2].dec = Lit(t, CHORD)
      /\ Lit(t, Ctr(3)) => Lit(s, ENGINE_RUN) /\ t.count[3].reset
  BY <1>1, <1>2, CountsStep
<1>4. t.var[Ctr(1)] \in 0..1 /\ t.var[Ctr(2)] \in 0..1
  BY <1>2, <1>3
<1>5. /\ \A i \in {1, 2} : Lit(t, Cnd(i)) = Lit(t, Ctr(i))
      /\ \A i \in {1, 6} : Lit(t, <<"output", i>>) = Lit(s, START_REQ)
      /\ Lit(t, HORN) = Lit(s, HORN_PRESS)
  BY <1>4, EndsStep
<1>6. ~Lit(t, AlwaysFalse)
  BY <1>2, AlwaysFalseStays DEF Lit
<1>7. /\ s.count[1].inc = Lit(s, ARMED) /\ s.count[1].dec = Lit(s, CHORD)
      /\ s.count[2].inc = Lit(s, START_REQ) /\ s.count[2].dec = Lit(s, CHORD)
      /\ Lit(s, ARMED) => Lit(s, CHORD) /\ Lit(s, Ctr(2))
      /\ Lit(s, START_REQ) => Lit(s, CHORD)
      /\ Lit(s, CHORD) => ~Lit(s, Ctr(1))
      /\ ~(Lit(s, START_REQ) /\ Lit(s, HORN_PRESS))
  BY DEF EngineOrder
<1> DEFINE presses   == ~Lit(s, CHORD) /\ Lit(t, CHORD)
           releases  == Lit(s, CHORD) /\ ~Lit(t, CHORD)
           disarms   == Lit(s, ARMED) /\ ~Lit(t, ARMED)
           cranks    == ~Lit(s, START_REQ) /\ Lit(t, START_REQ)
           running   == Lit(t, Ctr(1))
           hasRun    == Lit(s, Ctr(1))
           cranked   == Lit(t, Ctr(2))
           hadCranked == Lit(s, Ctr(2))
<1>8. /\ presses => ~running
      /\ ~presses /\ disarms => running
      /\ ~presses /\ ~disarms => running = hasRun
      /\ releases => ~cranked
      /\ ~releases /\ cranks => cranked
      /\ ~releases /\ ~cranks => cranked = hadCranked
  <2>1. /\ Edge("rising", s.count[1].dec, Lit(t, CHORD)) = (~Lit(s, CHORD) /\ Lit(t, CHORD))
        /\ Edge("falling", s.count[1].inc, Lit(t, ARMED)) = (Lit(s, ARMED) /\ ~Lit(t, ARMED))
    BY <1>7 DEF Edge, Lit, Level
  <2>2. /\ Edge("falling", s.count[2].dec, Lit(t, CHORD)) = (Lit(s, CHORD) /\ ~Lit(t, CHORD))
        /\ Edge("rising", s.count[2].inc, Lit(t, START_REQ)) = (~Lit(s, START_REQ) /\ Lit(t, START_REQ))
    BY <1>7 DEF Edge, Lit, Level
  <2> HIDE DEF presses, releases, disarms, cranks
  <2>3. t.var[Ctr(1)] = IF presses THEN 0 ELSE IF disarms THEN 1 ELSE s.var[Ctr(1)]
    BY <1>3, <2>1 DEF presses, disarms
  <2>4. t.var[Ctr(2)] = IF releases THEN 0 ELSE IF cranks THEN 1 ELSE s.var[Ctr(2)]
    BY <1>3, <2>2 DEF releases, cranks
  <2> QED BY <2>3, <2>4 DEF Lit, Level
<1>9. /\ Lit(t, ARMED) => Lit(t, CHORD) /\ Lit(t, Ctr(2))
      /\ Lit(t, CHORD) => ~Lit(t, Ctr(1))
  BY <1>1, <1>2, <1>7, <1>8
<1>10. Moves(s, t)
  BY <1>1, <1>2, <1>7, <1>8, <1>9 DEF Moves
<1>11. Lit(s, ARMED) /\ ~Lit(t, CHORD) => Lit(t, ENGINE_RUN)
  BY <1>1, <1>5, <1>7, <1>8 DEF ENGINE_RUN
<1>12. ~(Lit(t, STARTER) /\ Lit(t, HORN))
  BY <1>5, <1>7 DEF STARTER
<1>13. EngineOrder(t)
  BY <1>1, <1>3, <1>4, <1>5, <1>6, <1>9, <1>12 DEF EngineOrder
<1> QED BY <1>3, <1>5, <1>10, <1>11, <1>13
-----------------------------------------------------------------------------
(* The promises.                                                           *)

\* At power-on everything is off.
LEMMA InitOff ==
  ASSUME Init, IsEngine
  PROVE  /\ \A i \in Watched : sim.var[Vin(i)] = 0
         /\ \A i \in 1..3 : sim.var[Ctr(i)] = 0 /\ sim.var[Cnd(i)] = 0 /\ sim.var[Cin(i)] = 0
         /\ sim.var[STARTER] = 0 /\ sim.var[AlwaysFalse] = 0
         /\ \A i \in Watched : sim.viLatch[i] = LatchInit
         /\ \A i \in 1..3 : sim.count[i] = CounterInit
<1>1. cfg = Engine /\ sim = SimInit(cfg)
  BY DEF Init, IsEngine
<1>2. ASSUME NEW x \in VarMap(Engine), x # AlwaysTrue PROVE sim.var[x] = 0
  BY <1>1, <1>2 DEF SimInit, Value
<1>3. \A i \in Watched : i \in DOMAIN Engine.virtualInputs
  BY EngineVirtIns
<1>4. \A i \in 1..3 : i \in DOMAIN Engine.counters /\ i \in DOMAIN Engine.conditions
                      /\ i \in DOMAIN Engine.canInputs
  BY EngineBlocks, EngineEnds
<1>5. 1 \in DOMAIN Engine.outputs /\ 7 \in DOMAIN Engine.outputs
  BY EngineEnds
<1>6. \A i \in Watched : sim.var[Vin(i)] = 0
  BY <1>2, <1>3 DEF VarMap, Slots, Vin, AlwaysTrue
<1>7. \A i \in 1..3 : sim.var[Ctr(i)] = 0 /\ sim.var[Cnd(i)] = 0 /\ sim.var[Cin(i)] = 0
  BY <1>2, <1>4 DEF VarMap, Slots, Ctr, Cnd, Cin, AlwaysTrue
<1>8. sim.var[STARTER] = 0 /\ sim.var[AlwaysFalse] = 0
  BY <1>2, <1>5 DEF VarMap, Slots, STARTER, AlwaysTrue, AlwaysFalse
<1>9. \A i \in Watched : sim.viLatch[i] = LatchInit
  BY <1>1, <1>3 DEF SimInit
<1>10. \A i \in 1..3 : sim.count[i] = CounterInit
  BY <1>1, <1>4 DEF SimInit
<1> QED BY <1>6, <1>7, <1>8, <1>9, <1>10

\* So what holds between two cycles holds there.
LEMMA InitOrder == Init => EngineInv
<1> SUFFICES ASSUME Init, IsEngine PROVE EngineOrder(sim)
  BY DEF EngineInv
<1>1. \A i \in Watched : Shows(sim.viLatch[i])
  <2>1. LatchInit \in LatchT /\ LatchInit.out = LatchInit.last
    BY DEF LatchInit, LatchT
  <2> QED BY InitOff, <2>1 DEF Shows
<1>2. /\ ~Lit(sim, CHORD) /\ ~Lit(sim, START_REQ) /\ ~Lit(sim, ARMED) /\ ~Lit(sim, HORN_PRESS)
      /\ ~Lit(sim, brake) /\ ~Lit(sim, washer) /\ ~Lit(sim, horn)
      /\ ~Lit(sim, STARTER) /\ ~Lit(sim, AlwaysFalse)
  BY InitOff DEF Lit, Level, Watched, CHORD, START_REQ, ARMED, HORN_PRESS, brake, washer, horn
<1>3. /\ sim.count[1].inc = FALSE /\ sim.count[1].dec = FALSE
      /\ sim.count[2].inc = FALSE /\ sim.count[2].dec = FALSE
  BY InitOff DEF CounterInit
<1>4. /\ sim.count[1].inc = Lit(sim, ARMED) /\ sim.count[2].inc = Lit(sim, START_REQ)
      /\ sim.count[1].dec = Lit(sim, CHORD) /\ sim.count[2].dec = Lit(sim, CHORD)
  <2>1. Lit(sim, ARMED) = FALSE /\ Lit(sim, START_REQ) = FALSE /\ Lit(sim, CHORD) = FALSE
    BY <1>2 DEF Lit, Level
  <2> QED BY <1>3, <2>1
<1>5. \A i \in {1, 2} : sim.var[Ctr(i)] \in 0..1 /\ Lit(sim, Cnd(i)) = Lit(sim, Ctr(i))
  <2> SUFFICES ASSUME NEW i \in {1, 2}
               PROVE  sim.var[Ctr(i)] \in 0..1 /\ Lit(sim, Cnd(i)) = Lit(sim, Ctr(i))
    OBVIOUS
  <2>1. sim.var[Ctr(i)] = 0 /\ sim.var[Cnd(i)] = 0
    BY InitOff
  <2>2. Lit(sim, Cnd(i)) = Level(sim.var[Cnd(i)]) /\ Lit(sim, Ctr(i)) = Level(sim.var[Ctr(i)])
    BY DEF Lit
  <2> QED BY <2>1, <2>2
<1>6. /\ Lit(sim, CHORD) = (Lit(sim, brake) /\ Lit(sim, washer))
      /\ Lit(sim, START_REQ) = (Lit(sim, CHORD) /\ Lit(sim, horn))
      /\ Lit(sim, HORN_PRESS) = (Lit(sim, horn) /\ ~Lit(sim, CHORD))
  <2>1. Lit(sim, CHORD) = FALSE /\ Lit(sim, START_REQ) = FALSE /\ Lit(sim, HORN_PRESS) = FALSE
    BY <1>2 DEF Lit, Level
  <2>2. ~(Lit(sim, brake) /\ Lit(sim, washer)) /\ ~(Lit(sim, CHORD) /\ Lit(sim, horn))
        /\ ~(Lit(sim, horn) /\ ~Lit(sim, CHORD))
    BY <1>2
  <2> QED BY <2>1, <2>2
<1>7. ~Lit(sim, Ctr(3))
  BY InitOff DEF Lit, Level
<1> QED BY <1>1, <1>2, <1>4, <1>5, <1>6, <1>7 DEF EngineOrder

\* A cycle of a device that has the engine configuration.
LEMMA EngineCycle ==
  [Next]_vars =>
    IsEngine' = IsEngine /\ (IsEngine => sim' = sim \/ \E pins, rx : sim' = Step(Engine, sim, pins, rx))
BY DEF Next, Cycle, IsEngine, vars

\* What such a cycle keeps and does.
LEMMA EngineMoves ==
  ASSUME EngineShape, EngineInv, IsEngine, \E pins, rx : sim' = Step(Engine, sim, pins, rx)
  PROVE  /\ EngineOrder(sim') /\ Moves(sim, sim')
         /\ Lit(sim, ARMED) /\ ~Lit(sim', CHORD) => Lit(sim', ENGINE_RUN)
         /\ ~Lit(sim, ENGINE_RUN) => ~Lit(sim', Ctr(3))
         /\ \A i \in {1, 6} : Lit(sim', <<"output", i>>) = Lit(sim, START_REQ)
<1>1. Engine \in Configs /\ Shape(Engine, sim) /\ EngineOrder(sim)
  BY DEF EngineShape, EngineInv, IsEngine
<1>2. PICK pins, rx : sim' = Step(Engine, sim, pins, rx)
  OBVIOUS
<1> QED BY <1>1, <1>2, EngineStep

\* So what holds between two cycles goes on holding.
LEMMA NextOrder ==
  EngineShape /\ EngineInv /\ [Next]_vars => EngineInv'
<1> SUFFICES ASSUME EngineShape, EngineInv, [Next]_vars, IsEngine' PROVE EngineOrder(sim')
  BY DEF EngineInv
<1>1. IsEngine /\ (sim' = sim \/ \E pins, rx : sim' = Step(Engine, sim, pins, rx))
  BY EngineCycle
<1>2. CASE sim' = sim
  BY <1>1, <1>2 DEF EngineInv
<1>3. CASE \E pins, rx : sim' = Step(Engine, sim, pins, rx)
  BY <1>1, <1>3, EngineMoves
<1> QED BY <1>1, <1>2, <1>3

\* It does.
LEMMA OrderAlways == Spec => [](EngineShape /\ EngineInv)
<1>1. Init => EngineInv
  BY InitOrder
<1>2. EngineShape /\ EngineInv /\ [Next]_vars => EngineInv'
  BY NextOrder
<1> QED BY <1>1, <1>2, ShapeAlways, PTL DEF Spec

\* The starter and the horn are never on together (CrankIsSilent), although the outputs
\* are a cycle behind the logic.
THEOREM TheHornIsSilent == Spec => []CrankIsSilent
<1>1. EngineInv => CrankIsSilent
  BY DEF EngineInv, EngineOrder, CrankIsSilent, On, Lit, STARTER, HORN
<1> QED BY <1>1, OrderAlways, PTL
\* Letting go of a chord that has been armed for a cycle leaves the engine running
\* (ReleaseStarts), whatever came before.
THEOREM ReleaseStartsTheEngine == Spec => ReleaseStarts
<1>1. EngineShape /\ EngineInv /\ [Next]_vars => [On(ARMED) /\ ~OnNext(CHORD) => OnNext(ENGINE_RUN)]_vars
  <2> SUFFICES ASSUME EngineShape, EngineInv, [Next]_vars, On(ARMED), ~OnNext(CHORD), vars' # vars
               PROVE  OnNext(ENGINE_RUN)
    OBVIOUS
  <2>1. IsEngine /\ Lit(sim, ARMED) /\ ~Lit(sim', CHORD)
    BY DEF On, OnNext, Lit
  <2>2. \E pins, rx : sim' = Step(Engine, sim, pins, rx)
    BY <2>1 DEF Next, Cycle, IsEngine
  <2>3. Lit(sim', ENGINE_RUN)
    BY <2>1, <2>2, EngineMoves
  <2> QED BY <2>1, <2>3 DEF OnNext, Lit
<1> QED BY <1>1, OrderAlways, PTL DEF Spec, ReleaseStarts

\* A cycle that begins with the engine stopped ends with the heater off (HeaterHeldOff).
THEOREM HeaterIsHeldOff == Spec => HeaterHeldOff
<1>1. EngineShape /\ EngineInv /\ [Next]_vars => [~On(ENGINE_RUN) => ~OnNext(Ctr(3))]_vars
  <2> SUFFICES ASSUME EngineShape, EngineInv, [Next]_vars, ~On(ENGINE_RUN), IsEngine, vars' # vars
               PROVE  ~OnNext(Ctr(3))
    BY DEF OnNext
  <2>1. ~Lit(sim, ENGINE_RUN)
    BY DEF On, Lit
  <2>2. \E pins, rx : sim' = Step(Engine, sim, pins, rx)
    BY DEF Next, Cycle, IsEngine
  <2>3. ~Lit(sim', Ctr(3))
    BY <2>1, <2>2, EngineMoves
  <2> QED BY <2>3 DEF OnNext, Lit
<1> QED BY <1>1, OrderAlways, PTL DEF Spec, HeaterHeldOff
\* A cycle after a button of the chord has timed out both circuits that crank are dead
\* (SilentBusStopsCranking).
THEOREM SilenceStopsCranking == Spec => SilentBusStopsCranking
<1> DEFINE Dead == IsEngine /\ (Silent(1) \/ Silent(3))
<1>1. EngineShape /\ EngineInv /\ CanInputsFollowBus /\ [Next]_vars =>
        [Dead => ~OnNext(<<"output", 1>>) /\ ~OnNext(<<"output", 6>>)]_vars
  <2> SUFFICES ASSUME EngineShape, EngineInv, CanInputsFollowBus, [Next]_vars, Dead, vars' # vars
               PROVE  ~OnNext(<<"output", 1>>) /\ ~OnNext(<<"output", 6>>)
    OBVIOUS
  <2>1. ASSUME NEW i \in 1..3, Silent(i) PROVE ~Lit(sim, Cin(i))
    <3>1. /\ i \in DOMAIN cfg.canInputs /\ cfg.canInputs[i].enabled
          /\ cfg.canInputs[i].bitLength = 1 /\ cfg.canInputs[i].mode = "momentary"
      BY EngineEnds DEF IsEngine
    <3>2. sim.var[<<"canIn", i>>] = 0
      <4> DEFINE slot == cfg.canInputs[i]
                 heard == seen.carried[slot.id] # << >>
                 compared == Compare(slot.operator, DecodeFloat(slot, seen.carried[slot.id][1]), slot.operand)
      <4>1. slot.enabled /\ slot.bitLength # 0 /\ slot.mode = "momentary"
        BY <3>1
      <4>2. sim.var[<<"canIn", i>>] = Value((heard /\ ~Silent(i)) /\ compared)
        BY <3>1, <4>1, Zenon DEF CanInputsFollowBus
      <4> HIDE DEF heard, compared
      <4> QED BY <2>1, <4>2 DEF Value
    <3> QED BY <3>2 DEF Lit, Level, Cin
  <2>2. ~Lit(sim, washer) \/ ~Lit(sim, brake)
    BY <2>1 DEF washer, brake
  <2>3. ~Lit(sim, START_REQ)
    BY <2>2 DEF EngineInv, EngineOrder
  <2>4. \E pins, rx : sim' = Step(Engine, sim, pins, rx)
    BY DEF Next, Cycle, IsEngine
  <2>5. \A i \in {1, 6} : ~Lit(sim', <<"output", i>>)
    BY <2>3, <2>4, EngineMoves
  <2> QED BY <2>5 DEF OnNext, Lit
<1> QED BY <1>1, OrderAlways, CanInputsFollow, PTL DEF Spec, SilentBusStopsCranking

\* The engine configuration behaves as its description says (FollowsGesture): every state
\* of the device stands for one of EngineGesture, and every cycle for a step of it or none.
THEOREM EngineFollowsGesture == Spec => FollowsGesture
<1>1. Init => Gesture!Init
  <2> SUFFICES ASSUME Init PROVE Gesture!Init
    OBVIOUS
  <2>1. EngineInv
    BY InitOrder
  <2>2. IsEngine => ~Lit(sim, CHORD) /\ ~Lit(sim, Ctr(1)) /\ ~Lit(sim, Ctr(2))
    BY InitOff DEF Lit, Level, CHORD, Watched
  <2> QED BY <2>2 DEF Gesture!Init, On, Lit
<1>2. EngineShape /\ EngineInv /\ [Next]_vars => [Gesture!Next]_(Gesture!vars)
  <2> SUFFICES ASSUME EngineShape, EngineInv, [Next]_vars PROVE [Gesture!Next]_(Gesture!vars)
    OBVIOUS
  <2>1. CASE ~IsEngine
    <3>1. ~IsEngine'
      BY <2>1, EngineCycle
    <3> QED BY <2>1, <3>1 DEF Gesture!vars, On
  <2>2. CASE IsEngine /\ sim' = sim
    <3>1. IsEngine'
      BY <2>2, EngineCycle
    <3> QED BY <2>2, <3>1 DEF Gesture!vars, On
  <2>3. CASE IsEngine /\ \E pins, rx : sim' = Step(Engine, sim, pins, rx)
    <3>1. IsEngine'
      BY <2>3, EngineCycle
    <3>2. Moves(sim, sim') /\ (Lit(sim, CHORD) => ~Lit(sim, Ctr(1)))
      BY <2>3, EngineMoves DEF EngineInv, EngineOrder
    <3> QED BY <2>3, <3>1, <3>2
            DEF Moves, On, Lit, Gesture!vars, Gesture!Next, Gesture!Press, Gesture!Crank, Gesture!Release
  <2> QED BY <2>1, <2>2, <2>3, EngineCycle
<1> QED BY <1>1, <1>2, OrderAlways, PTL DEF Spec, FollowsGesture, Gesture!Spec
=============================================================================
