-------------------------- MODULE EquivCheckProofs --------------------------
(***************************************************************************)
(* Theorems about EquivCheck: which changes of a configuration leave what  *)
(* the device shows as it was, cycle by cycle and for every stimulus, and  *)
(* that the pairs of configurations which the repository calls equivalent  *)
(* differ by such changes only.  And that the pairs in which a level goes  *)
(* through one virtual input more are one cycle apart.                     *)
(***************************************************************************)
EXTENDS EquivCheck, CorpusConfigs, DingoSimProofs, SequenceTheorems

-----------------------------------------------------------------------------
(* One configuration stands for another.  m names the variables of a that  *)
(* matter, and for each of them the variable of b that stands for it.  The *)
(* slots may be numbered anew, as long as each of them reads of every      *)
(* variable what this cycle, or else the last one, made of it, as before.  *)

\* slot i of a category reads of x what this cycle made of it
Fresh(kind, i, x) == ~(x[1] \in Later(kind) \/ (x[1] = kind /\ x[2] >= i))

\* slot i of a reads x, slot j of b reads y
Alike(m, kind, i, x, j, y) ==
  x \in DOMAIN m /\ y = m[x] /\ (Fresh(kind, i, x) <=> Fresh(kind, j, y))

SameSettings(settings, slotA, slotB) == \A f \in settings : slotA[f] = slotB[f]

\* a virtual input of three levels, and one that passes a level on
SameLevels(va, vb) ==
  \A p, q, r \in BOOLEAN : VirtualLevel(va, p, q, r, va.var2 = AlwaysFalse)
                             = VirtualLevel(vb, p, q, r, vb.var2 = AlwaysFalse)

VirtInStands(a, b, m, i, j) ==
  LET va == a.virtualInputs[i]
      vb == b.virtualInputs[j]
  IN  /\ va.enabled /\ vb.enabled /\ va.mode = vb.mode /\ SameLevels(va, vb)
      /\ Alike(m, "virtIn", i, va.var0, j, vb.var0)
      /\ Alike(m, "virtIn", i, va.var1, j, vb.var1)
      /\ Alike(m, "virtIn", i, va.var2, j, vb.var2)

FlasherStands(a, b, m, i, j) ==
  LET fa == a.flashers[i]
      fb == b.flashers[j]
  IN  /\ fa.enabled /\ fb.enabled /\ SameSettings({"onTime", "offTime"}, fa, fb)
      /\ Alike(m, "flasher", i, fa.input, j, fb.input)

CounterStands(a, b, m, i, j) ==
  LET ka == a.counters[i]
      kb == b.counters[j]
  IN  /\ ka.enabled /\ kb.enabled
      /\ SameSettings({"incEdge", "decEdge", "resetEdge", "minCount", "maxCount", "wrapAround",
                       "holdToReset", "resetTime"}, ka, kb)
      /\ Alike(m, "counter", i, ka.incInput, j, kb.incInput)
      /\ Alike(m, "counter", i, ka.decInput, j, kb.decInput)
      /\ Alike(m, "counter", i, ka.resetInput, j, kb.resetInput)

ConditionStands(a, b, m, i, j) ==
  LET ca == a.conditions[i]
      cb == b.conditions[j]
  IN  /\ ca.enabled /\ cb.enabled /\ SameSettings({"operator", "arg"}, ca, cb)
      /\ Alike(m, "condition", i, ca.input, j, cb.input)

\* a virtual input whose level is that of its first term, or the negation of it
ReadsFirst(v) ==
  /\ v.enabled /\ v.not1 = FALSE /\ v.var2 = AlwaysFalse
  /\ \/ v.cond0 = "or" /\ v.var1 = AlwaysFalse
     \/ v.cond0 = "and" /\ v.var1 = AlwaysTrue
Follows(v) == ReadsFirst(v) /\ v.not0 = FALSE
Negates(v) == ReadsFirst(v) /\ v.not0 = TRUE

\* one that is off whenever one of two terms is
IsGate(v) == v.enabled /\ v.mode = "momentary" /\ v.cond0 = "and" /\ v.var2 = AlwaysFalse

\* a virtual input behind a CAN input is left out
LeftOut(a, m, i, y) ==
  LET v == a.virtualInputs[i]
  IN  /\ Follows(v) /\ v.mode = "momentary" /\ v.var0[1] = "canIn"
      /\ v.var0 \in DOMAIN m /\ y = v.var0

\* what counter i counts up is off whenever the variable that resets it is
Gated(a, i) ==
  LET x == a.counters[i].resetInput
      y == a.counters[i].incInput
  IN  /\ Fresh(y[1], y[2], x) <=> Fresh("counter", i, x)
      /\ \/ /\ y[1] = "virtIn"
            /\ LET v == a.virtualInputs[y[2]]
               IN  /\ IsGate(v)
                   /\ (v.not0 = FALSE /\ v.var0 = x) \/ (v.not1 = FALSE /\ v.var1 = x)
         \/ /\ y[1] = "flasher"
            /\ a.flashers[y[2]].enabled /\ a.flashers[y[2]].input = x

\* the settings of two counters of which one is reset by the fall of a variable and the
\* other by the rise of its negation
ResetSettings(ka, kb) ==
  /\ ka.holdToReset = FALSE /\ kb.holdToReset = FALSE
  /\ SameSettings({"incEdge", "maxCount", "wrapAround"}, ka, kb)
  /\ ka.incEdge \in Edges /\ ka.decEdge = "rising" /\ kb.decEdge = "rising"
  /\ ka.resetEdge = "falling" /\ kb.resetEdge = "rising"

\* a counter that counts up only while x is on and is reset by the fall of x is reset by
\* the rise of a virtual input that negates x (tools/mkreference.py)
ResetRewritten(a, b, m, i, j) ==
  LET ka == a.counters[i]
      kb == b.counters[j]
      n  == kb.resetInput[2]
  IN  /\ ka.enabled /\ kb.enabled /\ ResetSettings(ka, kb) /\ Gated(a, i)
      /\ Alike(m, "counter", i, ka.incInput, j, kb.incInput)
      /\ ka.decInput = AlwaysFalse /\ kb.decInput = AlwaysFalse
      /\ kb.resetInput[1] = "virtIn" /\ kb.resetInput \in VarMap(b)
      /\ Negates(b.virtualInputs[n]) /\ b.virtualInputs[n].mode = "momentary"
      /\ ka.resetInput \in DOMAIN m /\ b.virtualInputs[n].var0 = m[ka.resetInput]
      /\ Fresh("counter", i, ka.resetInput) <=> Fresh("virtIn", n, m[ka.resetInput])

\* a counter of one bit that wraps around
TogglesBit(k) ==
  /\ k.enabled /\ k.holdToReset = FALSE /\ k.wrapAround = TRUE /\ k.maxCount = 1
  /\ k.incEdge = "rising" /\ k.decEdge = "rising" /\ k.resetEdge = "rising"
  /\ k.decInput = AlwaysFalse /\ k.resetInput = AlwaysFalse

\* a toggle that is a counter of one bit and the condition behind it is a latching virtual input
ToggleLatched(a, b, m, i, j) ==
  LET ca == a.conditions[i]
      k  == ca.input[2]
      ka == a.counters[k]
      v  == b.virtualInputs[j]
  IN  /\ ca.enabled /\ ca.operator = "ge" /\ ca.arg = 1
      /\ ca.input[1] = "counter" /\ ca.input \in VarMap(a) /\ TogglesBit(ka)
      /\ Follows(v) /\ v.mode = "latching"
      /\ ka.incInput \in DOMAIN m /\ v.var0 = m[ka.incInput]
      /\ Fresh("counter", k, ka.incInput) <=> Fresh("virtIn", j, v.var0)

\* y of b stands for x of a
Stands(a, b, m, x, y) ==
  LET i == x[2]
      j == y[2]
  IN  \/ x[1] = "virtIn" /\ y[1] = "virtIn" /\ VirtInStands(a, b, m, i, j)
      \/ x[1] = "virtIn" /\ LeftOut(a, m, i, y)
      \/ x[1] = "flasher" /\ y[1] = "flasher" /\ FlasherStands(a, b, m, i, j)
      \/ x[1] = "counter" /\ y[1] = "counter" /\ CounterStands(a, b, m, i, j)
      \/ x[1] = "counter" /\ y[1] = "counter" /\ ResetRewritten(a, b, m, i, j)
      \/ x[1] = "condition" /\ y[1] = "condition" /\ ConditionStands(a, b, m, i, j)
      \/ x[1] = "condition" /\ y[1] = "virtIn" /\ ToggleLatched(a, b, m, i, j)

\* the outputs show the same, read at the same time
OutputsStand(a, b, m) ==
  /\ DOMAIN b.outputs = DOMAIN a.outputs
  /\ \A i \in DOMAIN a.outputs :
       LET x == a.outputs[i].input
           y == b.outputs[i].input
       IN  /\ b.outputs[i].enabled = a.outputs[i].enabled
           /\ a.outputs[i].enabled =>
                /\ x \in DOMAIN m /\ y = m[x] /\ x[1] # "output"
                /\ x[1] \in Logic <=> y[1] \in Logic

CanOutputsStand(a, b, m) ==
  /\ DOMAIN b.canOutputs = DOMAIN a.canOutputs
  /\ \A i \in DOMAIN a.canOutputs :
       LET x == a.canOutputs[i].input
           y == b.canOutputs[i].input
       IN  /\ b.canOutputs[i].enabled = a.canOutputs[i].enabled
           /\ a.canOutputs[i].enabled =>
                /\ Key(b.canOutputs[i]) = Key(a.canOutputs[i])
                /\ x \in DOMAIN m /\ y = m[x]
                /\ x[1] \in Logic <=> y[1] \in Logic

\* b does what a does, with m
SameProgram(a, b, m) ==
  /\ b.inputs = a.inputs /\ b.canInputs = a.canInputs
  /\ OutputsStand(a, b, m) /\ CanOutputsStand(a, b, m)
  /\ \A x \in DOMAIN m :
       /\ x \in VarMap(a) /\ m[x] \in VarMap(b)
       /\ IF x[1] \in Logic THEN Stands(a, b, m, x, m[x]) ELSE m[x] = x

-----------------------------------------------------------------------------
(* What that keeps, between two cycles.                                    *)

\* a device whose momentary virtual inputs remember what they show
Tidy(c, s) ==
  /\ Shape(c, s)
  /\ \A i \in DOMAIN c.virtualInputs :
       c.virtualInputs[i].enabled /\ c.virtualInputs[i].mode = "momentary" =>
         s.viLatch[i].out = s.viLatch[i].last
  /\ \A i \in DOMAIN c.canInputs : s.var[<<"canIn", i>>] \in {0, 1}
  /\ s.var[AlwaysFalse] = 0 /\ s.var[AlwaysTrue] = 1

\* counters of which one is reset by the rise of what resets the other by its fall
HeldAlike(k, n, l) ==
  /\ l.inc = k.inc /\ l.reset = FALSE /\ k.dec = FALSE /\ l.dec = FALSE /\ k.reset \in BOOLEAN
  /\ k.reset = FALSE => n = 0 /\ k.inc = FALSE

\* the memory of slot i of a and of slot j of b
MemoryStands(a, b, m, s, t, x, y) ==
  LET i == x[2]
      j == y[2]
  IN  /\ x[1] = "virtIn" /\ y[1] = "virtIn" => t.viLatch[j] = s.viLatch[i]
      /\ x[1] = "flasher" => t.flash[j] = s.flash[i]
      /\ x[1] = "counter" => \/ CounterStands(a, b, m, i, j) /\ t.count[j] = s.count[i]
                             \/ ResetRewritten(a, b, m, i, j) /\ HeldAlike(s.count[i], s.var[x], t.count[j])
      /\ x[1] = "condition" /\ y[1] = "virtIn" =>
           LET z == a.conditions[i].input
           IN  /\ s.var[z] = Value(t.viLatch[j].out) /\ s.count[z[2]].inc = t.viLatch[j].last
               /\ s.count[z[2]].dec = FALSE /\ s.count[z[2]].reset = FALSE
               /\ t.viLatch[j].out \in BOOLEAN /\ t.viLatch[j].last \in BOOLEAN

\* two devices with the same inputs and CAN inputs
SensesAgree(a, s, t) ==
  /\ \A i \in DOMAIN a.inputs : t.din[i] = s.din[i] /\ t.dinLatch[i] = s.dinLatch[i]
  /\ \A i \in DOMAIN a.canInputs : t.cinAge[i] = s.cinAge[i] /\ t.cinLatch[i] = s.cinLatch[i]
  /\ \A x \in VarMap(a) : x[1] \notin Logic => t.var[x] = s.var[x]

\* a in state s and b in state t
Twins(a, b, m, s, t) ==
  /\ Tidy(a, s) /\ Tidy(b, t)
  /\ SensesAgree(a, s, t)
  /\ \A i \in DOMAIN a.canOutputs : a.canOutputs[i].enabled => t.sample[i] = s.sample[i]
  /\ \A x \in DOMAIN m : t.var[m[x]] = s.var[x]
  /\ \A x \in DOMAIN m : x[1] \in Logic => MemoryStands(a, b, m, s, t, x, m[x])

\* a cycle of both under the same stimulus
Turn(a, b, m, s, t, s1, t1) ==
  /\ Runs(a) /\ Runs(b) /\ SameProgram(a, b, m) /\ Twins(a, b, m, s, t)
  /\ \E pins, rx : s1 = Step(a, s, pins, rx) /\ t1 = Step(b, t, pins, rx)

-----------------------------------------------------------------------------
(* One device.                                                             *)

\* A momentary latch shows the level.
LEMMA MomentaryLatch ==
  ASSUME NEW l, l.out = l.last, NEW level, NEW invert, NEW r, r = LatchCheck(l, "momentary", invert, level)
  PROVE  r.out = r.last /\ r.last = (level # invert)
<1> DEFINE now == level # invert
<1>1. now \in BOOLEAN
  OBVIOUS
<1> HIDE DEF now
<1>2. r = [last |-> now, out |-> CASE now = l.last -> l.out
                               [] now # l.last -> now
                               [] OTHER -> l.out # now]
  BY <1>1 DEF LatchCheck, now
<1>3. r.last = now /\ r.out = now
  BY <1>1, <1>2
<1> QED BY <1>3 DEF now

LevelOf(slot, x0, x1, x2) == VirtualLevel(slot, Level(x0), Level(x1), Level(x2), slot.var2 = AlwaysFalse)
\* such a level, and what the second term reads
Says(level, v, x0) ==
  (v.not0 = FALSE => level = (x0 # 0)) /\ (v.not0 = TRUE => level = (x0 = 0))

SecondTerm(v, x1) == (v.var1 = AlwaysFalse => x1 = 0) /\ (v.var1 = AlwaysTrue => x1 = 1)

\* The level of a virtual input that reads its first term only.
LEMMA FollowsLevel ==
  ASSUME NEW v, ReadsFirst(v), NEW x0, NEW x1, NEW x2, SecondTerm(v, x1)
  PROVE  Says(LevelOf(v, x0, x1, x2), v, x0)
<1>1. LevelOf(v, x0, x1, x2) = Combine(v.cond0, (x0 # 0) # v.not0, (x1 # 0) # FALSE)
  BY Zenon DEF LevelOf, VirtualLevel, Level, ReadsFirst
<1>2. CASE v.cond0 = "or" /\ v.var1 = AlwaysFalse
  BY <1>1, <1>2 DEF Combine, SecondTerm, Says
<1>3. CASE v.cond0 = "and" /\ v.var1 = AlwaysTrue
  <2>0. x1 = 1
    BY <1>3 DEF SecondTerm
  <2>9. x1 # 0
    BY <2>0
  <2>1. (x1 # 0) # FALSE
    BY <2>9, Zenon
  <2>2. LevelOf(v, x0, x1, x2) = ((x0 # 0) # v.not0)
    BY <1>1, <1>3, <2>1 DEF Combine
  <2> QED BY <2>2 DEF Says
<1> QED BY <1>2, <1>3 DEF ReadsFirst

\* What it shows, if it is momentary.
LEMMA MomentaryReads ==
  ASSUME NEW v, ReadsFirst(v), v.mode = "momentary", NEW l, l.out = l.last,
         NEW x0, NEW x1, NEW x2, SecondTerm(v, x1), NEW r, r = VirtLatch(v, l, x0, x1, x2)
  PROVE  /\ Follows(v) => Value(r.out) = IF x0 = 0 THEN 0 ELSE 1
         /\ Negates(v) => Value(r.out) = IF x0 = 0 THEN 1 ELSE 0
<1> DEFINE level == LevelOf(v, x0, x1, x2)
<1>1. \A invert : invert = FALSE => r = LatchCheck(l, "momentary", invert, level)
  BY Zenon DEF VirtLatch, LevelOf
<1>2. Says(level, v, x0)
  BY FollowsLevel
<1> HIDE DEF level
<1>3. ASSUME NEW invert, invert = FALSE PROVE r.out = (level # invert)
  <2>1. r = LatchCheck(l, "momentary", invert, level)
    BY <1>1, <1>3
  <2> HIDE <1>3
  <2> QED BY <2>1, MomentaryLatch
<1>4. level \in BOOLEAN => r.out = level
  BY <1>3
<1> QED BY <1>2, <1>4 DEF Follows, Negates, Value, Says

\* A momentary virtual input remembers what it shows.
LEMMA MomentaryShows ==
  ASSUME NEW slot, slot.mode = "momentary", NEW l, l.out = l.last, NEW x0, NEW x1, NEW x2, NEW r,
         r = VirtLatch(slot, l, x0, x1, x2)
  PROVE  r.out = r.last
<1>1. \E level, invert : r = LatchCheck(l, "momentary", invert, level)
  BY Zenon DEF VirtLatch
<1> QED BY <1>1, MomentaryLatch

\* A gate is off while the term that gates it is.
IsShut(level) == level = FALSE
LEMMA GateShuts ==
  ASSUME NEW v, IsGate(v), NEW l, l.out = l.last, NEW x0, NEW x1, NEW x2,
         (v.not0 = FALSE /\ x0 = 0) \/ (v.not1 = FALSE /\ x1 = 0),
         NEW r, r = VirtLatch(v, l, x0, x1, x2)
  PROVE  Value(r.out) = 0
<1> DEFINE level == LevelOf(v, x0, x1, x2)
<1>1. \A invert : invert = FALSE => r = LatchCheck(l, "momentary", invert, level)
  BY Zenon DEF VirtLatch, LevelOf, IsGate
<1>2. IsShut(level)
  <2>1. level = Combine(v.cond0, (x0 # 0) # v.not0, (x1 # 0) # v.not1)
    BY Zenon DEF LevelOf, VirtualLevel, Level, IsGate
  <2>2. v.cond0 = "and"
    BY DEF IsGate
  <2> HIDE DEF level
  <2> QED BY <2>1, <2>2 DEF Combine, IsShut
<1> HIDE DEF level
<1>3. ASSUME NEW invert, invert = FALSE PROVE r.out = (level # invert)
  <2>1. r = LatchCheck(l, "momentary", invert, level)
    BY <1>1, <1>3
  <2> HIDE <1>3
  <2> QED BY <2>1, MomentaryLatch
<1> QED BY <1>2, <1>3 DEF Value, IsShut

\* What a latching virtual input shows changes at every rise of its level.
Latches(l) == l.out \in BOOLEAN /\ l.last \in BOOLEAN
Flipped(r, l, x) ==
  /\ r.last = (x # 0) /\ r.out \in BOOLEAN
  /\ Value(r.out) = IF x # 0 /\ ~l.last THEN 1 - Value(l.out) ELSE Value(l.out)
LEMMA LatchingToggles ==
  ASSUME NEW v, v.mode = "latching", Follows(v), NEW l, Latches(l), NEW x0, NEW x1, NEW x2,
         Says(LevelOf(v, x0, x1, x2), v, x0), NEW r, r = VirtLatch(v, l, x0, x1, x2)
  PROVE  Flipped(r, l, x0)
<1> DEFINE level == LevelOf(v, x0, x1, x2)
<1>1. \A invert : invert = FALSE => r = LatchCheck(l, "latching", invert, level)
  BY Zenon DEF VirtLatch, LevelOf
<1>0. v.not0 = FALSE /\ l.out \in BOOLEAN /\ l.last \in BOOLEAN
  BY DEF Follows, Latches
<1>2. level = (x0 # 0)
  BY <1>0 DEF Says
<1> HIDE DEF level
<1>3. PICK now : now = (x0 # 0)
  OBVIOUS
<1>4. now \in BOOLEAN /\ (now = TRUE <=> x0 # 0)
  BY <1>3
<1>5. r = [last |-> now, out |-> CASE now = l.last -> l.out
                               [] now # l.last /\ "latching" = "momentary" -> now
                               [] OTHER -> l.out # now]
  <2>1. PICK invert : invert = FALSE
    OBVIOUS
  <2>2. r = LatchCheck(l, "latching", invert, level)
    BY <1>1, <2>1
  <2>3. (level # invert) = now
    BY <1>2, <1>3, <2>1
  <2> HIDE <2>1
  <2> QED BY <2>2, <2>3, Zenon DEF LatchCheck
<1>6. r.last = now
  BY <1>5
<1>7. CASE now = l.last
  <2>1. r.out = l.out
    BY <1>5, <1>7
  <2> QED BY <1>0, <1>4, <1>6, <1>7, <2>1 DEF Flipped
<1>8. CASE now # l.last
  <2>1. r.out = (l.out # now)
    BY <1>0, <1>4, <1>5, <1>8
  <2> QED BY <1>0, <1>4, <1>6, <1>8, <2>1 DEF Value, Flipped
<1> QED BY <1>7, <1>8

\* what a counter makes of the numbers that it reads
Resets(slot, k, x0, x1, x2) == ResetFires(slot, k, Level(x0), Level(x1), Level(x2))
CountedRise(slot, k, n, x0) == IF Edge(slot.incEdge, k.inc, Level(x0)) THEN CountUp(slot, n) ELSE n

Counts(u, slot, k, n, x0, x2) ==
  /\ u.n = CountedRise(slot, k, n, x0)
  /\ u.k.inc = Level(x0) /\ u.k.dec = FALSE /\ u.k.reset = Level(x2)

\* Without a reset and a count down a counter counts the edges of its input.
LEMMA CountsUp ==
  ASSUME NEW ka, ka.decEdge = "rising", NEW k, k.dec = FALSE, NEW n, NEW x0, NEW x1, x1 = 0, NEW x2,
         ~Resets(ka, k, x0, x1, x2), NEW u, u = CountOn(ka, k, n, x0, x1, x2)
  PROVE  Counts(u, ka, k, n, x0, x2)
<1>1. u = Counted(ka, k, n, Level(x0), Level(x1), Level(x2))
  BY DEF CountOn, CounterUpdate, Resets
<1>2. ~Level(x1) /\ ~Edge(ka.decEdge, k.dec, Level(x1))
  BY DEF Level, Edge
<1>3. u.n = CountedRise(ka, k, n, x0)
  BY <1>1, <1>2 DEF Counted, CountedRise
<1>4. u.k.inc = Level(x0) /\ u.k.dec = Level(x1) /\ u.k.reset = Level(x2)
  BY <1>1 DEF Counted
<1> QED BY <1>2, <1>3, <1>4 DEF Level, Counts

\* A counter that its reset holds at 0 while nothing is counted.
LEMMA HeldCounts ==
  ASSUME NEW ka, NEW kb, ResetSettings(ka, kb), NEW k, NEW l, NEW n, HeldAlike(k, n, l),
         NEW x0, NEW x1, x1 = 0, NEW z, NEW y, y = IF z = 0 THEN 1 ELSE 0, z = 0 => x0 = 0,
         NEW u, u = CountOn(ka, k, n, x0, x1, z), NEW w, w = CountOn(kb, l, n, x0, x1, y)
  PROVE  u.n = w.n /\ HeldAlike(u.k, u.n, w.k)
<1>1. /\ ka.decEdge = "rising" /\ kb.decEdge = "rising" /\ k.dec = FALSE /\ l.dec = FALSE
      /\ kb.incEdge = ka.incEdge /\ l.inc = k.inc /\ CountUp(kb, n) = CountUp(ka, n)
  BY DEF ResetSettings, SameSettings, HeldAlike, CountUp
<1>2. /\ Resets(ka, k, x0, x1, z) <=> k.reset = TRUE /\ z = 0
      /\ Resets(kb, l, x0, x1, y) <=> z = 0
  BY DEF Resets, ResetFires, HeldToReset, ResetSettings, HeldAlike, Edge, Level
<1>3. CASE z # 0
  <2>1. ~Resets(ka, k, x0, x1, z) /\ ~Resets(kb, l, x0, x1, y)
    BY <1>2, <1>3
  <2>2. Counts(u, ka, k, n, x0, z)
    BY <1>1, <2>1, CountsUp
  <2>3. Counts(w, kb, l, n, x0, y)
    BY <1>1, <2>1, CountsUp
  <2>4. Level(z) = TRUE /\ Level(y) = FALSE
    BY <1>3 DEF Level
  <2>5. CountedRise(kb, l, n, x0) = CountedRise(ka, k, n, x0)
    BY <1>1 DEF CountedRise
  <2> QED BY <2>2, <2>3, <2>4, <2>5 DEF HeldAlike, Counts
<1>4. CASE z = 0
  <2>1. w.n = 0 /\ w.k = l
    BY <1>2, <1>4 DEF CountOn, CounterUpdate, Resets
  <2>2. CASE k.reset = TRUE
    <3>1. u.n = 0 /\ u.k = k
      BY <1>2, <1>4, <2>2 DEF CountOn, CounterUpdate, Resets
    <3> QED BY <2>1, <2>2, <3>1 DEF HeldAlike
  <2>3. CASE k.reset # TRUE
    <3>1. k.reset = FALSE /\ n = 0 /\ k.inc = FALSE
      BY <2>3 DEF HeldAlike
    <3>2. Counts(u, ka, k, n, x0, z)
      BY <1>1, <1>2, <2>3, CountsUp
    <3>3. Level(x0) = FALSE /\ Level(z) = FALSE
      BY <1>4 DEF Level
    <3>4. CountedRise(ka, k, n, x0) = n
      BY <3>1, <3>3 DEF CountedRise, Edge, ResetSettings, Edges
    <3> QED BY <2>1, <3>1, <3>2, <3>3, <3>4 DEF HeldAlike, Counts
  <2> QED BY <2>2, <2>3
<1> QED BY <1>3, <1>4
\* A counter of one bit that wraps around.
Unreset(k) == k.dec = FALSE /\ k.reset = FALSE
BitFlipped(u, k, n, x) ==
  /\ u.n = IF x # 0 /\ ~k.inc THEN 1 - n ELSE n
  /\ u.k.inc = (x # 0) /\ u.k.dec = FALSE /\ u.k.reset = FALSE
LEMMA BitToggles ==
  ASSUME NEW slot, TogglesBit(slot), NEW k, Unreset(k), NEW n, n \in {0, 1},
         NEW x0, NEW x1, x1 = 0, NEW x2, x2 = 0, NEW u, u = CountOn(slot, k, n, x0, x1, x2)
  PROVE  BitFlipped(u, k, n, x0)
<1>0. /\ slot.holdToReset = FALSE /\ slot.wrapAround = TRUE /\ slot.maxCount = 1
      /\ slot.incEdge = "rising" /\ slot.decEdge = "rising" /\ slot.resetEdge = "rising"
      /\ k.dec = FALSE /\ k.reset = FALSE
  BY DEF TogglesBit, Unreset
<1>1. ~Resets(slot, k, x0, x1, x2)
  BY <1>0 DEF Resets, ResetFires, HeldToReset, Edge, Level
<1>2. Counts(u, slot, k, n, x0, x2)
  BY <1>0, <1>1, CountsUp
<1>3. CountedRise(slot, k, n, x0) = IF x0 # 0 /\ ~k.inc THEN 1 - n ELSE n
  <2>1. n = 0 \/ n = 1
    OBVIOUS
  <2>2. CountUp(slot, n) = 1 - n
    BY <1>0, <2>1 DEF CountUp
  <2>3. Edge(slot.incEdge, k.inc, Level(x0)) <=> x0 # 0 /\ ~k.inc
    BY <1>0 DEF Edge, Level
  <2> QED BY <2>2, <2>3 DEF CountedRise
<1> QED BY <1>2, <1>3 DEF Level, Counts, BitFlipped

\* At power-on the device is tidy.
LEMMA InitTidy ==
  ASSUME NEW c
  PROVE  Tidy(c, SimInit(c))
<1> DEFINE s == SimInit(c)
<1>1. Shape(c, s)
  BY DEF Shape, SimInit, Fields
<1>2. \A i \in DOMAIN c.virtualInputs : s.viLatch[i].out = s.viLatch[i].last
  BY DEF SimInit, LatchInit
<1>3. \A i \in DOMAIN c.canInputs : s.var[<<"canIn", i>>] \in {0, 1}
  BY DEF SimInit, VarMap, Slots, Value
<1>4. s.var[AlwaysFalse] = 0 /\ s.var[AlwaysTrue] = 1
  BY DEF SimInit, VarMap, Value, AlwaysFalse, AlwaysTrue
<1> QED BY <1>1, <1>2, <1>3, <1>4 DEF Tidy

\* A cycle keeps it so.
LEMMA NextTidy ==
  ASSUME NEW c, Runs(c), NEW s, Tidy(c, s), NEW pins, NEW rx, NEW t, t = Step(c, s, pins, rx)
  PROVE  Tidy(c, t)
<1>0. Shape(c, s)
  BY DEF Tidy
<1>1. Shape(c, t)
  BY <1>0, StepShape
<1>2. ASSUME NEW i \in DOMAIN c.virtualInputs, c.virtualInputs[i].enabled,
             c.virtualInputs[i].mode = "momentary"
      PROVE  t.viLatch[i].out = t.viLatch[i].last
  <2> DEFINE slot == c.virtualInputs[i]
             Read(x) == Reading("virtIn", i, s, t, x)
             latch == VirtLatch(slot, s.viLatch[i], Read(slot.var0), Read(slot.var1), Read(slot.var2))
  <2>1. slot.enabled /\ slot.mode = "momentary"
    BY <1>2
  <2>2. t.viLatch[i] = latch /\ t.var[<<"virtIn", i>>] = Value(latch.out)
    BY <1>0, <2>1, CycleVirtIn
  <2>3. s.viLatch[i].out = s.viLatch[i].last
    BY <1>2 DEF Tidy
  <2> HIDE DEF slot, Read
  <2> QED BY <2>1, <2>2, <2>3, MomentaryShows
<1>3. ASSUME NEW i \in DOMAIN c.canInputs PROVE t.var[<<"canIn", i>>] \in {0, 1}
  <2> DEFINE slot  == c.canInputs[i]
             heard == i \in Heard(c, rx)
             value == DecodeFloat(slot, rx[slot.id])
             latch == CanLatch(slot, s.cinLatch[i], rx[slot.id])
             age   == IF heard THEN 0 ELSE s.cinAge[i]
             out   == slot.enabled /\ slot.timeoutEnabled /\ age > slot.timeout
  <2>1. s.var[<<"canIn", i>>] \in {0, 1}
    BY DEF Tidy
  <2>2. /\ t.var[<<"canVal", i>>] =
             IF out THEN 0 ELSE IF heard THEN value ELSE s.var[<<"canVal", i>>]
        /\ t.var[<<"canIn", i>>] =
             IF out THEN 0 ELSE IF heard THEN Value(latch.out) ELSE s.var[<<"canIn", i>>]
        /\ t.cinLatch[i] = IF heard THEN latch ELSE s.cinLatch[i]
        /\ t.cinAge[i] = IF slot.timeoutEnabled THEN Older(age, CycleMs, MaxAge) ELSE 0
    BY <1>0, CycleCanIn
  <2> HIDE DEF out, heard, latch, value
  <2> QED BY <2>1, <2>2 DEF Value
<1>4. \A x \in {AlwaysFalse, AlwaysTrue} : t.var[x] = s.var[x]
  <2>1. \A x \in {AlwaysFalse, AlwaysTrue} : x \in VarMap(c) /\ x[1] = "sys"
    BY DEF VarMap, AlwaysFalse, AlwaysTrue
  <2> QED BY <1>0, <2>1, VariablesPass
<1>5. t.var[AlwaysFalse] = 0 /\ t.var[AlwaysTrue] = 1
  BY <1>4 DEF Tidy
<1> QED BY <1>1, <1>2, <1>3, <1>5 DEF Tidy

-----------------------------------------------------------------------------
(* A cycle of two of them.                                                 *)

\* from one state of a device to its next
Cycled(c, s, t) == Runs(c) /\ Shape(c, s) /\ \E pins, rx : t = Step(c, s, pins, rx)

\* The latch that a virtual input has then.
LatchOf(slot, l, i, s, t) ==
  VirtLatch(slot, l, Reading("virtIn", i, s, t, slot.var0), Reading("virtIn", i, s, t, slot.var1),
            Reading("virtIn", i, s, t, slot.var2))
LEMMA VirtInCycled ==
  ASSUME NEW c, NEW s, NEW t, Cycled(c, s, t), NEW i \in DOMAIN c.virtualInputs, NEW slot,
         slot = c.virtualInputs[i], slot.enabled
  PROVE  LET latch == LatchOf(slot, s.viLatch[i], i, s, t)
         IN  t.viLatch[i] = latch /\ t.var[<<"virtIn", i>>] = Value(latch.out)
<1> DEFINE Read(x) == Reading("virtIn", i, s, t, x)
           latch == VirtLatch(slot, s.viLatch[i], Read(slot.var0), Read(slot.var1), Read(slot.var2))
<1>1. PICK pins, rx : t = Step(c, s, pins, rx)
  BY DEF Cycled
<1>2. Runs(c) /\ Shape(c, s)
  BY DEF Cycled
<1>3. t.viLatch[i] = latch /\ t.var[<<"virtIn", i>>] = Value(latch.out)
  BY <1>1, <1>2, CycleVirtIn
<1>4. latch = LatchOf(slot, s.viLatch[i], i, s, t)
  BY DEF LatchOf
<1> HIDE DEF latch
<1> QED BY <1>3, <1>4

\* The flasher.
FlashOf(slot, f, v, i, s, t) == FlashOn(slot, f, v, Reading("flasher", i, s, t, slot.input))
LEMMA FlasherCycled ==
  ASSUME NEW c, NEW s, NEW t, Cycled(c, s, t), NEW i \in DOMAIN c.flashers, NEW slot,
         slot = c.flashers[i], slot.enabled
  PROVE  LET u == FlashOf(slot, s.flash[i], s.var[<<"flasher", i>>], i, s, t)
         IN  /\ t.var[<<"flasher", i>>] = u.v
             /\ t.flash[i] = [on |-> Older(u.f.on, CycleMs, MaxAge), off |-> Older(u.f.off, CycleMs, MaxAge)]
<1> DEFINE u == FlashOn(slot, s.flash[i], s.var[<<"flasher", i>>], Reading("flasher", i, s, t, slot.input))
<1>1. PICK pins, rx : t = Step(c, s, pins, rx)
  BY DEF Cycled
<1>2. Runs(c) /\ Shape(c, s)
  BY DEF Cycled
<1>3. /\ t.var[<<"flasher", i>>] = u.v
      /\ t.flash[i] = [on |-> Older(u.f.on, CycleMs, MaxAge), off |-> Older(u.f.off, CycleMs, MaxAge)]
  BY <1>1, <1>2, CycleFlasher
<1>4. u = FlashOf(slot, s.flash[i], s.var[<<"flasher", i>>], i, s, t)
  BY DEF FlashOf
<1> HIDE DEF u
<1> QED BY <1>3, <1>4

\* The counter.
CountOf(slot, k, n, i, s, t) ==
  CountOn(slot, k, n, Reading("counter", i, s, t, slot.incInput), Reading("counter", i, s, t, slot.decInput),
          Reading("counter", i, s, t, slot.resetInput))
LEMMA CounterCycled ==
  ASSUME NEW c, NEW s, NEW t, Cycled(c, s, t), NEW i \in DOMAIN c.counters, NEW slot,
         slot = c.counters[i], slot.enabled
  PROVE  LET u == CountOf(slot, s.count[i], s.var[<<"counter", i>>], i, s, t)
         IN  /\ t.var[<<"counter", i>>] = u.n
             /\ t.count[i] = CountAged(slot, u.k)
<1> DEFINE Read(x) == Reading("counter", i, s, t, x)
           u == CountOn(slot, s.count[i], s.var[<<"counter", i>>],
                          Read(slot.incInput), Read(slot.decInput), Read(slot.resetInput))
<1>1. PICK pins, rx : t = Step(c, s, pins, rx)
  BY DEF Cycled
<1>2. Runs(c) /\ Shape(c, s)
  BY DEF Cycled
<1>3. t.var[<<"counter", i>>] = u.n /\ t.count[i] = CountAged(slot, u.k)
  BY <1>1, <1>2, CycleCounts
<1>4. u = CountOf(slot, s.count[i], s.var[<<"counter", i>>], i, s, t)
  BY DEF CountOf
<1> HIDE DEF u
<1> QED BY <1>3, <1>4

\* The condition.
LEMMA ConditionCycled ==
  ASSUME NEW c, NEW s, NEW t, Cycled(c, s, t), NEW i \in DOMAIN c.conditions, NEW slot,
         slot = c.conditions[i], slot.enabled
  PROVE  t.var[<<"condition", i>>] =
           ConditionValue(slot.operator, Reading("condition", i, s, t, slot.input), slot.arg)
<1>1. PICK pins, rx : t = Step(c, s, pins, rx)
  BY DEF Cycled
<1>2. Runs(c) /\ Shape(c, s)
  BY DEF Cycled
<1> QED BY <1>1, <1>2, CycleCondition

\* two configurations, one state of each and their next ones
LEMMA TurnParts ==
  ASSUME NEW a, NEW b, NEW m, NEW s, NEW t, NEW s1, NEW t1, Turn(a, b, m, s, t, s1, t1)
  PROVE  /\ Cycled(a, s, s1) /\ Cycled(b, t, t1) /\ SameProgram(a, b, m) /\ Twins(a, b, m, s, t)
         /\ Tidy(a, s) /\ Tidy(b, t) /\ Tidy(a, s1) /\ Tidy(b, t1)
<1>1. PICK pins, rx : s1 = Step(a, s, pins, rx) /\ t1 = Step(b, t, pins, rx)
  BY DEF Turn
<1>2. Runs(a) /\ Runs(b) /\ SameProgram(a, b, m) /\ Twins(a, b, m, s, t) /\ Tidy(a, s) /\ Tidy(b, t)
  BY DEF Turn, Twins
<1>3. Tidy(a, s1) /\ Tidy(b, t1)
  BY <1>1, <1>2, NextTidy
<1> QED BY <1>1, <1>2, <1>3 DEF Cycled, Tidy

\* what slot i of a category reads in this cycle stands for what b has for it
Settled(m, kind, i, s1, t1) == \A z \in DOMAIN m : Fresh(kind, i, z) => t1.var[m[z]] = s1.var[z]

\* Slots that read at the same time read the same.
LEMMA ReadsAgree ==
  ASSUME NEW a, NEW b, NEW m, NEW s, NEW t, NEW s1, NEW t1, Twins(a, b, m, s, t),
         NEW kind, NEW i, Settled(m, kind, i, s1, t1), NEW kindB, NEW j,
         NEW x \in DOMAIN m, NEW y, y = m[x], Fresh(kind, i, x) <=> Fresh(kindB, j, y)
  PROVE  Reading(kindB, j, t, t1, y) = Reading(kind, i, s, s1, x)
<1>1. t.var[y] = s.var[x]
  BY DEF Twins
<1>2. Fresh(kind, i, x) => t1.var[y] = s1.var[x]
  BY DEF Settled
<1> QED BY <1>1, <1>2 DEF Reading, Fresh

\* Virtual inputs of the same levels.
LEMMA LevelsLatch ==
  ASSUME NEW va, NEW vb, va.mode = vb.mode, SameLevels(va, vb), NEW l, NEW x0, NEW x1, NEW x2
  PROVE  VirtLatch(vb, l, x0, x1, x2) = VirtLatch(va, l, x0, x1, x2)
<1>1. Level(x0) \in BOOLEAN /\ Level(x1) \in BOOLEAN /\ Level(x2) \in BOOLEAN
  BY DEF Level
<1>2. VirtualLevel(va, Level(x0), Level(x1), Level(x2), va.var2 = AlwaysFalse)
        = VirtualLevel(vb, Level(x0), Level(x1), Level(x2), vb.var2 = AlwaysFalse)
  BY <1>1, Zenon DEF SameLevels
<1> QED BY <1>2, Zenon DEF VirtLatch

LEMMA VirtInsAgree ==
  ASSUME NEW a, NEW b, NEW m, NEW s, NEW t, NEW s1, NEW t1, Turn(a, b, m, s, t, s1, t1),
         NEW i \in DOMAIN a.virtualInputs, NEW j \in DOMAIN b.virtualInputs,
         VirtInStands(a, b, m, i, j), t.viLatch[j] = s.viLatch[i], Settled(m, "virtIn", i, s1, t1)
  PROVE  t1.var[<<"virtIn", j>>] = s1.var[<<"virtIn", i>>] /\ t1.viLatch[j] = s1.viLatch[i]
<1>1. PICK va, vb : va = a.virtualInputs[i] /\ vb = b.virtualInputs[j]
  OBVIOUS
<1>2. /\ va.enabled /\ vb.enabled /\ va.mode = vb.mode /\ SameLevels(va, vb)
      /\ Alike(m, "virtIn", i, va.var0, j, vb.var0)
      /\ Alike(m, "virtIn", i, va.var1, j, vb.var1)
      /\ Alike(m, "virtIn", i, va.var2, j, vb.var2)
  BY <1>1 DEF VirtInStands
<1>3. \A x, y : Alike(m, "virtIn", i, x, j, y) =>
        Reading("virtIn", j, t, t1, y) = Reading("virtIn", i, s, s1, x)
  BY TurnParts, ReadsAgree DEF Alike
<1>4. LatchOf(vb, t.viLatch[j], j, t, t1) = LatchOf(va, s.viLatch[i], i, s, s1)
  <2> DEFINE x0 == Reading("virtIn", i, s, s1, va.var0)
             x1 == Reading("virtIn", i, s, s1, va.var1)
             x2 == Reading("virtIn", i, s, s1, va.var2)
  <2>1. /\ Reading("virtIn", j, t, t1, vb.var0) = x0 /\ Reading("virtIn", j, t, t1, vb.var1) = x1
        /\ Reading("virtIn", j, t, t1, vb.var2) = x2
    BY <1>2, <1>3
  <2>2. LatchOf(va, s.viLatch[i], i, s, s1) = VirtLatch(va, s.viLatch[i], x0, x1, x2)
    BY DEF LatchOf
  <2>3. LatchOf(vb, t.viLatch[j], j, t, t1) = VirtLatch(vb, s.viLatch[i], x0, x1, x2)
    BY <2>1 DEF LatchOf
  <2> HIDE DEF x0, x1, x2
  <2>4. VirtLatch(vb, s.viLatch[i], x0, x1, x2) = VirtLatch(va, s.viLatch[i], x0, x1, x2)
    BY <1>2, LevelsLatch
  <2> QED BY <2>2, <2>3, <2>4
<1> DEFINE la == LatchOf(va, s.viLatch[i], i, s, s1)
           lb == LatchOf(vb, t.viLatch[j], j, t, t1)
<1>5. s1.viLatch[i] = la /\ s1.var[<<"virtIn", i>>] = Value(la.out)
  BY <1>1, <1>2, TurnParts, VirtInCycled
<1>6. t1.viLatch[j] = lb /\ t1.var[<<"virtIn", j>>] = Value(lb.out)
  BY <1>1, <1>2, TurnParts, VirtInCycled
<1> HIDE DEF la, lb
<1>7. lb = la
  BY <1>4 DEF la, lb
<1> QED BY <1>5, <1>6, <1>7

LEMMA FlashersAgree ==
  ASSUME NEW a, NEW b, NEW m, NEW s, NEW t, NEW s1, NEW t1, Turn(a, b, m, s, t, s1, t1),
         NEW i \in DOMAIN a.flashers, NEW j \in DOMAIN b.flashers, FlasherStands(a, b, m, i, j),
         t.flash[j] = s.flash[i], t.var[<<"flasher", j>>] = s.var[<<"flasher", i>>],
         Settled(m, "flasher", i, s1, t1)
  PROVE  t1.var[<<"flasher", j>>] = s1.var[<<"flasher", i>>] /\ t1.flash[j] = s1.flash[i]
<1>1. PICK fa, fb : fa = a.flashers[i] /\ fb = b.flashers[j]
  OBVIOUS
<1>2. /\ fa.enabled /\ fb.enabled /\ fa.onTime = fb.onTime /\ fa.offTime = fb.offTime
      /\ Alike(m, "flasher", i, fa.input, j, fb.input)
  BY <1>1 DEF FlasherStands, SameSettings
<1>3. Reading("flasher", j, t, t1, fb.input) = Reading("flasher", i, s, s1, fa.input)
  BY <1>2, TurnParts, ReadsAgree DEF Alike
<1> DEFINE ua == FlashOf(fa, s.flash[i], s.var[<<"flasher", i>>], i, s, s1)
           ub == FlashOf(fb, t.flash[j], t.var[<<"flasher", j>>], j, t, t1)
<1>4. ub = ua
  <2> DEFINE x == Reading("flasher", i, s, s1, fa.input)
             f == s.flash[i]
             v == s.var[<<"flasher", i>>]
  <2>1. ua = FlashOn(fa, f, v, x) /\ ub = FlashOn(fb, f, v, x)
    BY <1>3 DEF FlashOf
  <2> HIDE DEF ua, ub, x, f, v
  <2>2. FlashOn(fb, f, v, x) = FlashOn(fa, f, v, x)
    BY <1>2, Zenon DEF FlashOn, FlasherUpdate
  <2> QED BY <2>1, <2>2
<1>5. /\ s1.var[<<"flasher", i>>] = ua.v
      /\ s1.flash[i] = [on |-> Older(ua.f.on, CycleMs, MaxAge), off |-> Older(ua.f.off, CycleMs, MaxAge)]
  BY <1>1, <1>2, TurnParts, FlasherCycled
<1>6. /\ t1.var[<<"flasher", j>>] = ub.v
      /\ t1.flash[j] = [on |-> Older(ub.f.on, CycleMs, MaxAge), off |-> Older(ub.f.off, CycleMs, MaxAge)]
  BY <1>1, <1>2, TurnParts, FlasherCycled
<1> HIDE DEF ua, ub
<1> QED BY <1>4, <1>5, <1>6

LEMMA CountersAgree ==
  ASSUME NEW a, NEW b, NEW m, NEW s, NEW t, NEW s1, NEW t1, Turn(a, b, m, s, t, s1, t1),
         NEW i \in DOMAIN a.counters, NEW j \in DOMAIN b.counters, CounterStands(a, b, m, i, j),
         t.count[j] = s.count[i], t.var[<<"counter", j>>] = s.var[<<"counter", i>>],
         Settled(m, "counter", i, s1, t1)
  PROVE  t1.var[<<"counter", j>>] = s1.var[<<"counter", i>>] /\ t1.count[j] = s1.count[i]
<1>1. PICK ka, kb : ka = a.counters[i] /\ kb = b.counters[j]
  OBVIOUS
<1>2. /\ ka.enabled /\ kb.enabled
      /\ ka.incEdge = kb.incEdge /\ ka.decEdge = kb.decEdge /\ ka.resetEdge = kb.resetEdge
      /\ ka.minCount = kb.minCount /\ ka.maxCount = kb.maxCount /\ ka.wrapAround = kb.wrapAround
      /\ ka.holdToReset = kb.holdToReset /\ ka.resetTime = kb.resetTime
      /\ Alike(m, "counter", i, ka.incInput, j, kb.incInput)
      /\ Alike(m, "counter", i, ka.decInput, j, kb.decInput)
      /\ Alike(m, "counter", i, ka.resetInput, j, kb.resetInput)
  BY <1>1 DEF CounterStands, SameSettings
<1>3. \A x, y : Alike(m, "counter", i, x, j, y) =>
        Reading("counter", j, t, t1, y) = Reading("counter", i, s, s1, x)
  BY TurnParts, ReadsAgree DEF Alike
<1> DEFINE ua == CountOf(ka, s.count[i], s.var[<<"counter", i>>], i, s, s1)
           ub == CountOf(kb, t.count[j], t.var[<<"counter", j>>], j, t, t1)
<1>4. ub = ua
  <2> DEFINE x0 == Reading("counter", i, s, s1, ka.incInput)
             x1 == Reading("counter", i, s, s1, ka.decInput)
             x2 == Reading("counter", i, s, s1, ka.resetInput)
             k == s.count[i]
             n == s.var[<<"counter", i>>]
  <2>1. /\ Reading("counter", j, t, t1, kb.incInput) = x0 /\ Reading("counter", j, t, t1, kb.decInput) = x1
        /\ Reading("counter", j, t, t1, kb.resetInput) = x2
    BY <1>2, <1>3
  <2>2. ua = CountOn(ka, k, n, x0, x1, x2)
    BY DEF CountOf
  <2>3. ub = CountOn(kb, k, n, x0, x1, x2)
    BY <2>1 DEF CountOf
  <2> HIDE DEF ua, ub, x0, x1, x2, k, n
  <2>4. CountOn(kb, k, n, x0, x1, x2) = CountOn(ka, k, n, x0, x1, x2)
    BY <1>2, Zenon DEF CountOn, CounterUpdate, ResetFires, HeldToReset, Counted, CountUp, CountDown
  <2> QED BY <2>2, <2>3, <2>4
<1>5. s1.var[<<"counter", i>>] = ua.n /\ s1.count[i] = CountAged(ka, ua.k)
  BY <1>1, <1>2, TurnParts, CounterCycled
<1>6. t1.var[<<"counter", j>>] = ub.n /\ t1.count[j] = CountAged(kb, ub.k)
  BY <1>1, <1>2, TurnParts, CounterCycled
<1> HIDE DEF ua, ub
<1>7. CountAged(kb, ua.k) = CountAged(ka, ua.k)
  BY <1>2 DEF CountAged
<1> QED BY <1>4, <1>5, <1>6, <1>7

LEMMA ConditionsAgree ==
  ASSUME NEW a, NEW b, NEW m, NEW s, NEW t, NEW s1, NEW t1, Turn(a, b, m, s, t, s1, t1),
         NEW i \in DOMAIN a.conditions, NEW j \in DOMAIN b.conditions, ConditionStands(a, b, m, i, j),
         Settled(m, "condition", i, s1, t1)
  PROVE  t1.var[<<"condition", j>>] = s1.var[<<"condition", i>>]
<1>1. PICK ca, cb : ca = a.conditions[i] /\ cb = b.conditions[j]
  OBVIOUS
<1>2. /\ ca.enabled /\ cb.enabled /\ ca.operator = cb.operator /\ ca.arg = cb.arg
      /\ Alike(m, "condition", i, ca.input, j, cb.input)
  BY <1>1 DEF ConditionStands, SameSettings
<1>3. Reading("condition", j, t, t1, cb.input) = Reading("condition", i, s, s1, ca.input)
  BY <1>2, TurnParts, ReadsAgree DEF Alike
<1>4. s1.var[<<"condition", i>>] = ConditionValue(ca.operator, Reading("condition", i, s, s1, ca.input), ca.arg)
  BY <1>1, <1>2, TurnParts, ConditionCycled
<1>5. t1.var[<<"condition", j>>] = ConditionValue(cb.operator, Reading("condition", j, t, t1, cb.input), cb.arg)
  BY <1>1, <1>2, TurnParts, ConditionCycled
<1> QED BY <1>2, <1>3, <1>4, <1>5

\* The constant variables are read as such.
LEMMA ConstantsRead ==
  ASSUME NEW c, NEW s, NEW t, Tidy(c, s), Tidy(c, t), NEW kind, NEW i
  PROVE  Reading(kind, i, s, t, AlwaysFalse) = 0 /\ Reading(kind, i, s, t, AlwaysTrue) = 1
BY DEF Tidy, Reading

\* What a momentary virtual input that reads one term shows.
LEMMA MomentaryCycled ==
  ASSUME NEW c, NEW s, NEW t, Cycled(c, s, t), Tidy(c, s), Tidy(c, t), NEW i \in DOMAIN c.virtualInputs,
         NEW slot, slot = c.virtualInputs[i], ReadsFirst(slot), slot.mode = "momentary",
         NEW x0, x0 = Reading("virtIn", i, s, t, slot.var0)
  PROVE  /\ Follows(slot) => t.var[<<"virtIn", i>>] = IF x0 = 0 THEN 0 ELSE 1
         /\ Negates(slot) => t.var[<<"virtIn", i>>] = IF x0 = 0 THEN 1 ELSE 0
<1> DEFINE latch == LatchOf(slot, s.viLatch[i], i, s, t)
           x1 == Reading("virtIn", i, s, t, slot.var1)
           x2 == Reading("virtIn", i, s, t, slot.var2)
<1>1. slot.enabled
  BY DEF ReadsFirst
<1>2. t.viLatch[i] = latch /\ t.var[<<"virtIn", i>>] = Value(latch.out)
  BY <1>1, VirtInCycled
<1>3. latch = VirtLatch(slot, s.viLatch[i], x0, x1, x2)
  BY DEF LatchOf
<1>4. s.viLatch[i].out = s.viLatch[i].last
  BY <1>1 DEF Tidy
<1>5. SecondTerm(slot, x1)
  BY ConstantsRead DEF SecondTerm
<1> HIDE DEF latch, x1, x2
<1>6. /\ Follows(slot) => Value(latch.out) = IF x0 = 0 THEN 0 ELSE 1
      /\ Negates(slot) => Value(latch.out) = IF x0 = 0 THEN 1 ELSE 0
  BY <1>3, <1>4, <1>5, MomentaryReads
<1> QED BY <1>2, <1>6

\* A virtual input is off while the term that gates it is.
LEMMA GateCycled ==
  ASSUME NEW c, NEW s, NEW t, Cycled(c, s, t), Tidy(c, s), NEW i \in DOMAIN c.virtualInputs,
         NEW v, v = c.virtualInputs[i], IsGate(v), NEW x, Reading("virtIn", i, s, t, x) = 0,
         (v.not0 = FALSE /\ v.var0 = x) \/ (v.not1 = FALSE /\ v.var1 = x)
  PROVE  t.var[<<"virtIn", i>>] = 0
<1> DEFINE latch == LatchOf(v, s.viLatch[i], i, s, t)
           x0 == Reading("virtIn", i, s, t, v.var0)
           x1 == Reading("virtIn", i, s, t, v.var1)
           x2 == Reading("virtIn", i, s, t, v.var2)
<1>1. v.enabled /\ v.mode = "momentary"
  BY DEF IsGate
<1>2. t.viLatch[i] = latch /\ t.var[<<"virtIn", i>>] = Value(latch.out)
  BY <1>1, VirtInCycled
<1>3. latch = VirtLatch(v, s.viLatch[i], x0, x1, x2)
  BY DEF LatchOf
<1>4. s.viLatch[i].out = s.viLatch[i].last
  BY <1>1 DEF Tidy
<1>5. (v.not0 = FALSE /\ x0 = 0) \/ (v.not1 = FALSE /\ x1 = 0)
  OBVIOUS
<1> HIDE DEF latch, x0, x1, x2
<1>6. Value(latch.out) = 0
  BY <1>3, <1>4, <1>5, GateShuts
<1> QED BY <1>2, <1>6

\* A flasher is off while its input is.
LEMMA FlasherOff ==
  ASSUME NEW c, NEW s, NEW t, Cycled(c, s, t), NEW i \in DOMAIN c.flashers, c.flashers[i].enabled,
         Reading("flasher", i, s, t, c.flashers[i].input) = 0
  PROVE  t.var[<<"flasher", i>>] = 0
<1> DEFINE slot == c.flashers[i]
           u == FlashOf(slot, s.flash[i], s.var[<<"flasher", i>>], i, s, t)
<1>1. /\ t.var[<<"flasher", i>>] = u.v
      /\ t.flash[i] = [on |-> Older(u.f.on, CycleMs, MaxAge), off |-> Older(u.f.off, CycleMs, MaxAge)]
  BY FlasherCycled
<1>2. u = [v |-> 0, f |-> s.flash[i]]
  BY DEF FlashOf, FlashOn, FlasherUpdate, Level
<1> HIDE DEF u
<1> QED BY <1>1, <1>2

\* A counter that is gated counts nothing while the variable that resets it is off.
LEMMA GatedCounts ==
  ASSUME NEW a, NEW s, NEW s1, Cycled(a, s, s1), Tidy(a, s), NEW i \in DOMAIN a.counters,
         a.counters[i].enabled, Gated(a, i),
         Reading("counter", i, s, s1, a.counters[i].resetInput) = 0
  PROVE  Reading("counter", i, s, s1, a.counters[i].incInput) = 0
<1>1. PICK x, y : x = a.counters[i].resetInput /\ y = a.counters[i].incInput
  OBVIOUS
<1>2. Runs(a)
  BY DEF Cycled
<1>3. y \in VarMap(a)
  BY <1>1, <1>2, ReferencesExist
<1>4. Fresh(y[1], y[2], x) <=> Fresh("counter", i, x)
  BY <1>1 DEF Gated
<1>5. Reading("counter", i, s, s1, x) = 0
  BY <1>1
<1>6. Reading(y[1], y[2], s, s1, x) = 0
  BY <1>4, <1>5 DEF Reading, Fresh
<1>7. CASE y[1] = "virtIn"
  <2>1. y[2] \in DOMAIN a.virtualInputs /\ y = <<"virtIn", y[2]>>
    BY <1>3, <1>7, OwnSlots DEF Kinds, SlotsOf
  <2>2. PICK v : v = a.virtualInputs[y[2]]
    OBVIOUS
  <2>3. IsGate(v) /\ ((v.not0 = FALSE /\ v.var0 = x) \/ (v.not1 = FALSE /\ v.var1 = x))
    BY <1>1, <1>7, <2>2 DEF Gated
  <2>4. Reading("virtIn", y[2], s, s1, x) = 0
    BY <1>6, <1>7
  <2>5. s1.var[<<"virtIn", y[2]>>] = 0
    <3>1. PICK n : n = y[2]
      OBVIOUS
    <3>2. n \in DOMAIN a.virtualInputs /\ v = a.virtualInputs[n] /\ Reading("virtIn", n, s, s1, x) = 0
      BY <2>1, <2>2, <2>4, <3>1
    <3>3. s1.var[<<"virtIn", n>>] = 0
      BY <2>3, <3>2, GateCycled
    <3> QED BY <3>1, <3>3
  <2>6. Reading("counter", i, s, s1, y) = s1.var[y]
    BY <1>7 DEF Reading, Later
  <2> QED BY <1>1, <2>1, <2>5, <2>6
<1>8. CASE y[1] = "flasher"
  <2>1. y[2] \in DOMAIN a.flashers /\ y = <<"flasher", y[2]>>
    BY <1>3, <1>8, OwnSlots DEF Kinds, SlotsOf
  <2>2. a.flashers[y[2]].enabled /\ a.flashers[y[2]].input = x
    BY <1>1, <1>8 DEF Gated
  <2>3. Reading("flasher", y[2], s, s1, a.flashers[y[2]].input) = 0
    BY <1>6, <1>8, <2>2
  <2>4. s1.var[<<"flasher", y[2]>>] = 0
    BY <2>1, <2>2, <2>3, FlasherOff
  <2>5. Reading("counter", i, s, s1, y) = s1.var[y]
    BY <1>8 DEF Reading, Later
  <2> QED BY <1>1, <2>1, <2>4, <2>5
<1> QED BY <1>1, <1>7, <1>8 DEF Gated

\* A virtual input that passes on a CAN input shows what the CAN input does.
LEMMA LeftOutAgrees ==
  ASSUME NEW a, NEW b, NEW m, NEW s, NEW t, NEW s1, NEW t1, Turn(a, b, m, s, t, s1, t1),
         NEW i \in DOMAIN a.virtualInputs, NEW y, LeftOut(a, m, i, y), t1.var[y] = s1.var[y]
  PROVE  t1.var[y] = s1.var[<<"virtIn", i>>]
<1>1. PICK v : v = a.virtualInputs[i]
  OBVIOUS
<1>2. Follows(v) /\ v.mode = "momentary" /\ y = v.var0 /\ y[1] = "canIn" /\ y \in DOMAIN m
  BY <1>1 DEF LeftOut
<1>3. ReadsFirst(v)
  BY <1>2 DEF Follows
<1>4. PICK x0 : x0 = Reading("virtIn", i, s, s1, v.var0)
  OBVIOUS
<1>5. s1.var[<<"virtIn", i>>] = IF x0 = 0 THEN 0 ELSE 1
  <2>1. Cycled(a, s, s1) /\ Tidy(a, s) /\ Tidy(a, s1)
    BY TurnParts
  <2>2. /\ Follows(v) => s1.var[<<"virtIn", i>>] = IF x0 = 0 THEN 0 ELSE 1
        /\ Negates(v) => s1.var[<<"virtIn", i>>] = IF x0 = 0 THEN 1 ELSE 0
    BY <1>1, <1>2, <1>3, <1>4, <2>1, MomentaryCycled
  <2> QED BY <1>2, <2>2
<1>6. x0 = s1.var[y]
  BY <1>2, <1>4 DEF Reading, Later
<1>7. x0 \in {0, 1}
  <2>1. y \in VarMap(a)
    BY <1>2, TurnParts DEF SameProgram
  <2>2. y[2] \in DOMAIN a.canInputs /\ y = <<"canIn", y[2]>>
    BY <1>2, <2>1 DEF VarMap, Slots, AlwaysFalse, AlwaysTrue
  <2>3. Tidy(a, s1)
    BY TurnParts
  <2>4. s1.var[<<"canIn", y[2]>>] \in {0, 1}
    BY <2>2, <2>3 DEF Tidy
  <2> QED BY <1>6, <2>2, <2>4
<1> QED BY <1>5, <1>6, <1>7

\* A counter that is reset by the rise of what negates the variable by whose fall it was.
LEMMA ResetsAgree ==
  ASSUME NEW a, NEW b, NEW m, NEW s, NEW t, NEW s1, NEW t1, Turn(a, b, m, s, t, s1, t1),
         NEW i \in DOMAIN a.counters, NEW j \in DOMAIN b.counters, ResetRewritten(a, b, m, i, j),
         HeldAlike(s.count[i], s.var[<<"counter", i>>], t.count[j]),
         t.var[<<"counter", j>>] = s.var[<<"counter", i>>], Settled(m, "counter", i, s1, t1)
  PROVE  /\ t1.var[<<"counter", j>>] = s1.var[<<"counter", i>>]
         /\ HeldAlike(s1.count[i], s1.var[<<"counter", i>>], t1.count[j])
<1>1. PICK ka, kb, n : ka = a.counters[i] /\ kb = b.counters[j] /\ n = kb.resetInput[2]
  OBVIOUS
<1>2. /\ ka.enabled /\ kb.enabled /\ ResetSettings(ka, kb) /\ Gated(a, i)
      /\ Alike(m, "counter", i, ka.incInput, j, kb.incInput)
      /\ ka.decInput = AlwaysFalse /\ kb.decInput = AlwaysFalse
      /\ kb.resetInput[1] = "virtIn" /\ kb.resetInput \in VarMap(b)
      /\ Negates(b.virtualInputs[n]) /\ b.virtualInputs[n].mode = "momentary"
      /\ ka.resetInput \in DOMAIN m /\ b.virtualInputs[n].var0 = m[ka.resetInput]
      /\ Fresh("counter", i, ka.resetInput) <=> Fresh("virtIn", n, m[ka.resetInput])
  BY <1>1 DEF ResetRewritten
<1>3. n \in DOMAIN b.virtualInputs /\ kb.resetInput = <<"virtIn", n>>
  BY <1>1, <1>2, OwnSlots DEF Kinds, SlotsOf
<1> DEFINE k == s.count[i]
           l == t.count[j]
           count == s.var[<<"counter", i>>]
           x0 == Reading("counter", i, s, s1, ka.incInput)
           z == Reading("counter", i, s, s1, ka.resetInput)
           y == Reading("counter", j, t, t1, kb.resetInput)
           u == CountOf(ka, s.count[i], s.var[<<"counter", i>>], i, s, s1)
           w == CountOf(kb, t.count[j], t.var[<<"counter", j>>], j, t, t1)
<1>4. Reading("counter", j, t, t1, kb.incInput) = x0
  BY <1>2, TurnParts, ReadsAgree DEF Alike
<1>5. Reading("virtIn", n, t, t1, b.virtualInputs[n].var0) = z
  BY <1>2, TurnParts, ReadsAgree
<1>6. y = IF z = 0 THEN 1 ELSE 0
  <2>1. PICK v, x : v = b.virtualInputs[n] /\ x = Reading("virtIn", n, t, t1, v.var0)
    OBVIOUS
  <2>2. Negates(v) /\ ReadsFirst(v) /\ v.mode = "momentary"
    BY <1>2, <2>1 DEF Negates
  <2>3. t1.var[<<"virtIn", n>>] = IF x = 0 THEN 1 ELSE 0
    <3>1. Cycled(b, t, t1) /\ Tidy(b, t) /\ Tidy(b, t1)
      BY TurnParts
    <3>2. /\ Follows(v) => t1.var[<<"virtIn", n>>] = IF x = 0 THEN 0 ELSE 1
          /\ Negates(v) => t1.var[<<"virtIn", n>>] = IF x = 0 THEN 1 ELSE 0
      BY <1>3, <2>1, <2>2, <3>1, MomentaryCycled
    <3> QED BY <2>2, <3>2
  <2>4. y = t1.var[<<"virtIn", n>>]
    BY <1>3 DEF Reading, Later
  <2>5. x = z
    BY <1>5, <2>1
  <2> QED BY <2>3, <2>4, <2>5
<1>7. z = 0 => x0 = 0
  <2> SUFFICES ASSUME z = 0 PROVE x0 = 0
    OBVIOUS
  <2>1. Cycled(a, s, s1) /\ Tidy(a, s)
    BY TurnParts
  <2>2. a.counters[i].enabled /\ Gated(a, i)
    BY <1>1, <1>2
  <2>3. Reading("counter", i, s, s1, a.counters[i].resetInput) = 0
    BY <1>1
  <2>4. Reading("counter", i, s, s1, a.counters[i].incInput) = 0
    BY <2>1, <2>2, <2>3, GatedCounts
  <2> QED BY <1>1, <2>4
<1>8. Reading("counter", i, s, s1, ka.decInput) = 0 /\ Reading("counter", j, t, t1, kb.decInput) = 0
  BY <1>2, TurnParts, ConstantsRead DEF Twins
<1>9. PICK x1 : x1 = 0
  OBVIOUS
<1>10. u = CountOn(ka, k, count, x0, x1, z)
  BY <1>8, <1>9 DEF CountOf
<1>11. w = CountOn(kb, l, count, x0, x1, y)
  BY <1>4, <1>8, <1>9 DEF CountOf
<1>12. s1.var[<<"counter", i>>] = u.n /\ s1.count[i] = CountAged(ka, u.k)
  <2>1. Cycled(a, s, s1) /\ ka.enabled
    BY <1>2, TurnParts
  <2> QED BY <1>1, <2>1, CounterCycled
<1>13. t1.var[<<"counter", j>>] = w.n /\ t1.count[j] = CountAged(kb, w.k)
  <2>1. Cycled(b, t, t1) /\ kb.enabled
    BY <1>2, TurnParts
  <2> QED BY <1>1, <2>1, CounterCycled
<1>14. HeldAlike(k, count, l)
  OBVIOUS
<1> HIDE DEF k, l, count, x0, y, z, u, w
<1>15. u.n = w.n /\ HeldAlike(u.k, u.n, w.k)
  BY <1>2, <1>6, <1>7, <1>9, <1>10, <1>11, <1>14, HeldCounts
<1>16. CountAged(ka, u.k) = u.k /\ CountAged(kb, w.k) = w.k
  BY <1>2 DEF CountAged, ResetSettings
<1> QED BY <1>12, <1>13, <1>15, <1>16

\* A latching virtual input that stands for a counter of one bit and a condition.
LEMMA TogglesAgree ==
  ASSUME NEW a, NEW b, NEW m, NEW s, NEW t, NEW s1, NEW t1, Turn(a, b, m, s, t, s1, t1),
         NEW i \in DOMAIN a.conditions, NEW j \in DOMAIN b.virtualInputs, ToggleLatched(a, b, m, i, j),
         MemoryStands(a, b, m, s, t, <<"condition", i>>, <<"virtIn", j>>), Settled(m, "condition", i, s1, t1)
  PROVE  /\ t1.var[<<"virtIn", j>>] = s1.var[<<"condition", i>>]
         /\ MemoryStands(a, b, m, s1, t1, <<"condition", i>>, <<"virtIn", j>>)
<1>1. PICK ca, k, ka, v : /\ ca = a.conditions[i] /\ k = ca.input[2]
                          /\ ka = a.counters[k] /\ v = b.virtualInputs[j]
  OBVIOUS
<1>2. /\ ca.enabled /\ ca.operator = "ge" /\ ca.arg = 1
      /\ ca.input[1] = "counter" /\ ca.input \in VarMap(a) /\ TogglesBit(ka)
      /\ Follows(v) /\ v.mode = "latching"
      /\ ka.incInput \in DOMAIN m /\ v.var0 = m[ka.incInput]
      /\ Fresh("counter", k, ka.incInput) <=> Fresh("virtIn", j, v.var0)
  BY <1>1 DEF ToggleLatched
<1>3. k \in DOMAIN a.counters /\ ca.input = <<"counter", k>>
  BY <1>1, <1>2, OwnSlots DEF Kinds, SlotsOf
<1>4. /\ s.var[<<"counter", k>>] = Value(t.viLatch[j].out) /\ s.count[k].inc = t.viLatch[j].last
      /\ s.count[k].dec = FALSE /\ s.count[k].reset = FALSE
      /\ t.viLatch[j].out \in BOOLEAN /\ t.viLatch[j].last \in BOOLEAN
  BY <1>1, <1>3, Zenon DEF MemoryStands
<1>5. /\ Cycled(a, s, s1) /\ Cycled(b, t, t1) /\ Twins(a, b, m, s, t)
      /\ Tidy(a, s) /\ Tidy(b, t) /\ Tidy(a, s1) /\ Tidy(b, t1)
  BY TurnParts
<1> DEFINE bit == s.var[<<"counter", k>>]
           l == t.viLatch[j]
           x0 == Reading("counter", k, s, s1, ka.incInput)
           x1 == Reading("counter", k, s, s1, ka.decInput)
           x2 == Reading("counter", k, s, s1, ka.resetInput)
           u == CountOf(ka, s.count[k], s.var[<<"counter", k>>], k, s, s1)
           y1 == Reading("virtIn", j, t, t1, v.var1)
           y2 == Reading("virtIn", j, t, t1, v.var2)
           r == LatchOf(v, t.viLatch[j], j, t, t1)
<1>6. Reading("virtIn", j, t, t1, v.var0) = x0
  <2>1. Settled(m, "counter", k, s1, t1)
    BY DEF Settled, Fresh, Later
  <2> QED BY <1>2, <1>5, <2>1, ReadsAgree
<1>7. s1.var[<<"counter", k>>] = u.n /\ s1.count[k] = u.k
  <2>1. ka.enabled /\ ka.holdToReset = FALSE
    BY <1>2 DEF TogglesBit
  <2>2. s1.var[<<"counter", k>>] = u.n /\ s1.count[k] = CountAged(ka, u.k)
    <3>1. Cycled(a, s, s1) /\ k \in DOMAIN a.counters /\ ka = a.counters[k] /\ ka.enabled
      BY <1>1, <1>3, <1>5, <2>1
    <3> QED BY <3>1, CounterCycled
  <2> HIDE DEF u
  <2> QED BY <2>1, <2>2 DEF CountAged
<1>8. t1.viLatch[j] = r /\ t1.var[<<"virtIn", j>>] = Value(r.out)
  <2>1. v.enabled
    BY <1>2 DEF Follows, ReadsFirst
  <2>2. Cycled(b, t, t1) /\ v = b.virtualInputs[j]
    BY <1>1, <1>5
  <2> QED BY <2>1, <2>2, VirtInCycled
<1>9. s1.var[<<"condition", i>>] = ConditionValue("ge", s1.var[<<"counter", k>>], 1)
  <2>1. s1.var[<<"condition", i>>] = ConditionValue(ca.operator, Reading("condition", i, s, s1, ca.input), ca.arg)
    <3>1. Cycled(a, s, s1) /\ ca = a.conditions[i] /\ ca.enabled
      BY <1>1, <1>2, <1>5
    <3> QED BY <3>1, ConditionCycled
  <2>2. Reading("condition", i, s, s1, ca.input) = s1.var[<<"counter", k>>]
    BY <1>3 DEF Reading, Later
  <2> QED BY <1>2, <2>1, <2>2
<1>10. x1 = 0 /\ x2 = 0
  BY <1>2, <1>5, ConstantsRead DEF TogglesBit
<1>11. u = CountOn(ka, s.count[k], bit, x0, x1, x2)
  BY DEF CountOf
<1>12. r = VirtLatch(v, l, x0, y1, y2)
  BY <1>6 DEF LatchOf
<1>13. SecondTerm(v, y1)
  BY <1>5, ConstantsRead DEF SecondTerm
<1>14. bit \in {0, 1}
  BY <1>4 DEF Value
<1> HIDE DEF u, r, x0, x1, x2, y1, y2
<1>15. BitFlipped(u, s.count[k], bit, x0)
  <2>1. TogglesBit(ka) /\ Unreset(s.count[k])
    BY <1>2, <1>4 DEF Unreset
  <2> QED BY <1>10, <1>11, <1>14, <2>1, BitToggles
<1>16. Flipped(r, l, x0)
  <2>1. ReadsFirst(v)
    BY <1>2 DEF Follows
  <2>2. Says(LevelOf(v, x0, y1, y2), v, x0)
    BY <1>13, <2>1, FollowsLevel
  <2>3. Latches(l)
    BY <1>4 DEF Latches
  <2> HIDE DEF l
  <2> QED BY <1>2, <1>12, <2>2, <2>3, LatchingToggles
<1>17. s1.var[<<"counter", k>>] = Value(r.out) /\ s1.count[k].inc = r.last
  BY <1>4, <1>7, <1>15, <1>16 DEF BitFlipped, Flipped
<1>18. t1.var[<<"virtIn", j>>] = s1.var[<<"condition", i>>]
  <2>1. Value(r.out) = 0 \/ Value(r.out) = 1
    BY DEF Value
  <2>2. ConditionValue("ge", 0, 1) = 0 /\ ConditionValue("ge", 1, 1) = 1
    BY DEF ConditionValue, Compare, Value
  <2> QED BY <1>8, <1>9, <1>17, <2>1, <2>2
<1>19. /\ s1.var[<<"counter", k>>] = Value(t1.viLatch[j].out) /\ s1.count[k].inc = t1.viLatch[j].last
       /\ s1.count[k].dec = FALSE /\ s1.count[k].reset = FALSE
       /\ t1.viLatch[j].out \in BOOLEAN /\ t1.viLatch[j].last \in BOOLEAN
  <2>1. t1.viLatch[j] = r /\ s1.count[k] = u.k
    BY <1>7, <1>8
  <2>2. r.out \in BOOLEAN /\ r.last = (x0 # 0) /\ u.k.dec = FALSE /\ u.k.reset = FALSE
    BY <1>15, <1>16 DEF BitFlipped, Flipped
  <2>3. r.last \in BOOLEAN
    BY <2>2
  <2> QED BY <1>17, <2>1, <2>2, <2>3, Zenon
<1>20. MemoryStands(a, b, m, s1, t1, <<"condition", i>>, <<"virtIn", j>>)
  <2>1. <<"condition", i>>[1] = "condition" /\ <<"virtIn", j>>[1] = "virtIn"
        /\ <<"condition", i>>[2] = i /\ <<"virtIn", j>>[2] = j
    OBVIOUS
  <2>2. "condition" # "virtIn" /\ "condition" # "flasher" /\ "condition" # "counter"
    OBVIOUS
  <2>3. a.conditions[i].input = <<"counter", k>> /\ <<"counter", k>>[2] = k
    BY <1>1, <1>3
  <2> QED BY <1>19, <2>1, <2>2, <2>3, Zenon DEF MemoryStands
<1> QED BY <1>18, <1>20

\* what a cycle makes of a digital input, from its slot, its memory and its pin
DigDebounced(slot, d, pin) == IF slot.enabled THEN Debounced(slot, Sampled(d, pin)) ELSE d
DigRead(slot, d, pin) == slot.enabled /\ MustRead(slot, Sampled(d, pin))
DigLatch(slot, l, pin) == LatchCheck(l, slot.mode, slot.invert, pin)

LEMMA DigInCycled ==
  ASSUME NEW c, Runs(c), NEW s, NEW pins, NEW rx, Shape(c, s), NEW t, t = Step(c, s, pins, rx),
         NEW i \in DOMAIN c.inputs, NEW slot, slot = c.inputs[i], NEW pin, pin = pins[i]
  PROVE  /\ t.din[i] = [DigDebounced(slot, s.din[i], pin) EXCEPT !.age = Older(@, CycleMs, MaxAge)]
         /\ t.dinLatch[i] = IF DigRead(slot, s.din[i], pin) THEN DigLatch(slot, s.dinLatch[i], pin)
                            ELSE s.dinLatch[i]
         /\ t.var[<<"digIn", i>>] =
              IF ~slot.enabled THEN 0
              ELSE IF DigRead(slot, s.din[i], pin) THEN Value(DigLatch(slot, s.dinLatch[i], pin).out)
              ELSE s.var[<<"digIn", i>>]
<1>1. PICK r : /\ Shape(c, r) /\ r.var[<<"digIn", i>>] = s.var[<<"digIn", i>>]
               /\ r.din[i] = s.din[i] /\ r.dinLatch[i] = s.dinLatch[i]
               /\ t.var[<<"digIn", i>>] = DigIn(c, r, i, pins[i]).var[<<"digIn", i>>]
               /\ t.dinLatch[i] = DigIn(c, r, i, pins[i]).dinLatch[i]
               /\ t.din[i] = [DigIn(c, r, i, pins[i]).din[i] EXCEPT !.age = Older(@, CycleMs, MaxAge)]
  BY CycleDigIn
<1> DEFINE d     == Sampled(r.din[i], pin)
           latch == LatchCheck(r.dinLatch[i], slot.mode, slot.invert, pin)
           u     == DigIn(c, r, i, pin)
<1>2. /\ ~slot.enabled => /\ u.var[<<"digIn", i>>] = 0
                          /\ u.din[i] = r.din[i] /\ u.dinLatch[i] = r.dinLatch[i]
      /\ slot.enabled =>
           /\ u.din[i] = Debounced(slot, d)
           /\ MustRead(slot, d) => /\ u.dinLatch[i] = latch
                                   /\ u.var[<<"digIn", i>>] = Value(latch.out)
           /\ ~MustRead(slot, d) => /\ u.dinLatch[i] = r.dinLatch[i]
                                    /\ u.var[<<"digIn", i>>] = r.var[<<"digIn", i>>]
  BY <1>1, DigInParts
<1>3. /\ t.var[<<"digIn", i>>] = u.var[<<"digIn", i>>] /\ t.dinLatch[i] = u.dinLatch[i]
      /\ t.din[i] = [u.din[i] EXCEPT !.age = Older(@, CycleMs, MaxAge)]
  BY <1>1
<1>4. d = Sampled(s.din[i], pin) /\ latch = DigLatch(slot, s.dinLatch[i], pin)
  BY <1>1 DEF DigLatch
<1> HIDE DEF u, d, latch
<1>5. u.din[i] = DigDebounced(slot, s.din[i], pin)
  BY <1>1, <1>2, <1>4 DEF DigDebounced
<1>6. /\ u.dinLatch[i] = IF DigRead(slot, s.din[i], pin) THEN DigLatch(slot, s.dinLatch[i], pin)
                         ELSE s.dinLatch[i]
      /\ u.var[<<"digIn", i>>] =
           IF ~slot.enabled THEN 0
           ELSE IF DigRead(slot, s.din[i], pin) THEN Value(DigLatch(slot, s.dinLatch[i], pin).out)
           ELSE s.var[<<"digIn", i>>]
  BY <1>1, <1>2, <1>4 DEF DigRead
<1> QED BY <1>3, <1>5, <1>6

\* What the received frames make of the variables of the CAN inputs.
Taken(c, s, rx, r) ==
  \A i \in DOMAIN c.canInputs :
    LET slot == c.canInputs[i]
    IN  /\ r.var[<<"canVal", i>>] = IF i \in Heard(c, rx) THEN DecodeFloat(slot, rx[slot.id])
                                    ELSE s.var[<<"canVal", i>>]
        /\ r.var[<<"canIn", i>>] = IF i \in Heard(c, rx)
                                   THEN Value(CanLatch(slot, s.cinLatch[i], rx[slot.id]).out)
                                   ELSE s.var[<<"canIn", i>>]
LEMMA FramesTaken ==
  ASSUME NEW c, NEW s, Shape(c, s), NEW rx
  PROVE  Taken(c, s, rx, Receive(c, s, rx))
<1> DEFINE r == Receive(c, s, rx)
<1>1. SUFFICES ASSUME NEW i \in DOMAIN c.canInputs
               PROVE  LET slot == c.canInputs[i]
                      IN  /\ r.var[<<"canVal", i>>] =
                               IF i \in Heard(c, rx) THEN DecodeFloat(slot, rx[slot.id])
                               ELSE s.var[<<"canVal", i>>]
                          /\ r.var[<<"canIn", i>>] =
                               IF i \in Heard(c, rx)
                               THEN Value(CanLatch(slot, s.cinLatch[i], rx[slot.id]).out)
                               ELSE s.var[<<"canIn", i>>]
  BY Zenon DEF Taken
<1> DEFINE v == <<"canVal", i>>
           x == <<"canIn", i>>
           slot == c.canInputs[i]
<1>2. v \in VarMap(c) /\ x \in VarMap(c) /\ v[1] = "canVal" /\ x[1] = "canIn" /\ v[2] = i /\ x[2] = i
  BY DEF VarMap, Slots
<1> HIDE DEF v, x
<1>3. r.var[v] = IF i \in Heard(c, rx) THEN DecodeFloat(slot, rx[slot.id]) ELSE s.var[v]
  BY <1>2 DEF Receive, Shape, Fields
<1>4. r.var[x] = IF i \in Heard(c, rx) THEN Value(CanLatch(slot, s.cinLatch[i], rx[slot.id]).out)
                 ELSE s.var[x]
  BY <1>2 DEF Receive, Shape, Fields, CanLatch
<1> HIDE DEF r
<1> QED BY <1>3, <1>4 DEF v, x

\* Devices with the same inputs that agree on them still do after the frames.
LEMMA FramesAgree ==
  ASSUME NEW a, NEW b, NEW s, NEW t, Shape(a, s), Shape(b, t), b.canInputs = a.canInputs, NEW rx,
         SensesAgree(a, s, t), NEW x \in VarMap(a), x \in VarMap(b), x[1] \notin Logic
  PROVE  Receive(b, t, rx).var[x] = Receive(a, s, rx).var[x]
<1>1. t.var[x] = s.var[x]
  BY DEF SensesAgree
<1>2. CASE x[1] \notin {"canIn", "canVal"}
  <2>1. Receive(a, s, rx).var[x] = s.var[x] /\ Receive(b, t, rx).var[x] = t.var[x]
    BY <1>2, ReceiveKeeps
  <2> QED BY <1>1, <2>1
<1>3. CASE x[1] \in {"canIn", "canVal"}
  <2>1. x[2] \in DOMAIN a.canInputs /\ x = <<x[1], x[2]>>
    BY <1>3 DEF VarMap, Slots, AlwaysFalse, AlwaysTrue
  <2>2. Heard(b, rx) = Heard(a, rx)
    BY DEF Heard
  <2>3. PICK i, slot : i = x[2] /\ slot = a.canInputs[i]
    OBVIOUS
  <2>4. t.cinLatch[i] = s.cinLatch[i]
    BY <2>1, <2>3 DEF SensesAgree
  <2>5. Taken(a, s, rx, Receive(a, s, rx)) /\ Taken(b, t, rx, Receive(b, t, rx))
    BY FramesTaken
  <2>6. i \in DOMAIN a.canInputs /\ i \in DOMAIN b.canInputs /\ b.canInputs[i] = a.canInputs[i]
    BY <2>1, <2>3
  <2>7. CASE x[1] = "canVal"
    <3>1. x = <<"canVal", i>>
      BY <2>1, <2>3, <2>7
    <3> QED BY <1>1, <2>2, <2>5, <2>6, <3>1 DEF Taken
  <2>8. CASE x[1] = "canIn"
    <3>1. x = <<"canIn", i>>
      BY <2>1, <2>3, <2>8
    <3> QED BY <1>1, <2>2, <2>4, <2>5, <2>6, <3>1 DEF Taken
  <2> QED BY <1>3, <2>7, <2>8
<1> QED BY <1>2, <1>3

\* Each digital input, CAN input, output and constant: after a cycle they agree still.
LEMMA DigInsAgree ==
  ASSUME NEW a, NEW b, NEW m, NEW s, NEW t, NEW s1, NEW t1, Turn(a, b, m, s, t, s1, t1),
         NEW i \in DOMAIN a.inputs
  PROVE  /\ t1.din[i] = s1.din[i] /\ t1.dinLatch[i] = s1.dinLatch[i]
         /\ t1.var[<<"digIn", i>>] = s1.var[<<"digIn", i>>]
<1>1. PICK pins, rx : s1 = Step(a, s, pins, rx) /\ t1 = Step(b, t, pins, rx)
  BY DEF Turn
<1>2. Runs(a) /\ Runs(b) /\ Shape(a, s) /\ Shape(b, t) /\ b.inputs = a.inputs /\ SensesAgree(a, s, t)
  BY DEF Turn, Twins, Tidy, SameProgram
<1>3. PICK slot, pin : slot = a.inputs[i] /\ pin = pins[i]
  OBVIOUS
<1>4. /\ s1.din[i] = [DigDebounced(slot, s.din[i], pin) EXCEPT !.age = Older(@, CycleMs, MaxAge)]
      /\ s1.dinLatch[i] = IF DigRead(slot, s.din[i], pin) THEN DigLatch(slot, s.dinLatch[i], pin)
                          ELSE s.dinLatch[i]
      /\ s1.var[<<"digIn", i>>] =
           IF ~slot.enabled THEN 0
           ELSE IF DigRead(slot, s.din[i], pin) THEN Value(DigLatch(slot, s.dinLatch[i], pin).out)
           ELSE s.var[<<"digIn", i>>]
  BY <1>1, <1>2, <1>3, DigInCycled
<1>5. i \in DOMAIN b.inputs /\ slot = b.inputs[i]
  BY <1>2, <1>3
<1>6. /\ t1.din[i] = [DigDebounced(slot, t.din[i], pin) EXCEPT !.age = Older(@, CycleMs, MaxAge)]
      /\ t1.dinLatch[i] = IF DigRead(slot, t.din[i], pin) THEN DigLatch(slot, t.dinLatch[i], pin)
                          ELSE t.dinLatch[i]
      /\ t1.var[<<"digIn", i>>] =
           IF ~slot.enabled THEN 0
           ELSE IF DigRead(slot, t.din[i], pin) THEN Value(DigLatch(slot, t.dinLatch[i], pin).out)
           ELSE t.var[<<"digIn", i>>]
  BY <1>1, <1>2, <1>3, <1>5, DigInCycled
<1>7. t.din[i] = s.din[i] /\ t.dinLatch[i] = s.dinLatch[i]
  BY <1>2 DEF SensesAgree
<1>8. t.var[<<"digIn", i>>] = s.var[<<"digIn", i>>]
  <2>1. <<"digIn", i>> \in VarMap(a) /\ <<"digIn", i>>[1] \notin Logic
    BY DEF VarMap, Slots, Logic
  <2> QED BY <1>2, <2>1 DEF SensesAgree
<1> QED BY <1>4, <1>6, <1>7, <1>8

\* two devices that heard the same, before a cycle and after it
HeardAlike(a, s, t) ==
  \A i \in DOMAIN a.canInputs :
    /\ t.cinAge[i] = s.cinAge[i] /\ t.cinLatch[i] = s.cinLatch[i]
    /\ t.var[<<"canIn", i>>] = s.var[<<"canIn", i>>] /\ t.var[<<"canVal", i>>] = s.var[<<"canVal", i>>]
Together(a, b, s, t, s1, t1) ==
  /\ Runs(a) /\ Runs(b) /\ Tidy(a, s) /\ Tidy(b, t) /\ b.canInputs = a.canInputs /\ HeardAlike(a, s, t)
  /\ \E pins, rx : s1 = Step(a, s, pins, rx) /\ t1 = Step(b, t, pins, rx)

\* What was heard stays alike.
LEMMA HeardStays ==
  ASSUME NEW a, NEW b, NEW s, NEW t, NEW s1, NEW t1, Together(a, b, s, t, s1, t1)
  PROVE  HeardAlike(a, s1, t1)
<1>1. PICK pins, rx : s1 = Step(a, s, pins, rx) /\ t1 = Step(b, t, pins, rx)
  BY DEF Together
<1>2. /\ Runs(a) /\ Runs(b) /\ Shape(a, s) /\ Shape(b, t) /\ b.canInputs = a.canInputs
      /\ HeardAlike(a, s, t)
  BY DEF Together, Tidy
<1> SUFFICES ASSUME NEW i \in DOMAIN a.canInputs
             PROVE  /\ t1.cinAge[i] = s1.cinAge[i] /\ t1.cinLatch[i] = s1.cinLatch[i]
                    /\ t1.var[<<"canIn", i>>] = s1.var[<<"canIn", i>>]
                    /\ t1.var[<<"canVal", i>>] = s1.var[<<"canVal", i>>]
  BY Zenon DEF HeardAlike
<1> DEFINE slot  == a.canInputs[i]
           heard == i \in Heard(a, rx)
           value == DecodeFloat(slot, rx[slot.id])
           latch == CanLatch(slot, s.cinLatch[i], rx[slot.id])
           age   == IF heard THEN 0 ELSE s.cinAge[i]
           out   == slot.enabled /\ slot.timeoutEnabled /\ age > slot.timeout
           slotB  == b.canInputs[i]
           heardB == i \in Heard(b, rx)
           valueB == DecodeFloat(slotB, rx[slotB.id])
           latchB == CanLatch(slotB, t.cinLatch[i], rx[slotB.id])
           ageB   == IF heardB THEN 0 ELSE t.cinAge[i]
           outB   == slotB.enabled /\ slotB.timeoutEnabled /\ ageB > slotB.timeout
<1>3. /\ s1.var[<<"canVal", i>>] = IF out THEN 0 ELSE IF heard THEN value ELSE s.var[<<"canVal", i>>]
      /\ s1.var[<<"canIn", i>>] = IF out THEN 0 ELSE IF heard THEN Value(latch.out) ELSE s.var[<<"canIn", i>>]
      /\ s1.cinLatch[i] = IF heard THEN latch ELSE s.cinLatch[i]
      /\ s1.cinAge[i] = IF slot.timeoutEnabled THEN Older(age, CycleMs, MaxAge) ELSE 0
  BY <1>1, <1>2, CycleCanIn
<1>4. /\ t1.var[<<"canVal", i>>] = IF outB THEN 0 ELSE IF heardB THEN valueB ELSE t.var[<<"canVal", i>>]
      /\ t1.var[<<"canIn", i>>] = IF outB THEN 0 ELSE IF heardB THEN Value(latchB.out) ELSE t.var[<<"canIn", i>>]
      /\ t1.cinLatch[i] = IF heardB THEN latchB ELSE t.cinLatch[i]
      /\ t1.cinAge[i] = IF slotB.timeoutEnabled THEN Older(ageB, CycleMs, MaxAge) ELSE 0
  <2>1. i \in DOMAIN b.canInputs
    BY <1>2
  <2> QED BY <1>1, <1>2, <2>1, CycleCanIn
<1>5. /\ t.cinAge[i] = s.cinAge[i] /\ t.cinLatch[i] = s.cinLatch[i]
      /\ t.var[<<"canIn", i>>] = s.var[<<"canIn", i>>] /\ t.var[<<"canVal", i>>] = s.var[<<"canVal", i>>]
  BY <1>2, Zenon DEF HeardAlike
<1>6. slotB = slot /\ (heardB <=> heard)
  BY <1>2 DEF Heard
<1>7. valueB = value /\ latchB = latch /\ ageB = age
  BY <1>5, <1>6
<1>8. outB <=> out
  BY <1>6, <1>7
<1> HIDE DEF slot, heard, value, latch, age, out, slotB, heardB, valueB, latchB, ageB, outB
<1> QED BY <1>3, <1>4, <1>5, <1>6, <1>7, <1>8

\* so the CAN inputs agree.
LEMMA CanInsAgree ==
  ASSUME NEW a, NEW b, NEW m, NEW s, NEW t, NEW s1, NEW t1, Turn(a, b, m, s, t, s1, t1),
         NEW i \in DOMAIN a.canInputs
  PROVE  /\ t1.cinAge[i] = s1.cinAge[i] /\ t1.cinLatch[i] = s1.cinLatch[i]
         /\ t1.var[<<"canIn", i>>] = s1.var[<<"canIn", i>>] /\ t1.var[<<"canVal", i>>] = s1.var[<<"canVal", i>>]
<1>1. /\ Runs(a) /\ Runs(b) /\ Tidy(a, s) /\ Tidy(b, t) /\ b.canInputs = a.canInputs
      /\ \E pins, rx : s1 = Step(a, s, pins, rx) /\ t1 = Step(b, t, pins, rx)
  BY DEF Turn, Twins, SameProgram
<1>2. SensesAgree(a, s, t)
  BY DEF Turn, Twins
<1>3. HeardAlike(a, s, t)
  <2> SUFFICES ASSUME NEW k \in DOMAIN a.canInputs
               PROVE  /\ t.cinAge[k] = s.cinAge[k] /\ t.cinLatch[k] = s.cinLatch[k]
                      /\ t.var[<<"canIn", k>>] = s.var[<<"canIn", k>>]
                      /\ t.var[<<"canVal", k>>] = s.var[<<"canVal", k>>]
    BY Zenon DEF HeardAlike
  <2>1. \A x \in {<<"canIn", k>>, <<"canVal", k>>} : x \in VarMap(a) /\ x[1] \notin Logic
    BY DEF VarMap, Slots, Logic
  <2> QED BY <1>2, <2>1 DEF SensesAgree
<1>4. HeardAlike(a, s1, t1)
  <2>1. Together(a, b, s, t, s1, t1)
    BY <1>1, <1>3, Zenon DEF Together
  <2> QED BY <2>1, HeardStays
<1> QED BY <1>4, Zenon DEF HeardAlike

LEMMA DrivesAgree ==
  ASSUME NEW a, NEW b, NEW m, NEW s, NEW t, NEW s1, NEW t1, Turn(a, b, m, s, t, s1, t1),
         NEW i \in DOMAIN a.outputs
  PROVE  t1.var[<<"output", i>>] = s1.var[<<"output", i>>]
<1>1. PICK pins, rx : s1 = Step(a, s, pins, rx) /\ t1 = Step(b, t, pins, rx)
  BY DEF Turn
<1>2. /\ Runs(a) /\ Runs(b) /\ Shape(a, s) /\ Shape(b, t) /\ b.canInputs = a.canInputs
      /\ SensesAgree(a, s, t) /\ SameProgram(a, b, m) /\ Twins(a, b, m, s, t)
  BY DEF Turn, Twins, Tidy, SameProgram
<1>3. PICK x, y : x = a.outputs[i].input /\ y = b.outputs[i].input
  OBVIOUS
<1>4. /\ i \in DOMAIN b.outputs /\ b.outputs[i].enabled = a.outputs[i].enabled
      /\ a.outputs[i].enabled => /\ x \in DOMAIN m /\ y = m[x] /\ x[1] # "output"
                                 /\ x[1] \in Logic <=> y[1] \in Logic
  BY <1>2, <1>3 DEF SameProgram, OutputsStand
<1>5. ASSUME a.outputs[i].enabled
      PROVE  y[1] # "output" /\ Receive(b, t, rx).var[y] = Receive(a, s, rx).var[x]
  <2>1. x \in VarMap(a) /\ y \in VarMap(b) /\ t.var[y] = s.var[x]
    BY <1>2, <1>4, <1>5 DEF SameProgram, Twins
  <2>2. CASE x[1] \in Logic
    <3>1. y[1] \in Logic
      BY <1>4, <1>5, <2>2
    <3>2. {"output", "canIn", "canVal"} \cap Logic = {}
      BY DEF Logic
    <3>3. Receive(a, s, rx).var[x] = s.var[x] /\ Receive(b, t, rx).var[y] = t.var[y]
      BY <1>2, <2>1, <2>2, <3>1, <3>2, ReceiveKeeps
    <3> QED BY <2>1, <3>1, <3>2, <3>3
  <2>3. CASE x[1] \notin Logic
    <3>1. y = x
      BY <1>2, <1>4, <1>5, <2>3 DEF SameProgram
    <3>2. x \in VarMap(a) /\ x \in VarMap(b)
      BY <2>1, <3>1
    <3>3. Receive(b, t, rx).var[x] = Receive(a, s, rx).var[x]
      BY <1>2, <2>3, <3>2, FramesAgree
    <3> QED BY <1>4, <1>5, <3>1, <3>3
  <2> QED BY <2>2, <2>3
<1>6. s1.var[<<"output", i>>] =
        IF a.outputs[i].enabled THEN Value(Level(Receive(a, s, rx).var[x])) ELSE 0
  <2>1. a.outputs[i].enabled => x[1] # "output"
    BY <1>4
  <2> QED BY <1>1, <1>2, <1>3, <2>1, CycleDrives
<1>7. t1.var[<<"output", i>>] =
        IF b.outputs[i].enabled THEN Value(Level(Receive(b, t, rx).var[y])) ELSE 0
  <2>1. b.outputs[i].enabled => y[1] # "output"
    BY <1>4, <1>5
  <2>2. i \in DOMAIN b.outputs
    BY <1>4
  <2> QED BY <1>1, <1>2, <1>3, <2>1, <2>2, CycleDrives
<1> QED BY <1>4, <1>5, <1>6, <1>7

LEMMA SensesStay ==
  ASSUME NEW a, NEW b, NEW m, NEW s, NEW t, NEW s1, NEW t1, Turn(a, b, m, s, t, s1, t1)
  PROVE  SensesAgree(a, s1, t1)
<1>1. ASSUME NEW i \in DOMAIN a.inputs
      PROVE  /\ t1.din[i] = s1.din[i] /\ t1.dinLatch[i] = s1.dinLatch[i]
             /\ t1.var[<<"digIn", i>>] = s1.var[<<"digIn", i>>]
  BY DigInsAgree
<1>2. ASSUME NEW i \in DOMAIN a.canInputs
      PROVE  /\ t1.cinAge[i] = s1.cinAge[i] /\ t1.cinLatch[i] = s1.cinLatch[i]
             /\ t1.var[<<"canIn", i>>] = s1.var[<<"canIn", i>>]
             /\ t1.var[<<"canVal", i>>] = s1.var[<<"canVal", i>>]
  BY CanInsAgree
<1>3. ASSUME NEW i \in DOMAIN a.outputs PROVE t1.var[<<"output", i>>] = s1.var[<<"output", i>>]
  BY DrivesAgree
<1>4. ASSUME NEW x \in VarMap(a), x[1] \notin Logic PROVE t1.var[x] = s1.var[x]
  <2>1. \/ x \in {AlwaysFalse, AlwaysTrue}
        \/ \E i \in DOMAIN a.inputs : x = <<"digIn", i>>
        \/ \E i \in DOMAIN a.canInputs : x = <<"canIn", i>> \/ x = <<"canVal", i>>
        \/ \E i \in DOMAIN a.outputs : x = <<"output", i>>
    BY <1>4 DEF VarMap, Slots, Logic
  <2>2. Tidy(a, s1) /\ Tidy(b, t1)
    BY TurnParts
  <2>3. t1.var[AlwaysFalse] = s1.var[AlwaysFalse] /\ t1.var[AlwaysTrue] = s1.var[AlwaysTrue]
    BY <2>2 DEF Tidy
  <2> QED BY <1>1, <1>2, <1>3, <2>1, <2>3
<1> QED BY <1>1, <1>2, <1>4 DEF SensesAgree

-----------------------------------------------------------------------------
(* All of them, slot after slot.                                           *)

Matched(a, b, m, s, t, x) == t.var[m[x]] = s.var[x] /\ MemoryStands(a, b, m, s, t, x, m[x])

\* a variable of the logic and the slots that it and its stand-in belong to
LEMMA StandIns ==
  ASSUME NEW a, NEW b, NEW m, SameProgram(a, b, m), NEW x \in DOMAIN m, x[1] \in Logic, NEW y, y = m[x]
  PROVE  /\ x \in VarMap(a) /\ y \in VarMap(b) /\ Stands(a, b, m, x, y)
         /\ x = <<x[1], x[2]>> /\ x[2] \in DOMAIN SlotsOf(x[1], a)
         /\ y[1] \in Logic => y = <<y[1], y[2]>> /\ y[2] \in DOMAIN SlotsOf(y[1], b)
         /\ y[1] \in Logic \cup {"canIn"}
<1>1. x \in VarMap(a) /\ y \in VarMap(b) /\ Stands(a, b, m, x, y)
  BY DEF SameProgram
<1>2. Logic \subseteq Kinds
  BY DEF Logic, Kinds
<1>3. x = <<x[1], x[2]>> /\ x[2] \in DOMAIN SlotsOf(x[1], a)
  BY <1>1, <1>2, OwnSlots
<1>4. y[1] \in Logic => y = <<y[1], y[2]>> /\ y[2] \in DOMAIN SlotsOf(y[1], b)
  BY <1>1, <1>2, OwnSlots
<1>5. y[1] \in Logic \cup {"canIn"}
  BY <1>1 DEF Stands, LeftOut, Logic
<1> QED BY <1>1, <1>3, <1>4, <1>5

\* A slot that reads what its stand-in reads is matched by it.
LEMMA SlotMatched ==
  ASSUME NEW a, NEW b, NEW m, NEW s, NEW t, NEW s1, NEW t1, Turn(a, b, m, s, t, s1, t1),
         NEW x \in DOMAIN m, x[1] \in Logic, Settled(m, x[1], x[2], s1, t1)
  PROVE  Matched(a, b, m, s1, t1, x)
<1>1. PICK y, i, j : y = m[x] /\ i = x[2] /\ j = y[2]
  OBVIOUS
<1>2. /\ x \in VarMap(a) /\ y \in VarMap(b) /\ Stands(a, b, m, x, y)
      /\ x = <<x[1], x[2]>> /\ x[2] \in DOMAIN SlotsOf(x[1], a)
      /\ y[1] \in Logic => y = <<y[1], y[2]>> /\ y[2] \in DOMAIN SlotsOf(y[1], b)
      /\ y[1] \in Logic \cup {"canIn"}
  BY <1>1, TurnParts, StandIns
<1>3. MemoryStands(a, b, m, s, t, x, y) /\ t.var[y] = s.var[x]
  BY <1>1, TurnParts DEF Twins
<1>4. CASE x[1] = "virtIn" /\ y[1] = "virtIn" /\ VirtInStands(a, b, m, i, j)
  <2>1. x = <<"virtIn", i>> /\ y = <<"virtIn", j>> /\ i \in DOMAIN a.virtualInputs /\ j \in DOMAIN b.virtualInputs
    BY <1>1, <1>2, <1>4 DEF Logic, SlotsOf
  <2>2. t.viLatch[j] = s.viLatch[i]
    BY <1>1, <1>3, <1>4 DEF MemoryStands
  <2>3. Settled(m, "virtIn", i, s1, t1)
    BY <1>1, <1>4
  <2>4. t1.var[<<"virtIn", j>>] = s1.var[<<"virtIn", i>>] /\ t1.viLatch[j] = s1.viLatch[i]
    BY <1>4, <2>1, <2>2, <2>3, VirtInsAgree
  <2>5. MemoryStands(a, b, m, s1, t1, x, y)
    BY <1>1, <1>4, <2>4 DEF MemoryStands
  <2> QED BY <1>1, <2>1, <2>4, <2>5 DEF Matched
<1>5. CASE x[1] = "virtIn" /\ LeftOut(a, m, i, y)
  <2>1. x = <<"virtIn", i>> /\ i \in DOMAIN a.virtualInputs
    BY <1>1, <1>2, <1>5 DEF SlotsOf
  <2>2. y \in DOMAIN m /\ y[1] = "canIn"
    BY <1>5 DEF LeftOut
  <2>3. t1.var[y] = s1.var[y]
    <3>1. y \in VarMap(a) /\ y[1] \notin Logic
      BY <2>2, TurnParts DEF SameProgram, Logic
    <3> QED BY <3>1, SensesStay DEF SensesAgree
  <2>4. t1.var[y] = s1.var[<<"virtIn", i>>]
    BY <1>5, <2>1, <2>3, LeftOutAgrees
  <2>5. MemoryStands(a, b, m, s1, t1, x, y)
    BY <1>5, <2>2 DEF MemoryStands
  <2> QED BY <1>1, <2>1, <2>4, <2>5 DEF Matched
<1>6. CASE x[1] = "flasher" /\ y[1] = "flasher" /\ FlasherStands(a, b, m, i, j)
  <2>1. x = <<"flasher", i>> /\ y = <<"flasher", j>> /\ i \in DOMAIN a.flashers /\ j \in DOMAIN b.flashers
    BY <1>1, <1>2, <1>6 DEF Logic, SlotsOf
  <2>2. t.flash[j] = s.flash[i] /\ t.var[<<"flasher", j>>] = s.var[<<"flasher", i>>]
    BY <1>1, <1>3, <1>6, <2>1 DEF MemoryStands
  <2>3. Settled(m, "flasher", i, s1, t1)
    BY <1>1, <1>6
  <2>4. t1.var[<<"flasher", j>>] = s1.var[<<"flasher", i>>] /\ t1.flash[j] = s1.flash[i]
    BY <1>6, <2>1, <2>2, <2>3, FlashersAgree
  <2>5. MemoryStands(a, b, m, s1, t1, x, y)
    BY <1>1, <1>6, <2>4 DEF MemoryStands
  <2> QED BY <1>1, <2>1, <2>4, <2>5 DEF Matched
<1>7. CASE x[1] = "counter" /\ y[1] = "counter"
           /\ (CounterStands(a, b, m, i, j) \/ ResetRewritten(a, b, m, i, j))
  <2>1. x = <<"counter", i>> /\ y = <<"counter", j>> /\ i \in DOMAIN a.counters /\ j \in DOMAIN b.counters
    BY <1>1, <1>2, <1>7 DEF Logic, SlotsOf
  <2>2. t.var[<<"counter", j>>] = s.var[<<"counter", i>>] /\ Settled(m, "counter", i, s1, t1)
    BY <1>1, <1>3, <1>7, <2>1
  <2>3. \/ CounterStands(a, b, m, i, j) /\ t.count[j] = s.count[i]
        \/ ResetRewritten(a, b, m, i, j) /\ HeldAlike(s.count[i], s.var[<<"counter", i>>], t.count[j])
    BY <1>1, <1>3, <1>7, <2>1 DEF MemoryStands
  <2>4. CASE CounterStands(a, b, m, i, j) /\ t.count[j] = s.count[i]
    <3>1. t1.var[<<"counter", j>>] = s1.var[<<"counter", i>>] /\ t1.count[j] = s1.count[i]
      BY <2>1, <2>2, <2>4, CountersAgree
    <3>2. MemoryStands(a, b, m, s1, t1, x, y)
      BY <1>1, <1>7, <2>4, <3>1 DEF MemoryStands
    <3> QED BY <1>1, <2>1, <3>1, <3>2 DEF Matched
  <2>5. CASE ResetRewritten(a, b, m, i, j) /\ HeldAlike(s.count[i], s.var[<<"counter", i>>], t.count[j])
    <3>1. /\ t1.var[<<"counter", j>>] = s1.var[<<"counter", i>>]
          /\ HeldAlike(s1.count[i], s1.var[<<"counter", i>>], t1.count[j])
      BY <2>1, <2>2, <2>5, ResetsAgree
    <3>2. MemoryStands(a, b, m, s1, t1, x, y)
      BY <1>1, <1>7, <2>1, <2>5, <3>1 DEF MemoryStands
    <3> QED BY <1>1, <2>1, <3>1, <3>2 DEF Matched
  <2> QED BY <2>3, <2>4, <2>5
<1>8. CASE x[1] = "condition" /\ y[1] = "condition" /\ ConditionStands(a, b, m, i, j)
  <2>1. /\ x = <<"condition", i>> /\ y = <<"condition", j>>
        /\ i \in DOMAIN a.conditions /\ j \in DOMAIN b.conditions
    BY <1>1, <1>2, <1>8 DEF Logic, SlotsOf
  <2>2. Settled(m, "condition", i, s1, t1)
    BY <1>1, <1>8
  <2>3. t1.var[<<"condition", j>>] = s1.var[<<"condition", i>>]
    BY <1>8, <2>1, <2>2, ConditionsAgree
  <2>4. MemoryStands(a, b, m, s1, t1, x, y)
    BY <1>8 DEF MemoryStands
  <2> QED BY <1>1, <2>1, <2>3, <2>4 DEF Matched
<1>9. CASE x[1] = "condition" /\ y[1] = "virtIn" /\ ToggleLatched(a, b, m, i, j)
  <2>1. /\ x = <<"condition", i>> /\ y = <<"virtIn", j>>
        /\ i \in DOMAIN a.conditions /\ j \in DOMAIN b.virtualInputs
    BY <1>1, <1>2, <1>9 DEF Logic, SlotsOf
  <2>2. Settled(m, "condition", i, s1, t1) /\ MemoryStands(a, b, m, s, t, <<"condition", i>>, <<"virtIn", j>>)
    BY <1>1, <1>3, <1>9, <2>1
  <2>3. /\ t1.var[<<"virtIn", j>>] = s1.var[<<"condition", i>>]
        /\ MemoryStands(a, b, m, s1, t1, <<"condition", i>>, <<"virtIn", j>>)
    BY <1>9, <2>1, <2>2, TogglesAgree
  <2> QED BY <1>1, <2>1, <2>3 DEF Matched
<1>10. \/ x[1] = "virtIn" /\ y[1] = "virtIn" /\ VirtInStands(a, b, m, i, j)
       \/ x[1] = "virtIn" /\ LeftOut(a, m, i, y)
       \/ x[1] = "flasher" /\ y[1] = "flasher" /\ FlasherStands(a, b, m, i, j)
       \/ x[1] = "counter" /\ y[1] = "counter" /\ CounterStands(a, b, m, i, j)
       \/ x[1] = "counter" /\ y[1] = "counter" /\ ResetRewritten(a, b, m, i, j)
       \/ x[1] = "condition" /\ y[1] = "condition" /\ ConditionStands(a, b, m, i, j)
       \/ x[1] = "condition" /\ y[1] = "virtIn" /\ ToggleLatched(a, b, m, i, j)
  BY <1>1, <1>2 DEF Stands
<1> QED BY <1>4, <1>5, <1>6, <1>7, <1>8, <1>9, <1>10

\* A category is matched once the ones before it are.
LEMMA KindMatched ==
  ASSUME NEW a, NEW b, NEW m, NEW s, NEW t, NEW s1, NEW t1, Turn(a, b, m, s, t, s1, t1), NEW kind \in Logic,
         \A z \in DOMAIN m : z[1] \notin Later(kind) /\ z[1] # kind => t1.var[m[z]] = s1.var[z]
  PROVE  \A x \in DOMAIN m : x[1] = kind => Matched(a, b, m, s1, t1, x)
<1> DEFINE wrong == {x \in DOMAIN m : x[1] = kind /\ ~Matched(a, b, m, s1, t1, x)}
           T == {x[2] : x \in wrong}
<1>1. SUFFICES ASSUME wrong # {} PROVE FALSE
  OBVIOUS
<1>2. T \in SUBSET Nat
  <2>1. SUFFICES ASSUME NEW x \in wrong PROVE x[2] \in Nat
    OBVIOUS
  <2>2. x \in DOMAIN m /\ x[1] \in Logic
    OBVIOUS
  <2>3. x[2] \in DOMAIN SlotsOf(x[1], a) /\ Runs(a)
    BY <2>2, TurnParts, StandIns DEF Cycled
  <2>4. DOMAIN SlotsOf(x[1], a) = 1..Len(SlotsOf(x[1], a)) /\ Len(SlotsOf(x[1], a)) \in Nat
    <3>1. x[1] \in Kinds
      BY <2>2 DEF Logic, Kinds
    <3> QED BY <2>3, <3>1, SlotsAreNumbered
  <2> QED BY <2>3, <2>4
<1>3. PICK n \in T : \A k \in T : n <= k
  <2>1. T # {}
    BY <1>1
  <2> HIDE DEF T
  <2> QED BY <1>2, <2>1, LeastNumber
<1>4. PICK x \in wrong : n = x[2]
  BY <1>3
<1>5. Settled(m, kind, n, s1, t1)
  <2>1. SUFFICES ASSUME NEW z \in DOMAIN m, Fresh(kind, n, z) PROVE t1.var[m[z]] = s1.var[z]
    BY DEF Settled
  <2>2. z[1] \notin Later(kind) /\ (z[1] = kind => ~(z[2] >= n))
    BY <2>1 DEF Fresh
  <2>3. CASE z[1] = kind
    <3>1. z \notin wrong
      <4>1. SUFFICES ASSUME z \in wrong PROVE FALSE
        OBVIOUS
      <4>2. z[2] \in T
        BY <4>1
      <4>3. z[2] \in Nat /\ n \in Nat /\ n <= z[2]
        BY <1>2, <1>3, <4>2
      <4> QED BY <2>2, <2>3, <4>3
    <3>2. Matched(a, b, m, s1, t1, z)
      BY <2>3, <3>1
    <3> QED BY <3>2 DEF Matched
  <2> QED BY <2>2, <2>3
<1>6. x \in DOMAIN m /\ x[1] = kind /\ ~Matched(a, b, m, s1, t1, x)
  OBVIOUS
<1> HIDE DEF wrong, T
<1>7. x[1] \in Logic /\ Settled(m, x[1], x[2], s1, t1)
  BY <1>4, <1>5, <1>6
<1>8. Matched(a, b, m, s1, t1, x)
  BY <1>6, <1>7, SlotMatched
<1> QED BY <1>6, <1>8

\* So everything is.
LEMMA AllMatched ==
  ASSUME NEW a, NEW b, NEW m, NEW s, NEW t, NEW s1, NEW t1, Turn(a, b, m, s, t, s1, t1)
  PROVE  /\ \A x \in DOMAIN m : t1.var[m[x]] = s1.var[x]
         /\ \A x \in DOMAIN m : x[1] \in Logic => MemoryStands(a, b, m, s1, t1, x, m[x])
<1>1. \A x \in DOMAIN m : x[1] \notin Logic => t1.var[m[x]] = s1.var[x]
  BY TurnParts, SensesStay DEF SameProgram, SensesAgree
<1>2. /\ Later("virtIn") = {"flasher", "counter", "condition"} /\ Later("flasher") = {"counter", "condition"}
      /\ Later("counter") = {"condition"} /\ Later("condition") = {}
  BY DEF Later
<1>3. \A x \in DOMAIN m : x[1] = "virtIn" => Matched(a, b, m, s1, t1, x)
  <2>1. \A z \in DOMAIN m : z[1] \notin Later("virtIn") /\ z[1] # "virtIn" => t1.var[m[z]] = s1.var[z]
    BY <1>1, <1>2 DEF Logic
  <2> QED BY <2>1, KindMatched DEF Logic
<1>4. \A x \in DOMAIN m : x[1] = "flasher" => Matched(a, b, m, s1, t1, x)
  <2>1. \A z \in DOMAIN m : z[1] \notin Later("flasher") /\ z[1] # "flasher" => t1.var[m[z]] = s1.var[z]
    BY <1>1, <1>2, <1>3 DEF Logic, Matched
  <2> QED BY <2>1, KindMatched DEF Logic
<1>5. \A x \in DOMAIN m : x[1] = "counter" => Matched(a, b, m, s1, t1, x)
  <2>1. \A z \in DOMAIN m : z[1] \notin Later("counter") /\ z[1] # "counter" => t1.var[m[z]] = s1.var[z]
    BY <1>1, <1>2, <1>3, <1>4 DEF Logic, Matched
  <2> QED BY <2>1, KindMatched DEF Logic
<1>6. \A x \in DOMAIN m : x[1] = "condition" => Matched(a, b, m, s1, t1, x)
  <2>1. \A z \in DOMAIN m : z[1] \notin Later("condition") /\ z[1] # "condition" => t1.var[m[z]] = s1.var[z]
    BY <1>1, <1>2, <1>3, <1>4, <1>5 DEF Logic, Matched
  <2> QED BY <2>1, KindMatched DEF Logic
<1> QED BY <1>1, <1>3, <1>4, <1>5, <1>6 DEF Logic, Matched

\* What the CAN outputs sample.
LEMMA SamplesAgree ==
  ASSUME NEW a, NEW b, NEW m, NEW s, NEW t, NEW s1, NEW t1, Turn(a, b, m, s, t, s1, t1),
         NEW i \in DOMAIN a.canOutputs, a.canOutputs[i].enabled
  PROVE  t1.sample[i] = s1.sample[i]
<1>1. PICK pins, rx : s1 = Step(a, s, pins, rx) /\ t1 = Step(b, t, pins, rx)
  BY DEF Turn
<1>2. Runs(a) /\ Runs(b) /\ Shape(a, s) /\ Shape(b, t) /\ SameProgram(a, b, m) /\ Twins(a, b, m, s, t)
  BY DEF Turn, Twins, Tidy
<1>3. PICK x, y : x = a.canOutputs[i].input /\ y = b.canOutputs[i].input
  OBVIOUS
<1>4. /\ i \in DOMAIN b.canOutputs /\ b.canOutputs[i].enabled
      /\ x \in DOMAIN m /\ y = m[x] /\ (x[1] \in Logic <=> y[1] \in Logic)
  BY <1>2, <1>3 DEF SameProgram, CanOutputsStand
<1>5. s1.sample[i] = IF x[1] \in Logic THEN s.var[x] ELSE s1.var[x]
  BY <1>1, <1>2, <1>3, CycleSamples
<1>6. t1.sample[i] = IF y[1] \in Logic THEN t.var[y] ELSE t1.var[y]
  <2>1. i \in DOMAIN b.canOutputs /\ b.canOutputs[i].enabled
    BY <1>4
  <2> QED BY <1>1, <1>2, <1>3, <2>1, CycleSamples
<1>7. t.var[y] = s.var[x] /\ t1.var[y] = s1.var[x]
  BY <1>2, <1>4, AllMatched DEF Twins
<1> QED BY <1>4, <1>5, <1>6, <1>7

\* Two configurations of which one stands for the other stay in step ...
LEMMA TwinsStay ==
  ASSUME NEW a, NEW b, NEW m, NEW s, NEW t, NEW s1, NEW t1, Turn(a, b, m, s, t, s1, t1)
  PROVE  Twins(a, b, m, s1, t1)
<1>1. Tidy(a, s1) /\ Tidy(b, t1)
  BY TurnParts
<1>2. SensesAgree(a, s1, t1)
  BY SensesStay
<1>3. \A i \in DOMAIN a.canOutputs : a.canOutputs[i].enabled => t1.sample[i] = s1.sample[i]
  BY SamplesAgree
<1>4. /\ \A x \in DOMAIN m : t1.var[m[x]] = s1.var[x]
      /\ \A x \in DOMAIN m : x[1] \in Logic => MemoryStands(a, b, m, s1, t1, x, m[x])
  BY AllMatched
<1> QED BY <1>1, <1>2, <1>3, <1>4 DEF Twins

\* ... from power-on.
LEMMA InitTwins ==
  ASSUME NEW a, NEW b, NEW m, Runs(a), Runs(b), SameProgram(a, b, m)
  PROVE  Twins(a, b, m, SimInit(a), SimInit(b))
<1> DEFINE s == SimInit(a)
           t == SimInit(b)
<1>1. Tidy(a, s) /\ Tidy(b, t)
  BY InitTidy
<1>2. /\ \A x \in VarMap(a) : s.var[x] = IF x = AlwaysTrue THEN 1 ELSE 0
      /\ \A x \in VarMap(b) : t.var[x] = IF x = AlwaysTrue THEN 1 ELSE 0
  BY DEF SimInit, Value
<1>3. b.inputs = a.inputs /\ b.canInputs = a.canInputs /\ DOMAIN b.outputs = DOMAIN a.outputs
      /\ DOMAIN b.canOutputs = DOMAIN a.canOutputs
  BY DEF SameProgram, OutputsStand, CanOutputsStand
<1>4. SensesAgree(a, s, t)
  <2>1. ASSUME NEW x \in VarMap(a), x[1] \notin Logic PROVE t.var[x] = s.var[x]
    <3>1. x \in VarMap(b)
      BY <1>3, <2>1 DEF VarMap, Slots, Logic
    <3> QED BY <1>2, <3>1
  <2>2. \A i \in DOMAIN a.inputs : t.din[i] = s.din[i] /\ t.dinLatch[i] = s.dinLatch[i]
    BY <1>3 DEF SimInit
  <2>3. \A i \in DOMAIN a.canInputs : t.cinAge[i] = s.cinAge[i] /\ t.cinLatch[i] = s.cinLatch[i]
    BY <1>3 DEF SimInit
  <2> QED BY <2>1, <2>2, <2>3 DEF SensesAgree
<1>5. \A i \in DOMAIN a.canOutputs : t.sample[i] = s.sample[i]
  BY <1>3 DEF SimInit
<1>6. ASSUME NEW x \in DOMAIN m PROVE t.var[m[x]] = s.var[x]
  <2>1. x \in VarMap(a) /\ m[x] \in VarMap(b)
    BY DEF SameProgram
  <2>2. CASE x[1] \in Logic
    <3>1. m[x][1] \in Logic \cup {"canIn"}
      BY <2>2, StandIns
    <3>2. x # AlwaysTrue /\ m[x] # AlwaysTrue
      BY <2>2, <3>1 DEF AlwaysTrue, Logic
    <3> QED BY <1>2, <2>1, <3>2
  <2>3. CASE x[1] \notin Logic
    <3>1. m[x] = x
      BY <2>3 DEF SameProgram
    <3> QED BY <1>2, <2>1, <3>1
  <2> QED BY <2>2, <2>3
<1>7. ASSUME NEW x \in DOMAIN m, x[1] \in Logic PROVE MemoryStands(a, b, m, s, t, x, m[x])
  <2>1. PICK y, i, j : y = m[x] /\ i = x[2] /\ j = y[2]
    OBVIOUS
  <2>2. /\ x \in VarMap(a) /\ y \in VarMap(b) /\ Stands(a, b, m, x, y)
        /\ x = <<x[1], x[2]>> /\ x[2] \in DOMAIN SlotsOf(x[1], a)
        /\ y[1] \in Logic => y = <<y[1], y[2]>> /\ y[2] \in DOMAIN SlotsOf(y[1], b)
        /\ y[1] \in Logic \cup {"canIn"}
    BY <1>7, <2>1, StandIns
  <2>3. x[1] = "virtIn" /\ y[1] = "virtIn" => t.viLatch[j] = s.viLatch[i]
    BY <2>1, <2>2 DEF SimInit, Logic, SlotsOf
  <2>4. x[1] = "flasher" => t.flash[j] = s.flash[i]
    BY <2>1, <2>2 DEF SimInit, Logic, SlotsOf, Stands
  <2>5. ASSUME x[1] = "counter"
        PROVE  \/ CounterStands(a, b, m, i, j) /\ t.count[j] = s.count[i]
               \/ ResetRewritten(a, b, m, i, j) /\ HeldAlike(s.count[i], s.var[x], t.count[j])
    <3>1. y[1] = "counter" /\ (CounterStands(a, b, m, i, j) \/ ResetRewritten(a, b, m, i, j))
      BY <2>1, <2>2, <2>5 DEF Stands
    <3>2. i \in DOMAIN a.counters /\ j \in DOMAIN b.counters
      BY <2>1, <2>2, <2>5, <3>1 DEF SlotsOf, Logic
    <3>3. s.count[i] = CounterInit /\ t.count[j] = CounterInit
      BY <3>2 DEF SimInit
    <3>4. s.var[x] = 0
      BY <1>2, <2>2, <2>5 DEF AlwaysTrue
    <3>5. HeldAlike(CounterInit, 0, CounterInit)
      BY Zenon DEF HeldAlike, CounterInit
    <3> QED BY <3>1, <3>3, <3>4, <3>5
  <2>6. ASSUME x[1] = "condition", y[1] = "virtIn", NEW z, z = a.conditions[i].input
        PROVE  /\ s.var[z] = Value(t.viLatch[j].out) /\ s.count[z[2]].inc = t.viLatch[j].last
               /\ s.count[z[2]].dec = FALSE /\ s.count[z[2]].reset = FALSE
               /\ t.viLatch[j].out \in BOOLEAN /\ t.viLatch[j].last \in BOOLEAN
    <3>1. j \in DOMAIN b.virtualInputs
      BY <2>1, <2>2, <2>6 DEF SlotsOf, Logic
    <3>2. z \in VarMap(a) /\ z[1] = "counter"
      BY <2>1, <2>2, <2>6 DEF Stands, ToggleLatched
    <3>3. z[2] \in DOMAIN a.counters
      BY <3>2, OwnSlots DEF Kinds, SlotsOf
    <3>4. s.var[z] = 0
      BY <1>2, <3>2 DEF AlwaysTrue
    <3>5. t.viLatch[j] = LatchInit /\ s.count[z[2]] = CounterInit
      BY <3>1, <3>3 DEF SimInit
    <3>6. 0 = Value(LatchInit.out)
      BY DEF LatchInit, Value
    <3>7. /\ CounterInit.inc = LatchInit.last /\ CounterInit.dec = FALSE /\ CounterInit.reset = FALSE
          /\ LatchInit.out \in BOOLEAN /\ LatchInit.last \in BOOLEAN
      BY Zenon DEF LatchInit, CounterInit
    <3> HIDE DEF s, t
    <3> QED BY <3>4, <3>5, <3>6, <3>7, Zenon
  <2> HIDE DEF s, t
  <2> QED BY <2>1, <2>3, <2>4, <2>5, <2>6, Zenon DEF MemoryStands
<1> HIDE DEF s, t
<1> QED BY <1>1, <1>4, <1>5, <1>6, <1>7 DEF Twins, s, t

\* They show the same.
LEMMA TwinsShow ==
  ASSUME NEW a, NEW b, NEW m, Runs(a), SameProgram(a, b, m), NEW s, NEW t, Twins(a, b, m, s, t)
  PROVE  Observe(b, t) = Observe(a, s)
<1> DEFINE shown(c) == {i \in DOMAIN c.canOutputs : c.canOutputs[i].enabled}
           places(c) == {<<"out", i>> : i \in DOMAIN c.outputs} \cup {Key(c.canOutputs[i]) : i \in shown(c)}
           seen(c, p) == Max({i \in shown(c) : Key(c.canOutputs[i]) = p})
           value(c, q, p) == IF p[1] = "out" THEN q.var[<<"output", p[2]>>] ELSE q.sample[seen(c, p)]
<1>1. /\ DOMAIN b.outputs = DOMAIN a.outputs /\ DOMAIN b.canOutputs = DOMAIN a.canOutputs
      /\ \A i \in DOMAIN a.canOutputs :
           /\ b.canOutputs[i].enabled = a.canOutputs[i].enabled
           /\ a.canOutputs[i].enabled => Key(b.canOutputs[i]) = Key(a.canOutputs[i])
  BY DEF SameProgram, OutputsStand, CanOutputsStand
<1>2. shown(b) = shown(a) /\ \A i \in shown(a) : Key(b.canOutputs[i]) = Key(a.canOutputs[i])
  BY <1>1
<1>3. places(b) = places(a)
  BY <1>1, <1>2
<1>4. \A p : {i \in shown(b) : Key(b.canOutputs[i]) = p} = {i \in shown(a) : Key(a.canOutputs[i]) = p}
  BY <1>2
<1>5. ASSUME NEW p \in places(a) PROVE value(b, t, p) = value(a, s, p)
  <2>1. CASE p[1] = "out"
    <3>1. ASSUME NEW i \in DOMAIN a.canOutputs PROVE Key(a.canOutputs[i])[1] = "can"
      BY DEF Key
    <3>2. PICK i \in DOMAIN a.outputs : p = <<"out", i>>
      BY <2>1, <3>1
    <3>3. <<"output", i>> \in VarMap(a) /\ <<"output", i>>[1] \notin Logic
      BY DEF VarMap, Slots, Logic
    <3>4. t.var[<<"output", i>>] = s.var[<<"output", i>>]
      BY <3>3 DEF Twins, SensesAgree
    <3> QED BY <2>1, <3>2, <3>4
  <2>2. CASE p[1] # "out"
    <3> DEFINE T == {i \in shown(a) : Key(a.canOutputs[i]) = p}
    <3>1. T # {}
      BY <2>2
    <3>2. DOMAIN a.canOutputs = 1..Len(a.canOutputs) /\ Len(a.canOutputs) \in Nat
      <4>1. a.canOutputs \in Seq(Range(a.canOutputs))
        BY DEF Runs, Listed
      <4> QED BY <4>1
    <3>3. T \in SUBSET Nat /\ \A n \in T : n <= Len(a.canOutputs)
      BY <3>2
    <3>4. Max(T) \in T
      <4> HIDE DEF T
      <4> QED BY <3>1, <3>2, <3>3, GreatestNumber
    <3>5. Max(T) \in DOMAIN a.canOutputs /\ a.canOutputs[Max(T)].enabled
      <4>1. \A i \in T : i \in DOMAIN a.canOutputs /\ a.canOutputs[i].enabled
        OBVIOUS
      <4> HIDE DEF T
      <4> QED BY <3>4, <4>1
    <3>6. t.sample[Max(T)] = s.sample[Max(T)]
      BY <3>5 DEF Twins
    <3>7. seen(b, p) = Max(T) /\ seen(a, p) = Max(T)
      BY <1>4
    <3> HIDE DEF T, seen
    <3> QED BY <2>2, <3>6, <3>7
  <2> QED BY <2>1, <2>2
<1>6. Observe(a, s) = [p \in places(a) |-> value(a, s, p)] /\ Observe(b, t) = [p \in places(b) |-> value(b, t, p)]
  BY DEF Observe
<1> HIDE DEF places, value
<1> QED BY <1>3, <1>5, <1>6

-----------------------------------------------------------------------------
(* The comparison.                                                         *)

\* two configurations that are compared cycle by cycle are in step and show the same
InStep ==
  /\ pair \in Pairs
  /\ pair.tolerance = 0 =>
       /\ log.b = log.a /\ unfit = {}
       /\ \E m : SameProgram(pair.a, pair.b, m) /\ Twins(pair.a, pair.b, m, simA, simB)

Rewrites == \A p \in Pairs : p.tolerance = 0 => \E m : SameProgram(p.a, p.b, m)

LEMMA InitInStep == Rewrites /\ Init => InStep
<1> SUFFICES ASSUME Rewrites, Init, pair.tolerance = 0 PROVE InStep
  BY DEF InStep, Init
<1>1. pair \in Pairs /\ simA = SimInit(pair.a) /\ simB = SimInit(pair.b)
      /\ log = [a |-> << >>, b |-> << >>] /\ unfit = {}
  BY DEF Init
<1>2. log.b = log.a
  BY <1>1
<1>3. Runs(pair.a) /\ Runs(pair.b)
  BY <1>1, PairsAccepted
<1>4. PICK m : SameProgram(pair.a, pair.b, m)
  BY <1>1 DEF Rewrites
<1>5. Twins(pair.a, pair.b, m, simA, simB)
  BY <1>1, <1>3, <1>4, InitTwins
<1> QED BY <1>1, <1>2, <1>4, <1>5 DEF InStep

LEMMA NextInStep == InStep /\ [Next]_vars => InStep'
<1> SUFFICES ASSUME InStep, [Next]_vars PROVE InStep'
  OBVIOUS
<1>1. CASE UNCHANGED vars
  BY <1>1 DEF InStep, vars
<1>2. CASE Next
  <2>1. PICK pins, rx :
          /\ simA' = Step(pair.a, simA, pins, rx)
          /\ simB' = Step(pair.b, simB, pins, rx)
          /\ log' = [a |-> SubSeq(<<Observe(pair.a, simA')>> \o log.a, 1, Min({Len(log.a), pair.tolerance}) + 1),
                     b |-> SubSeq(<<Observe(pair.b, simB')>> \o log.b, 1, Min({Len(log.b), pair.tolerance}) + 1)]
          /\ unfit' = unfit \cup {p \in (Keys(log'.a) \cap Keys(log'.b)) \X Shifts :
                                    Differs(log'.a, log'.b, p[1], p[2])}
          /\ pair' = pair
    BY <1>2, Zenon DEF Next
  <2>2. pair \in Pairs /\ Runs(pair.a) /\ Runs(pair.b)
    BY PairsAccepted DEF InStep
  <2>3. ASSUME pair.tolerance = 0
        PROVE  /\ log'.b = log'.a /\ unfit' = {}
               /\ \E m : SameProgram(pair.a, pair.b, m) /\ Twins(pair.a, pair.b, m, simA', simB')
    <3>1. log.b = log.a /\ unfit = {}
      BY <2>3 DEF InStep
    <3>2. PICK m : SameProgram(pair.a, pair.b, m) /\ Twins(pair.a, pair.b, m, simA, simB)
      BY <2>3 DEF InStep
    <3>3. Turn(pair.a, pair.b, m, simA, simB, simA', simB')
      BY <2>1, <2>2, <3>2 DEF Turn
    <3>4. Twins(pair.a, pair.b, m, simA', simB')
      BY <3>3, TwinsStay
    <3>5. Observe(pair.b, simB') = Observe(pair.a, simA')
      BY <2>2, <3>2, <3>4, TwinsShow
    <3>6. log'.b = log'.a
      BY <2>1, <3>1, <3>5
    <3>7. ASSUME NEW signal, NEW shift \in Shifts PROVE ~Differs(log'.a, log'.b, signal, shift)
      <4>1. shift = 0
        BY <2>3 DEF Shifts
      <4>2. 1 + Max({0, -shift}) = 1 + Max({0, shift})
        BY <4>1
      <4> QED BY <3>6, <4>2, Zenon DEF Differs
    <3>8. unfit' = {}
      BY <2>1, <3>1, <3>7
    <3> QED BY <3>2, <3>4, <3>6, <3>8
  <2> QED BY <2>1, <2>2, <2>3 DEF InStep
<1> QED BY <1>1, <1>2

\* What the comparison then says.
LEMMA InStepPasses == InStep => Equivalent
<1> SUFFICES ASSUME InStep, pair.tolerance = 0 PROVE Diffs = {}
  BY DEF Equivalent, Passes
<1>1. log.b = log.a /\ unfit = {}
  BY DEF InStep
<1>2. Missing = {}
  BY <1>1 DEF Missing, Signals
<1>3. ASSUME NEW x PROVE Fits(x) = {0}
  <2>1. Shifts = {0}
    BY DEF Shifts
  <2> QED BY <1>1, <2>1 DEF Fits
<1>4. ASSUME NEW x PROVE Lag(x) = 0
  BY <1>3 DEF Lag
<1> QED BY <1>2, <1>3, <1>4 DEF Diffs

\* Pairs that are compared cycle by cycle and differ only by such changes pass, for every
\* stimulus and for ever: what is shown differs on no cycle (compare, main).
THEOREM RewritesPass ==
  ASSUME Rewrites
  PROVE  Spec => []Equivalent
<1>1. Init => InStep
  BY InitInStep
<1>2. InStep /\ [Next]_vars => InStep'
  BY NextInStep
<1>3. InStep => Equivalent
  BY InStepPasses
<1> QED BY <1>1, <1>2, <1>3, PTL DEF Spec

-----------------------------------------------------------------------------
(* The pairs that the repository calls equivalent: what their slots hold,  *)
(* and the map that each of them needs.                                    *)

\* A variable that no logic block writes is there in both.
LEMMA SensesMapped ==
  ASSUME NEW a, NEW b, b.inputs = a.inputs, b.canInputs = a.canInputs,
         DOMAIN b.outputs = DOMAIN a.outputs, NEW x \in VarMap(a), x[1] \notin Logic
  PROVE  x \in VarMap(b)
BY DEF VarMap, Slots, Logic, AlwaysFalse, AlwaysTrue

\* every slot of a category has its stand-in
StandsIn(a, b, m, kind) ==
  \A i \in DOMAIN SlotsOf(kind, a) :
    <<kind, i>> \in DOMAIN m => /\ m[<<kind, i>>] \in VarMap(b)
                                /\ Stands(a, b, m, <<kind, i>>, m[<<kind, i>>])

\* What is to be checked of two configurations.
LEMMA ProgramStands ==
  ASSUME NEW a, NEW b, NEW m, b.inputs = a.inputs, b.canInputs = a.canInputs,
         OutputsStand(a, b, m), CanOutputsStand(a, b, m), DOMAIN m \subseteq VarMap(a),
         \A x \in DOMAIN m : x[1] \notin Logic => m[x] = x,
         \A kind \in Logic : StandsIn(a, b, m, kind)
  PROVE  SameProgram(a, b, m)
<1>1. ASSUME NEW x \in DOMAIN m
      PROVE  /\ x \in VarMap(a) /\ m[x] \in VarMap(b)
             /\ IF x[1] \in Logic THEN Stands(a, b, m, x, m[x]) ELSE m[x] = x
  <2>1. x \in VarMap(a)
    OBVIOUS
  <2>2. CASE x[1] \notin Logic
    <3>1. DOMAIN b.outputs = DOMAIN a.outputs
      BY DEF OutputsStand
    <3>2. m[x] = x
      BY <2>2
    <3> QED BY <2>1, <2>2, <3>1, <3>2, SensesMapped
  <2>3. CASE x[1] \in Logic
    <3>1. PICK kind : kind = x[1]
      OBVIOUS
    <3>2. kind \in Kinds
      BY <2>3, <3>1 DEF Logic, Kinds
    <3>3. x[2] \in DOMAIN SlotsOf(kind, a) /\ x = <<kind, x[2]>>
      BY <2>1, <3>1, <3>2, OwnSlots
    <3>4. StandsIn(a, b, m, kind)
      BY <2>3, <3>1
    <3>5. m[x] \in VarMap(b) /\ Stands(a, b, m, x, m[x])
      BY <3>3, <3>4 DEF StandsIn
    <3> QED BY <2>1, <2>3, <3>5
  <2> QED BY <2>2, <2>3
<1> QED BY <1>1 DEF SameProgram

\* Two terms of three that are alike.
LEMMA SameTerms ==
  ASSUME NEW va, NEW vb, vb.not0 = va.not0, vb.cond0 = va.cond0, vb.not1 = va.not1,
         vb.cond1 = va.cond1, vb.not2 = va.not2, (vb.var2 = AlwaysFalse) <=> (va.var2 = AlwaysFalse)
  PROVE  SameLevels(va, vb)
BY DEF SameLevels, VirtualLevel

-----------------------------------------------------------------------------
\* The slots of the adversarial configurations.
LEMMA LampLists ==
  ASSUME NEW vins, NEW x, NEW c, c = Lamp(vins, x)
  PROVE  /\ c.inputs = << >> /\ c.canInputs = <<Board(1), Board(2), Board(3)>>
         /\ c.outputs = <<Output(x)>> /\ c.canOutputs = << >>
         /\ c.virtualInputs = vins /\ c.flashers = << >> /\ c.counters = << >> /\ c.conditions = << >>
BY Zenon DEF Lamp, Empty

\* The adversarial pairs have the same switches and the lamp.
LEMMA LampsStand ==
  ASSUME NEW va, NEW vb, NEW x, NEW y, NEW m, x \in DOMAIN m, y = m[x], x[1] # "output",
         x[1] \in Logic, y[1] \in Logic,
         NEW a, NEW b, a.outputs = <<Output(x)>>, b.outputs = <<Output(y)>>,
         a.canOutputs = << >>, b.canOutputs = << >>
  PROVE  OutputsStand(a, b, m) /\ CanOutputsStand(a, b, m)
<1>1. DOMAIN a.outputs = {1} /\ DOMAIN b.outputs = {1} /\ a.outputs[1] = Output(x) /\ b.outputs[1] = Output(y)
  OBVIOUS
<1>2. Output(x).input = x /\ Output(y).input = y /\ Output(x).enabled /\ Output(y).enabled = Output(x).enabled
  BY DEF Output
<1>3. DOMAIN a.canOutputs = {} /\ DOMAIN b.canOutputs = {}
  OBVIOUS
<1>4. OutputsStand(a, b, m)
  BY <1>1, <1>2 DEF OutputsStand
<1> QED BY <1>3, <1>4 DEF CanOutputsStand

\* the variables of the slots keep their names
NandMap == [x \in VarMap(NandRight) |-> x]
LEMMA NandStands == SameProgram(NandRight, NandReference, NandMap)
<1> DEFINE a == NandRight
           b == NandReference
           m == NandMap
           va == Both(FALSE, Cin(1), "nor", FALSE, Cin(2))
           vb == Both(TRUE, Cin(1), "or", TRUE, Cin(2))
           w == And(Vin(1), Cin(3))
<1>1. /\ a.inputs = << >> /\ a.canInputs = <<Board(1), Board(2), Board(3)>>
      /\ a.outputs = <<Output(Vin(2))>> /\ a.canOutputs = << >>
      /\ a.virtualInputs = <<va, w>> /\ a.flashers = << >> /\ a.counters = << >> /\ a.conditions = << >>
  <2>1. a = Lamp(<<va, w>>, Vin(2))
    BY Zenon DEF NandRight
  <2> HIDE DEF a, va, w
  <2> QED BY <2>1, LampLists
<1>2. /\ b.inputs = << >> /\ b.canInputs = <<Board(1), Board(2), Board(3)>>
      /\ b.outputs = <<Output(Vin(2))>> /\ b.canOutputs = << >>
      /\ b.virtualInputs = <<vb, w>> /\ b.flashers = << >> /\ b.counters = << >> /\ b.conditions = << >>
  <2>1. b = Lamp(<<vb, w>>, Vin(2))
    BY Zenon DEF NandReference
  <2> HIDE DEF b, vb, w
  <2> QED BY <2>1, LampLists
<1>3. DOMAIN m = VarMap(a) /\ \A x \in VarMap(a) : m[x] = x
  BY DEF NandMap
<1> HIDE DEF a, b, m, va, vb, w
<1>4. {Vin(1), Vin(2), Cin(1), Cin(2), Cin(3), AlwaysFalse} \subseteq VarMap(a)
  <2>1. {1, 2} \subseteq DOMAIN a.virtualInputs
    BY <1>1
  <2>2. {1, 2, 3} \subseteq DOMAIN a.canInputs
    BY <1>1
  <2> QED BY <2>1, <2>2 DEF VarMap, Slots, Vin, Cin
<1>5. VarMap(b) = VarMap(a)
  <2>1. DOMAIN b.virtualInputs = DOMAIN a.virtualInputs
    BY <1>1, <1>2
  <2>2. a.inputs = b.inputs /\ a.canInputs = b.canInputs /\ a.outputs = b.outputs
        /\ a.flashers = b.flashers /\ a.counters = b.counters /\ a.conditions = b.conditions
    BY <1>1, <1>2
  <2> QED BY <2>1, <2>2 DEF VarMap, Slots
<1>6. OutputsStand(a, b, m) /\ CanOutputsStand(a, b, m)
  BY <1>1, <1>2, <1>3, <1>4, LampsStand DEF Vin, Logic
<1>7. SameLevels(va, vb)
  <2>1. /\ va.not0 = FALSE /\ va.cond0 = "nor" /\ va.not1 = FALSE /\ va.var2 = AlwaysFalse
        /\ vb.not0 = TRUE /\ vb.cond0 = "or" /\ vb.not1 = TRUE /\ vb.var2 = AlwaysFalse
    BY DEF va, vb, Both
  <2>2. ASSUME NEW p \in BOOLEAN, NEW q \in BOOLEAN, NEW r \in BOOLEAN
        PROVE  VirtualLevel(va, p, q, r, va.var2 = AlwaysFalse)
                 = VirtualLevel(vb, p, q, r, vb.var2 = AlwaysFalse)
    <3>1. /\ VirtualLevel(va, p, q, r, va.var2 = AlwaysFalse) = Combine("nor", p # FALSE, q # FALSE)
          /\ VirtualLevel(vb, p, q, r, vb.var2 = AlwaysFalse) = Combine("or", p # TRUE, q # TRUE)
      BY <2>1, Zenon DEF VirtualLevel
    <3>2. Combine("nor", p # FALSE, q # FALSE) = (~(p # FALSE) \/ ~(q # FALSE))
      BY DEF Combine
    <3>3. Combine("or", p # TRUE, q # TRUE) = ((p # TRUE) \/ (q # TRUE))
      BY DEF Combine
    <3>4. (~(p # FALSE) \/ ~(q # FALSE)) = ((p # TRUE) \/ (q # TRUE))
      OBVIOUS
    <3> QED BY <3>1, <3>2, <3>3, <3>4, Zenon
  <2> QED BY <2>2, Zenon DEF SameLevels
<1>8. VirtInStands(a, b, m, 1, 1)
  <2>1. a.virtualInputs[1] = va /\ b.virtualInputs[1] = vb
    BY <1>1, <1>2
  <2>2. /\ va.enabled /\ vb.enabled /\ va.mode = vb.mode /\ va.var0 = Cin(1) /\ va.var1 = Cin(2)
        /\ va.var2 = AlwaysFalse /\ vb.var0 = Cin(1) /\ vb.var1 = Cin(2) /\ vb.var2 = AlwaysFalse
    BY DEF va, vb, Both
  <2> QED BY <1>3, <1>4, <1>7, <2>1, <2>2 DEF VirtInStands, Alike
<1>9. VirtInStands(a, b, m, 2, 2)
  <2>1. a.virtualInputs[2] = w /\ b.virtualInputs[2] = w
    BY <1>1, <1>2
  <2>2. w.enabled /\ w.var0 = Vin(1) /\ w.var1 = Cin(3) /\ w.var2 = AlwaysFalse
    BY DEF w, And, Both
  <2>3. SameLevels(w, w)
    BY SameTerms
  <2> QED BY <1>3, <1>4, <2>1, <2>2, <2>3 DEF VirtInStands, Alike
<1>10. ASSUME NEW kind \in Logic PROVE StandsIn(a, b, m, kind)
  <2>1. CASE kind = "virtIn"
    <3>1. DOMAIN SlotsOf(kind, a) = {1, 2}
      BY <1>1, <2>1 DEF SlotsOf
    <3>2. <<kind, 1>> = Vin(1) /\ <<kind, 2>> = Vin(2) /\ Vin(1)[1] = "virtIn" /\ Vin(1)[2] = 1
          /\ Vin(2)[1] = "virtIn" /\ Vin(2)[2] = 2
      BY <2>1 DEF Vin
    <3>3. Stands(a, b, m, Vin(1), Vin(1)) /\ Stands(a, b, m, Vin(2), Vin(2))
      BY <1>8, <1>9, <3>2 DEF Stands
    <3> QED BY <1>3, <1>4, <1>5, <3>1, <3>2, <3>3 DEF StandsIn
  <2>2. CASE kind # "virtIn"
    <3>1. DOMAIN SlotsOf(kind, a) = {}
      BY <1>1, <2>2 DEF SlotsOf, Logic
    <3> QED BY <3>1 DEF StandsIn
  <2> QED BY <2>1, <2>2
<1>11. SameProgram(a, b, m)
  BY <1>1, <1>2, <1>3, <1>6, <1>10, ProgramStands
<1> QED BY <1>11 DEF a, b, m

\* the latching virtual input stands for the condition, and nothing for the counter
ToggleMap == [x \in VarMap(WrapToggle) \ {Ctr(1)} |-> IF x = Cnd(1) THEN Vin(1) ELSE x]
LEMMA ToggleStands == SameProgram(WrapToggle, LatchToggle, ToggleMap)
<1> DEFINE a == WrapToggle
           b == LatchToggle
           m == ToggleMap
           k == Count(Cin(1), "rising", AlwaysFalse, "rising", AlwaysFalse, "rising", 1, TRUE)
           d == Cond(Ctr(1), "ge", 1)
           v == [And(Cin(1), AlwaysTrue) EXCEPT !.mode = "latching"]
<1>1. /\ a.inputs = << >> /\ a.canInputs = <<Board(1), Board(2), Board(3)>>
      /\ a.outputs = <<Output(Cnd(1))>> /\ a.canOutputs = << >>
      /\ a.virtualInputs = << >> /\ a.flashers = << >> /\ a.counters = <<k>> /\ a.conditions = <<d>>
  <2>1. a = [Lamp(<< >>, Cnd(1)) EXCEPT !.counters = <<k>>, !.conditions = <<d>>]
    BY Zenon DEF WrapToggle
  <2> HIDE DEF a, k, d
  <2>2. a = [inputs |-> << >>, canInputs |-> <<Board(1), Board(2), Board(3)>>,
             outputs |-> <<Output(Cnd(1))>>, canOutputs |-> << >>, virtualInputs |-> << >>,
             flashers |-> << >>, counters |-> <<k>>, conditions |-> <<d>>]
    BY <2>1 DEF Lamp, Empty
  <2> QED BY <2>2
<1>2. /\ b.inputs = << >> /\ b.canInputs = <<Board(1), Board(2), Board(3)>>
      /\ b.outputs = <<Output(Vin(1))>> /\ b.canOutputs = << >>
      /\ b.virtualInputs = <<v>> /\ b.flashers = << >> /\ b.counters = << >> /\ b.conditions = << >>
  <2>1. b = Lamp(<<v>>, Vin(1))
    BY Zenon DEF LatchToggle
  <2> HIDE DEF b, v
  <2> QED BY <2>1, LampLists
<1>3. DOMAIN m = VarMap(a) \ {Ctr(1)} /\ \A x \in DOMAIN m : m[x] = IF x = Cnd(1) THEN Vin(1) ELSE x
  BY DEF ToggleMap
<1>4. /\ k.enabled /\ k.holdToReset = FALSE /\ k.wrapAround = TRUE /\ k.maxCount = 1
      /\ k.incEdge = "rising" /\ k.decEdge = "rising" /\ k.resetEdge = "rising"
      /\ k.incInput = Cin(1) /\ k.decInput = AlwaysFalse /\ k.resetInput = AlwaysFalse
  BY DEF Count
<1>5. d.enabled /\ d.operator = "ge" /\ d.arg = 1 /\ d.input = Ctr(1)
  BY DEF Cond
<1>6. /\ v.enabled /\ v.not0 = FALSE /\ v.var0 = Cin(1) /\ v.cond0 = "and" /\ v.not1 = FALSE
      /\ v.var1 = AlwaysTrue /\ v.var2 = AlwaysFalse /\ v.mode = "latching"
  BY DEF And, Both
<1> HIDE DEF a, b, m, k, d, v
<1>7. /\ Ctr(1) \in VarMap(a) /\ Cnd(1) \in DOMAIN m /\ Cin(1) \in DOMAIN m /\ m[Cin(1)] = Cin(1)
      /\ m[Cnd(1)] = Vin(1)
  <2>1. 1 \in DOMAIN a.counters /\ 1 \in DOMAIN a.conditions /\ 1 \in DOMAIN a.canInputs
    BY <1>1
  <2>2. Ctr(1) \in VarMap(a) /\ Cnd(1) \in VarMap(a) /\ Cin(1) \in VarMap(a)
    BY <2>1 DEF VarMap, Slots, Ctr, Cnd, Cin
  <2>3. Cnd(1) # Ctr(1) /\ Cin(1) # Ctr(1) /\ Cin(1) # Cnd(1)
    BY DEF Ctr, Cnd, Cin
  <2> QED BY <1>3, <2>2, <2>3
<1>8. Vin(1) \in VarMap(b)
  <2>1. 1 \in DOMAIN b.virtualInputs
    BY <1>2
  <2> QED BY <2>1 DEF VarMap, Slots, Vin
<1>9. OutputsStand(a, b, m) /\ CanOutputsStand(a, b, m)
  <2>1. Cnd(1)[1] = "condition" /\ Vin(1)[1] = "virtIn"
    BY DEF Cnd, Vin
  <2> QED BY <1>1, <1>2, <1>7, <2>1, LampsStand DEF Logic
<1>10. ToggleLatched(a, b, m, 1, 1)
  <2>1. /\ a.conditions[1] = d /\ a.counters[1] = k /\ b.virtualInputs[1] = v
        /\ Ctr(1)[1] = "counter" /\ Ctr(1)[2] = 1
    BY <1>1, <1>2 DEF Ctr
  <2>2. TogglesBit(k)
    BY <1>4 DEF TogglesBit
  <2>3. Follows(v)
    BY <1>6 DEF Follows, ReadsFirst
  <2>4. Fresh("counter", 1, Cin(1)) /\ Fresh("virtIn", 1, Cin(1))
    BY DEF Fresh, Later, Cin
  <2> QED BY <1>4, <1>5, <1>6, <1>7, <2>1, <2>2, <2>3, <2>4 DEF ToggleLatched
<1>11. ASSUME NEW kind \in Logic PROVE StandsIn(a, b, m, kind)
  <2>1. CASE kind = "condition"
    <3>1. DOMAIN SlotsOf(kind, a) = {1}
      BY <1>1, <2>1 DEF SlotsOf
    <3>2. <<kind, 1>> = Cnd(1) /\ Cnd(1)[1] = "condition" /\ Cnd(1)[2] = 1
          /\ Vin(1)[1] = "virtIn" /\ Vin(1)[2] = 1
      BY <2>1 DEF Cnd, Vin
    <3>3. Stands(a, b, m, Cnd(1), Vin(1))
      BY <1>10, <3>2 DEF Stands
    <3> QED BY <1>7, <1>8, <3>1, <3>2, <3>3 DEF StandsIn
  <2>2. CASE kind = "counter"
    <3>1. DOMAIN SlotsOf(kind, a) = {1} /\ <<kind, 1>> = Ctr(1)
      BY <1>1, <2>2 DEF SlotsOf, Ctr
    <3> QED BY <1>3, <3>1 DEF StandsIn
  <2>3. CASE kind \notin {"condition", "counter"}
    <3>1. DOMAIN SlotsOf(kind, a) = {}
      BY <1>1, <2>3 DEF SlotsOf, Logic
    <3> QED BY <3>1 DEF StandsIn
  <2> QED BY <2>1, <2>2, <2>3
<1>12. \A x \in DOMAIN m : x[1] \notin Logic => m[x] = x
  BY <1>3 DEF Cnd, Logic
<1>13. SameProgram(a, b, m)
  <2>1. b.inputs = a.inputs /\ b.canInputs = a.canInputs /\ DOMAIN m \subseteq VarMap(a)
    BY <1>1, <1>2, <1>3
  <2> QED BY <1>9, <1>11, <1>12, <2>1, ProgramStands
<1> QED BY <1>13 DEF a, b, m

\* the settings of the counter of the hazard hold timer, and the lists of both configurations
HoldTimer(k, reset, resetEdge) ==
  /\ k.enabled /\ k.incInput = Fls(2) /\ k.decInput = AlwaysFalse
  /\ k.resetInput = reset /\ k.resetEdge = resetEdge
  /\ k.incEdge = "rising" /\ k.decEdge = "rising" /\ k.maxCount = 3
  /\ k.wrapAround = FALSE /\ k.holdToReset = FALSE
LightsAre(c, vins, left, reset, resetEdge) ==
  /\ c.inputs = << >> /\ c.canInputs = <<Board(2), Board(3)>> /\ c.canOutputs = << >>
  /\ c.outputs = <<Output(Fls(1)), Output(Fls(3))>>
  /\ c.virtualInputs = <<AndNot(Cin(1), Cin(2))>> \o vins
  /\ c.flashers = <<Flash(left, 2, 2), Flash(Vin(1), 0, 0), Flash(Cnd(1), 2, 2)>>
  /\ \E k : c.counters = <<k>> /\ HoldTimer(k, reset, resetEdge)
  /\ c.conditions = <<Cond(Ctr(1), "ge", 2)>>
LEMMA LightsLists ==
  ASSUME NEW vins, NEW left, NEW reset, NEW resetEdge, NEW c, c = Lights(vins, left, reset, resetEdge)
  PROVE  LightsAre(c, vins, left, reset, resetEdge)
<1> DEFINE k == Count(Fls(2), "rising", AlwaysFalse, "rising", reset, resetEdge, 3, FALSE)
           d == Cond(Ctr(1), "ge", 2)
           vs == <<AndNot(Cin(1), Cin(2))>> \o vins
           fs == <<Flash(left, 2, 2), Flash(Vin(1), 0, 0), Flash(Cnd(1), 2, 2)>>
           os == <<Output(Fls(1)), Output(Fls(3))>>
<1>1. c = [Empty EXCEPT
             !.canInputs = <<Board(2), Board(3)>>, !.virtualInputs = vs, !.flashers = fs,
             !.counters = <<k>>, !.conditions = <<d>>, !.outputs = os]
  BY Zenon DEF Lights
<1>2. HoldTimer(k, reset, resetEdge)
  BY DEF Count, HoldTimer
<1> HIDE DEF k, d, vs, fs, os
<1>3. c = [inputs |-> << >>, canInputs |-> <<Board(2), Board(3)>>, outputs |-> os, canOutputs |-> << >>,
           virtualInputs |-> vs, flashers |-> fs, counters |-> <<k>>, conditions |-> <<d>>]
  BY <1>1 DEF Empty
<1>4. /\ c.inputs = << >> /\ c.canInputs = <<Board(2), Board(3)>> /\ c.canOutputs = << >>
      /\ c.outputs = os /\ c.virtualInputs = vs /\ c.flashers = fs
      /\ c.counters = <<k>> /\ c.conditions = <<d>>
  BY <1>3
<1> QED BY <1>2, <1>4, Zenon DEF d, vs, fs, os, LightsAre

\* One slot before others.
LEMMA SlotBefore ==
  ASSUME NEW S, NEW x \in S, NEW seq \in Seq(S)
  PROVE  /\ DOMAIN (<<x>> \o seq) = 1..(Len(seq) + 1)
         /\ (<<x>> \o seq)[1] = x
         /\ \A i \in DOMAIN seq : (<<x>> \o seq)[i + 1] = seq[i]
<1>1. <<x>> \in Seq(S) /\ Len(<<x>>) = 1 /\ <<x>>[1] = x
  OBVIOUS
<1> DEFINE one == <<x>>
<1>2. one \in Seq(S) /\ Len(one) = 1 /\ one[1] = x
  BY <1>1
<1> HIDE DEF one
<1>3. one \o seq \in Seq(S) /\ Len(one \o seq) = 1 + Len(seq)
      /\ \A i \in 1..1 + Len(seq) : (one \o seq)[i] = IF i <= 1 THEN one[i] ELSE seq[i - 1]
  <2>1. /\ one \o seq \in Seq(S) /\ Len(one \o seq) = Len(one) + Len(seq)
        /\ \A i \in 1..Len(one) + Len(seq) :
             (one \o seq)[i] = IF i <= Len(one) THEN one[i] ELSE seq[i - Len(one)]
    BY <1>2, ConcatProperties
  <2> QED BY <1>2, <2>1
<1>4. DOMAIN seq = 1..Len(seq) /\ Len(seq) \in Nat
  OBVIOUS
<1>5. DOMAIN (one \o seq) = 1..(Len(seq) + 1)
  BY <1>3, <1>4
<1>6. (one \o seq)[1] = x /\ \A i \in DOMAIN seq : (one \o seq)[i + 1] = seq[i]
  BY <1>2, <1>3, <1>4
<1> QED BY <1>5, <1>6 DEF one

\* One slot before one other.
LEMMA TwoSlots ==
  ASSUME NEW x, NEW y
  PROVE  /\ DOMAIN (<<x>> \o <<y>>) = {1, 2}
         /\ (<<x>> \o <<y>>)[1] = x /\ (<<x>> \o <<y>>)[2] = y
<1> DEFINE seq == <<y>>
<1>1. x \in {x, y} /\ seq \in Seq({x, y}) /\ Len(seq) = 1 /\ DOMAIN seq = {1} /\ seq[1] = y
  OBVIOUS
<1> HIDE DEF seq
<1>2. /\ DOMAIN (<<x>> \o seq) = 1..(Len(seq) + 1) /\ (<<x>> \o seq)[1] = x
      /\ \A i \in DOMAIN seq : (<<x>> \o seq)[i + 1] = seq[i]
  BY SMTT(30), <1>1, SlotBefore
<1>3. 1..(Len(seq) + 1) = {1, 2}
  BY <1>1
<1>4. (<<x>> \o seq)[2] = y
  <2>1. 1 + 1 = 2
    OBVIOUS
  <2> QED BY <1>1, <1>2, <2>1
<1> QED BY <1>2, <1>3, <1>4 DEF seq

\* the switch stands for the virtual input that passes it on; the rise of the second virtual
\* input, whose slot is the same, resets the hold timer where the first one's fall did
LightsMap == [x \in VarMap(LightsDeployed) |-> IF x = Vin(2) THEN Cin(1) ELSE x]
LEMMA LightsStand == SameProgram(LightsDeployed, LightsRewrite, LightsMap)
<1> DEFINE a == LightsDeployed
           b == LightsRewrite
           m == LightsMap
           g == AndNot(Cin(1), Cin(2))
           va == Or(Cin(1), AlwaysFalse)
           vb == Not(Vin(1))
<1>1. PICK ka :
        /\ a.inputs = << >> /\ a.canInputs = <<Board(2), Board(3)>> /\ a.canOutputs = << >>
        /\ a.outputs = <<Output(Fls(1)), Output(Fls(3))>>
        /\ DOMAIN a.virtualInputs = {1, 2} /\ a.virtualInputs[1] = g /\ a.virtualInputs[2] = va
        /\ a.flashers = <<Flash(Vin(2), 2, 2), Flash(Vin(1), 0, 0), Flash(Cnd(1), 2, 2)>>
        /\ a.counters = <<ka>> /\ HoldTimer(ka, Vin(1), "falling")
        /\ a.conditions = <<Cond(Ctr(1), "ge", 2)>>
  <2>1. a = Lights(<<va>>, Vin(2), Vin(1), "falling")
    BY Zenon DEF LightsDeployed
  <2> HIDE DEF a, va
  <2>2. /\ DOMAIN (<<g>> \o <<va>>) = {1, 2}
        /\ (<<g>> \o <<va>>)[1] = g /\ (<<g>> \o <<va>>)[2] = va
    BY TwoSlots
  <2>3. \A vins : a = Lights(vins, Vin(2), Vin(1), "falling") => LightsAre(a, vins, Vin(2), Vin(1), "falling")
    BY LightsLists
  <2>4. LightsAre(a, <<va>>, Vin(2), Vin(1), "falling")
    BY <2>1, <2>3
  <2> QED BY <2>2, <2>4, Zenon DEF LightsAre
<1>2. PICK kb :
        /\ b.inputs = << >> /\ b.canInputs = <<Board(2), Board(3)>> /\ b.canOutputs = << >>
        /\ b.outputs = <<Output(Fls(1)), Output(Fls(3))>>
        /\ DOMAIN b.virtualInputs = {1, 2} /\ b.virtualInputs[1] = g /\ b.virtualInputs[2] = vb
        /\ b.flashers = <<Flash(Cin(1), 2, 2), Flash(Vin(1), 0, 0), Flash(Cnd(1), 2, 2)>>
        /\ b.counters = <<kb>> /\ HoldTimer(kb, Vin(2), "rising")
        /\ b.conditions = <<Cond(Ctr(1), "ge", 2)>>
  <2>1. b = Lights(<<vb>>, Cin(1), Vin(2), "rising")
    BY Zenon DEF LightsRewrite
  <2> HIDE DEF b, vb
  <2>2. /\ DOMAIN (<<g>> \o <<vb>>) = {1, 2}
        /\ (<<g>> \o <<vb>>)[1] = g /\ (<<g>> \o <<vb>>)[2] = vb
    BY TwoSlots
  <2>3. \A vins : b = Lights(vins, Cin(1), Vin(2), "rising") => LightsAre(b, vins, Cin(1), Vin(2), "rising")
    BY LightsLists
  <2>4. LightsAre(b, <<vb>>, Cin(1), Vin(2), "rising")
    BY <2>1, <2>3
  <2> QED BY <2>2, <2>4, Zenon DEF LightsAre
<1>3. DOMAIN m = VarMap(a) /\ \A x \in VarMap(a) : m[x] = IF x = Vin(2) THEN Cin(1) ELSE x
  BY DEF LightsMap
<1>4. /\ g.enabled /\ g.not0 = FALSE /\ g.var0 = Cin(1) /\ g.cond0 = "and" /\ g.not1 = TRUE
      /\ g.var1 = Cin(2) /\ g.var2 = AlwaysFalse /\ g.mode = "momentary"
  BY DEF AndNot, Both
<1>5. /\ va.enabled /\ va.not0 = FALSE /\ va.var0 = Cin(1) /\ va.cond0 = "or" /\ va.not1 = FALSE
      /\ va.var1 = AlwaysFalse /\ va.var2 = AlwaysFalse /\ va.mode = "momentary"
  BY DEF Or, Both
<1>6. /\ vb.enabled /\ vb.not0 = TRUE /\ vb.var0 = Vin(1) /\ vb.cond0 = "and" /\ vb.not1 = FALSE
      /\ vb.var1 = AlwaysTrue /\ vb.var2 = AlwaysFalse /\ vb.mode = "momentary"
  BY DEF Not, Both
<1> HIDE DEF a, b, m, g, va, vb
<1>7. /\ {1, 2} = DOMAIN a.virtualInputs /\ {1, 2} = DOMAIN b.virtualInputs /\ {1, 2} = DOMAIN a.canInputs
      /\ {1, 2, 3} = DOMAIN a.flashers /\ {1, 2, 3} = DOMAIN b.flashers
      /\ {1} = DOMAIN a.counters /\ {1} = DOMAIN b.counters
      /\ {1} = DOMAIN a.conditions /\ {1} = DOMAIN b.conditions
      /\ {1, 2} = DOMAIN a.outputs /\ {1, 2} = DOMAIN b.outputs
      /\ {} = DOMAIN a.canOutputs /\ {} = DOMAIN b.canOutputs
  BY <1>1, <1>2
<1>8. VarMap(b) = VarMap(a)
  <2>1. a.inputs = b.inputs /\ a.canInputs = b.canInputs
    BY <1>1, <1>2
  <2> QED BY <1>7, <2>1 DEF VarMap, Slots
<1>9. {Vin(1), Vin(2), Cin(1), Cin(2), Fls(1), Fls(2), Fls(3), Ctr(1), Cnd(1), AlwaysFalse} \subseteq VarMap(a)
  BY <1>7 DEF VarMap, Slots, Vin, Cin, Fls, Ctr, Cnd
<1>10. /\ m[Vin(1)] = Vin(1) /\ m[Vin(2)] = Cin(1) /\ m[Cin(1)] = Cin(1) /\ m[Cin(2)] = Cin(2)
       /\ m[Fls(1)] = Fls(1) /\ m[Fls(2)] = Fls(2) /\ m[Fls(3)] = Fls(3) /\ m[Ctr(1)] = Ctr(1)
       /\ m[Cnd(1)] = Cnd(1) /\ m[AlwaysFalse] = AlwaysFalse
  <2>1. Vin(2) \notin {Vin(1), Cin(1), Cin(2), Fls(1), Fls(2), Fls(3), Ctr(1), Cnd(1), AlwaysFalse}
    BY DEF Vin, Cin, Fls, Ctr, Cnd, AlwaysFalse
  <2> QED BY <1>3, <1>9, <2>1
<1>11. /\ a.outputs[1] = Output(Fls(1)) /\ a.outputs[2] = Output(Fls(3))
       /\ b.outputs[1] = Output(Fls(1)) /\ b.outputs[2] = Output(Fls(3))
       /\ a.virtualInputs[1] = g /\ a.virtualInputs[2] = va
       /\ b.virtualInputs[1] = g /\ b.virtualInputs[2] = vb
       /\ a.counters[1] = ka /\ b.counters[1] = kb
       /\ a.conditions[1] = Cond(Ctr(1), "ge", 2) /\ b.conditions[1] = Cond(Ctr(1), "ge", 2)
  BY <1>1, <1>2
<1>12. /\ a.flashers[1] = Flash(Vin(2), 2, 2) /\ b.flashers[1] = Flash(Cin(1), 2, 2)
       /\ a.flashers[2] = Flash(Vin(1), 0, 0) /\ b.flashers[2] = Flash(Vin(1), 0, 0)
       /\ a.flashers[3] = Flash(Cnd(1), 2, 2) /\ b.flashers[3] = Flash(Cnd(1), 2, 2)
  BY <1>1, <1>2
<1>13. OutputsStand(a, b, m) /\ CanOutputsStand(a, b, m)
  <2>1. \A x : Output(x).input = x
    BY DEF Output
  <2>2. \A i \in {1, 3} : Fls(i)[1] = "flasher"
    BY DEF Fls
  <2>3. \A i \in {1, 2} : \E x \in DOMAIN m : /\ a.outputs[i] = Output(x) /\ b.outputs[i] = Output(x)
                                              /\ m[x] = x /\ x[1] = "flasher"
    BY <1>3, <1>9, <1>10, <1>11, <2>2
  <2>4. ASSUME NEW i \in {1, 2}
        PROVE  /\ a.outputs[i].input \in DOMAIN m /\ b.outputs[i].input = m[a.outputs[i].input]
               /\ a.outputs[i].input[1] # "output" /\ b.outputs[i].enabled = a.outputs[i].enabled
               /\ a.outputs[i].input[1] \in Logic <=> b.outputs[i].input[1] \in Logic
    <3>1. PICK x \in DOMAIN m : /\ a.outputs[i] = Output(x) /\ b.outputs[i] = Output(x)
                               /\ m[x] = x /\ x[1] = "flasher"
      BY <2>3
    <3>2. a.outputs[i].input = x /\ b.outputs[i].input = x
      BY <2>1, <3>1
    <3>3. b.outputs[i].enabled = a.outputs[i].enabled
      BY <3>1
    <3> QED BY <3>1, <3>2, <3>3
  <2>5. OutputsStand(a, b, m)
    BY <1>7, <2>4, Zenon DEF OutputsStand
  <2> QED BY <1>7, <2>5 DEF CanOutputsStand
<1>14. VirtInStands(a, b, m, 1, 1)
  <2>1. SameLevels(g, g)
    BY SameTerms
  <2> QED BY <1>3, <1>4, <1>9, <1>10, <1>11, <2>1 DEF VirtInStands, Alike
<1>15. LeftOut(a, m, 2, Cin(1))
  <2>1. Follows(va)
    BY <1>5 DEF Follows, ReadsFirst
  <2>2. Cin(1)[1] = "canIn"
    BY DEF Cin
  <2> QED BY <1>3, <1>5, <1>9, <1>11, <2>1, <2>2 DEF LeftOut
<1>16. \A i \in {1, 2, 3} : FlasherStands(a, b, m, i, i)
  <2>1. \A x, on, off : Flash(x, on, off).enabled /\ Flash(x, on, off).input = x
    BY DEF Flash
  <2>2. \A x, y : Flash(x, 2, 2).onTime = Flash(y, 2, 2).onTime /\ Flash(x, 2, 2).offTime = Flash(y, 2, 2).offTime
    BY DEF Flash
  <2>3. Fresh("flasher", 1, Vin(2)) /\ Fresh("flasher", 1, Cin(1))
    BY DEF Fresh, Later, Vin, Cin
  <2>4. FlasherStands(a, b, m, 1, 1)
    BY <1>3, <1>9, <1>10, <1>12, <2>1, <2>2, <2>3 DEF FlasherStands, Alike, SameSettings
  <2>5. FlasherStands(a, b, m, 2, 2)
    BY <1>3, <1>9, <1>10, <1>12, <2>1 DEF FlasherStands, Alike, SameSettings
  <2>6. FlasherStands(a, b, m, 3, 3)
    BY <1>3, <1>9, <1>10, <1>12, <2>1 DEF FlasherStands, Alike, SameSettings
  <2> QED BY <2>4, <2>5, <2>6
<1>17. ResetRewritten(a, b, m, 1, 1)
  <2>1. ResetSettings(ka, kb)
    BY <1>1, <1>2 DEF ResetSettings, SameSettings, Edges, HoldTimer
  <2>2. Gated(a, 1)
    <3>1. Fls(2)[1] = "flasher" /\ Fls(2)[2] = 2
      BY DEF Fls
    <3>2. Fresh("flasher", 2, Vin(1)) /\ Fresh("counter", 1, Vin(1))
      BY DEF Fresh, Later, Vin
    <3>3. Flash(Vin(1), 0, 0).enabled /\ Flash(Vin(1), 0, 0).input = Vin(1)
      BY DEF Flash
    <3> QED BY <1>1, <1>11, <1>12, <3>1, <3>2, <3>3 DEF Gated, HoldTimer
  <2>3. Negates(vb)
    BY <1>6 DEF Negates, ReadsFirst
  <2>4. Vin(2)[1] = "virtIn" /\ Vin(2)[2] = 2
    BY DEF Vin
  <2>5. Fresh("counter", 1, Vin(1)) /\ Fresh("virtIn", 2, Vin(1))
    BY DEF Fresh, Later, Vin
  <2>6. Alike(m, "counter", 1, Fls(2), 1, Fls(2))
    BY <1>3, <1>9, <1>10 DEF Alike
  <2> QED BY <1>1, <1>2, <1>3, <1>6, <1>8, <1>9, <1>10, <1>11, <2>1, <2>2, <2>3, <2>4, <2>5, <2>6
          DEF ResetRewritten, HoldTimer
<1>18. ConditionStands(a, b, m, 1, 1)
  <2>1. Cond(Ctr(1), "ge", 2).enabled /\ Cond(Ctr(1), "ge", 2).input = Ctr(1)
    BY DEF Cond
  <2> QED BY <1>3, <1>9, <1>10, <1>11, <2>1 DEF ConditionStands, Alike, SameSettings
<1>19. ASSUME NEW kind \in Logic PROVE StandsIn(a, b, m, kind)
  <2>1. CASE kind = "virtIn"
    <3>1. DOMAIN SlotsOf(kind, a) = {1, 2}
      BY <1>7, <2>1 DEF SlotsOf
    <3>2. /\ <<kind, 1>> = Vin(1) /\ Vin(1)[1] = "virtIn" /\ Vin(1)[2] = 1
          /\ <<kind, 2>> = Vin(2) /\ Vin(2)[1] = "virtIn" /\ Vin(2)[2] = 2
      BY <2>1 DEF Vin
    <3>3. Stands(a, b, m, Vin(1), Vin(1)) /\ Stands(a, b, m, Vin(2), Cin(1))
      BY <1>14, <1>15, <3>2 DEF Stands
    <3> QED BY <1>8, <1>9, <1>10, <3>1, <3>2, <3>3 DEF StandsIn
  <2>2. CASE kind = "flasher"
    <3>1. DOMAIN SlotsOf(kind, a) = {1, 2, 3}
      BY <1>7, <2>2 DEF SlotsOf
    <3>2. \A i \in {1, 2, 3} : <<kind, i>> = Fls(i) /\ Fls(i)[1] = "flasher" /\ Fls(i)[2] = i
      BY <2>2 DEF Fls
    <3>3. \A i \in {1, 2, 3} : Stands(a, b, m, Fls(i), Fls(i)) /\ m[Fls(i)] = Fls(i) /\ Fls(i) \in VarMap(b)
      BY <1>8, <1>9, <1>10, <1>16, <3>2 DEF Stands
    <3> QED BY <3>1, <3>2, <3>3 DEF StandsIn
  <2>3. CASE kind = "counter"
    <3>1. DOMAIN SlotsOf(kind, a) = {1}
      BY <1>7, <2>3 DEF SlotsOf
    <3>2. <<kind, 1>> = Ctr(1) /\ Ctr(1)[1] = "counter" /\ Ctr(1)[2] = 1
      BY <2>3 DEF Ctr
    <3>3. Stands(a, b, m, Ctr(1), Ctr(1))
      BY <1>17, <3>2 DEF Stands
    <3> QED BY <1>8, <1>9, <1>10, <3>1, <3>2, <3>3 DEF StandsIn
  <2>4. CASE kind = "condition"
    <3>1. DOMAIN SlotsOf(kind, a) = {1}
      BY <1>7, <2>4 DEF SlotsOf
    <3>2. <<kind, 1>> = Cnd(1) /\ Cnd(1)[1] = "condition" /\ Cnd(1)[2] = 1
      BY <2>4 DEF Cnd
    <3>3. Stands(a, b, m, Cnd(1), Cnd(1))
      BY <1>18, <3>2 DEF Stands
    <3> QED BY <1>8, <1>9, <1>10, <3>1, <3>2, <3>3 DEF StandsIn
  <2> QED BY <2>1, <2>2, <2>3, <2>4 DEF Logic
<1>20. SameProgram(a, b, m)
  <2>1. /\ b.inputs = a.inputs /\ b.canInputs = a.canInputs /\ DOMAIN m \subseteq VarMap(a)
    BY <1>1, <1>2, <1>3
  <2>2. \A x \in DOMAIN m : x[1] \notin Logic => m[x] = x
    BY <1>3 DEF Vin, Logic
  <2> QED BY <1>13, <1>19, <2>1, <2>2, ProgramStands
<1> QED BY <1>20 DEF a, b, m

\* every virtual input one slot later
Shifted(x) == IF x[1] = "virtIn" THEN <<"virtIn", x[2] + 1>> ELSE x
EngineMap  == [x \in VarMap(Engine) |-> Shifted(x)]

LEMMA ShiftedKinds ==
  ASSUME NEW x
  PROVE  /\ Shifted(x)[1] = x[1]
         /\ x[1] # "virtIn" => Shifted(x) = x
         /\ x[1] = "virtIn" => Shifted(x)[2] = x[2] + 1
         /\ (Shifted(x) = AlwaysFalse) <=> (x = AlwaysFalse)
BY DEF Shifted, AlwaysFalse

\* A block reads of it what it read before.
LEMMA ShiftedFresh ==
  ASSUME NEW kind \in Logic, NEW x, NEW i \in Int, x[1] \in Logic => x[2] \in Int
  PROVE  /\ kind # "virtIn" => (Fresh(kind, i, x) <=> Fresh(kind, i, Shifted(x)))
         /\ kind = "virtIn" => (Fresh(kind, i, x) <=> Fresh(kind, i + 1, Shifted(x)))
<1>1. Shifted(x)[1] = x[1]
  BY ShiftedKinds
<1>2. CASE kind # "virtIn"
  <2>1. x[1] = kind => Shifted(x) = x
    BY <1>2, ShiftedKinds
  <2> QED BY <1>1, <1>2, <2>1 DEF Fresh
<1>3. CASE kind = "virtIn"
  <2>1. x[1] = kind => Shifted(x)[2] = x[2] + 1 /\ x[2] \in Int
    BY <1>3, ShiftedKinds DEF Logic
  <2>2. x[1] = kind => (x[2] >= i <=> Shifted(x)[2] >= i + 1)
    BY <2>1
  <2> QED BY <1>1, <1>3, <2>2 DEF Fresh
<1> QED BY <1>2, <1>3

-----------------------------------------------------------------------------
\* The slots of both engine configurations.
EngineVins(n) ==
  <<And(brake, washer), And(Vin(n + 1), horn), And(Vin(n + 1), CRANKED), Or(ENGINE_RUN, Vin(n + 2)),
    [AndNot(washer, brake) EXCEPT !.cond1 = "and", !.var2 = ENGINE_RUN],
    AndNot(horn, Vin(n + 1)), And(Din(1), ENGINE_RUN), And(HEATER_LATCHED, ENGINE_RUN)>>
EngineOuts(n) ==
  <<Output(Vin(n + 2)), Output(Vin(n + 4)), Output(Vin(n + 5)), Output(Vin(n + 4)),
    Output(ENGINE_RUN), Output(Vin(n + 2)), Output(Vin(n + 6)), Output(AlwaysTrue)>>
EngineCans(n) ==
  <<Transmit("0x301", 0, ENGINE_RUN), Transmit("0x301", 1, Vin(n + 8)), Transmit("0x643", 24, AlwaysFalse)>>
Toggle(n, reset, resetEdge) ==
  Count(Vin(n + 7), "rising", AlwaysFalse, "rising", reset, resetEdge, 1, TRUE)
EngineCounts(n, toggle) ==
  <<Latch(Vin(n + 3), "falling", Vin(n + 1), "rising"), Latch(Vin(n + 2), "rising", Vin(n + 1), "falling"), toggle>>
EngineConds == <<Cond(Ctr(1), "ge", 1), Cond(Ctr(2), "ge", 1), Cond(Ctr(3), "ge", 1)>>
EngineDigs == <<DigInput("momentary", TRUE, Debounce)>>
EngineSenses == <<Board(1), Board(8), Switch("0x300", 0)>>

EngineAre(c, first, n, reset, resetEdge) ==
  /\ c.inputs = EngineDigs /\ c.canInputs = EngineSenses /\ c.outputs = EngineOuts(n)
  /\ c.canOutputs = EngineCans(n) /\ c.virtualInputs = first \o EngineVins(n)
  /\ c.flashers = << >> /\ c.counters = EngineCounts(n, Toggle(n, reset, resetEdge))
  /\ c.conditions = EngineConds
LEMMA EngineLists ==
  ASSUME NEW first, NEW n, NEW reset, NEW resetEdge
  PROVE  EngineAre(EngineWith(first, n, reset, resetEdge), first, n, reset, resetEdge)
<1> DEFINE c == [inputs |-> EngineDigs, canInputs |-> EngineSenses, outputs |-> EngineOuts(n),
                 canOutputs |-> EngineCans(n), virtualInputs |-> first \o EngineVins(n), flashers |-> << >>,
                 counters |-> EngineCounts(n, Toggle(n, reset, resetEdge)), conditions |-> EngineConds]
<1>1. EngineWith(first, n, reset, resetEdge) = c
  BY Zenon DEF EngineWith, EngineVins, EngineOuts, EngineCans, Toggle, EngineCounts, EngineConds,
               EngineDigs, EngineSenses
<1>2. EngineAre(c, first, n, reset, resetEdge)
  BY DEF EngineAre
<1> HIDE DEF c
<1> QED BY <1>1, <1>2

\* Their virtual inputs are eight.
LEMMA VinsListed ==
  ASSUME NEW n
  PROVE  \E S : EngineVins(n) \in Seq(S) /\ Len(EngineVins(n)) = 8
<1> DEFINE starter == [AndNot(washer, brake) EXCEPT !.cond1 = "and", !.var2 = ENGINE_RUN]
           seq == EngineVins(n)
           S == {seq[i] : i \in 1..8}
<1>1. seq = <<And(brake, washer), And(Vin(n + 1), horn), And(Vin(n + 1), CRANKED),
              Or(ENGINE_RUN, Vin(n + 2)), starter, AndNot(horn, Vin(n + 1)),
              And(Din(1), ENGINE_RUN), And(HEATER_LATCHED, ENGINE_RUN)>>
  BY Zenon DEF EngineVins
<1> HIDE DEF starter, seq
<1>2. seq \in Seq(S) /\ Len(seq) = 8
  BY <1>1
<1>3. \E T : seq \in Seq(T) /\ Len(seq) = 8
  BY <1>2
<1> QED BY <1>3 DEF seq

\* a virtual input with the slots numbered anew
Renamed(va, vb) ==
  /\ va.enabled /\ vb.enabled /\ vb.mode = va.mode /\ vb.not0 = va.not0 /\ vb.cond0 = va.cond0
  /\ vb.not1 = va.not1 /\ vb.cond1 = va.cond1 /\ vb.not2 = va.not2
  /\ vb.var0 = Shifted(va.var0) /\ vb.var1 = Shifted(va.var1) /\ vb.var2 = Shifted(va.var2)

LEMMA BothRenamed ==
  ASSUME NEW x, NEW y, NEW u, NEW w, u = Shifted(x), w = Shifted(y)
  PROVE  /\ Renamed(And(x, y), And(u, w)) /\ Renamed(AndNot(x, y), AndNot(u, w))
         /\ Renamed(Or(x, y), Or(u, w))
<1>1. Shifted(AlwaysFalse) = AlwaysFalse
  BY DEF Shifted, AlwaysFalse
<1>2. ASSUME NEW not0, NEW op, NEW not1
      PROVE  Renamed(Both(not0, x, op, not1, y), Both(not0, u, op, not1, w))
  BY <1>1 DEF Renamed, Both
<1> QED BY <1>2, Zenon DEF And, AndNot, Or

\* What the slots read, numbered anew.
LEMMA EngineShifted ==
  /\ \A i \in 1..8 : Shifted(Vin(0 + i)) = Vin(1 + i)
  /\ \A x \in {brake, washer, horn, CRANKED, ENGINE_RUN, HEATER_LATCHED, Din(1), AlwaysTrue, AlwaysFalse} :
       Shifted(x) = x
<1>1. \A i \in 1..8 : Shifted(Vin(0 + i)) = Vin(1 + i)
  BY DEF Shifted, Vin
<1>2. \A x \in {brake, washer, horn, CRANKED, ENGINE_RUN, HEATER_LATCHED, Din(1), AlwaysTrue, AlwaysFalse} :
        x[1] # "virtIn"
  BY DEF brake, washer, horn, CRANKED, ENGINE_RUN, HEATER_LATCHED, Din, AlwaysTrue, AlwaysFalse, Cin, Cnd
<1> QED BY <1>1, <1>2 DEF Shifted

LEMMA VinsRenamed ==
  /\ DOMAIN EngineVins(0) = 1..8 /\ DOMAIN EngineVins(1) = 1..8
  /\ \A i \in 1..8 : Renamed(EngineVins(0)[i], EngineVins(1)[i])
<1> DEFINE starter == [AndNot(washer, brake) EXCEPT !.cond1 = "and", !.var2 = ENGINE_RUN]
<1>1. ASSUME NEW n
      PROVE  /\ DOMAIN EngineVins(n) = 1..8
             /\ EngineVins(n)[1] = And(brake, washer) /\ EngineVins(n)[2] = And(Vin(n + 1), horn)
             /\ EngineVins(n)[3] = And(Vin(n + 1), CRANKED) /\ EngineVins(n)[4] = Or(ENGINE_RUN, Vin(n + 2))
             /\ EngineVins(n)[5] = starter /\ EngineVins(n)[6] = AndNot(horn, Vin(n + 1))
             /\ EngineVins(n)[7] = And(Din(1), ENGINE_RUN)
             /\ EngineVins(n)[8] = And(HEATER_LATCHED, ENGINE_RUN)
  <2> HIDE DEF starter
  <2>1. EngineVins(n) = <<And(brake, washer), And(Vin(n + 1), horn), And(Vin(n + 1), CRANKED),
                          Or(ENGINE_RUN, Vin(n + 2)), starter,
                          AndNot(horn, Vin(n + 1)), And(Din(1), ENGINE_RUN), And(HEATER_LATCHED, ENGINE_RUN)>>
    BY Zenon DEF EngineVins, starter
  <2> QED BY <2>1
<1>2. /\ Shifted(Vin(0 + 1)) = Vin(1 + 1) /\ Shifted(Vin(0 + 2)) = Vin(1 + 2)
      /\ Shifted(brake) = brake /\ Shifted(washer) = washer /\ Shifted(horn) = horn
      /\ Shifted(CRANKED) = CRANKED /\ Shifted(ENGINE_RUN) = ENGINE_RUN
      /\ Shifted(HEATER_LATCHED) = HEATER_LATCHED /\ Shifted(Din(1)) = Din(1)
  BY EngineShifted
<1>3. Renamed(starter, starter)
  <2>1. /\ starter.enabled /\ starter.var0 = washer /\ starter.var1 = brake /\ starter.var2 = ENGINE_RUN
    BY DEF AndNot, Both
  <2> HIDE DEF starter
  <2> QED BY <1>2, <2>1 DEF Renamed
<1> HIDE DEF starter
<1>4. Renamed(And(brake, washer), And(brake, washer))
  BY <1>2, BothRenamed
<1>5. Renamed(And(Vin(0 + 1), horn), And(Vin(1 + 1), horn))
  BY <1>2, BothRenamed
<1>6. Renamed(And(Vin(0 + 1), CRANKED), And(Vin(1 + 1), CRANKED))
  BY <1>2, BothRenamed
<1>7. Renamed(Or(ENGINE_RUN, Vin(0 + 2)), Or(ENGINE_RUN, Vin(1 + 2)))
  BY <1>2, BothRenamed
<1>8. Renamed(AndNot(horn, Vin(0 + 1)), AndNot(horn, Vin(1 + 1)))
  BY <1>2, BothRenamed
<1>9. Renamed(And(Din(1), ENGINE_RUN), And(Din(1), ENGINE_RUN))
  BY <1>2, BothRenamed
<1>10. Renamed(And(HEATER_LATCHED, ENGINE_RUN), And(HEATER_LATCHED, ENGINE_RUN))
  BY <1>2, BothRenamed
<1>11. \A i \in {1, 2, 3, 4, 5, 6, 7, 8} : Renamed(EngineVins(0)[i], EngineVins(1)[i])
  BY <1>1, <1>3, <1>4, <1>5, <1>6, <1>7, <1>8, <1>9, <1>10
<1>12. 1..8 = {1, 2, 3, 4, 5, 6, 7, 8}
  OBVIOUS
<1> QED BY <1>1, <1>11, <1>12

\* The outputs and CAN outputs read those, numbered anew.
LEMMA OutsRenamed ==
  /\ DOMAIN EngineOuts(0) = 1..8 /\ DOMAIN EngineOuts(1) = 1..8
  /\ \A i \in 1..8 : \E x : /\ EngineOuts(0)[i] = Output(x) /\ EngineOuts(1)[i] = Output(Shifted(x))
                            /\ x[1] # "output"
<1>1. ASSUME NEW n
      PROVE  /\ DOMAIN EngineOuts(n) = 1..8
             /\ EngineOuts(n)[1] = Output(Vin(n + 2)) /\ EngineOuts(n)[2] = Output(Vin(n + 4))
             /\ EngineOuts(n)[3] = Output(Vin(n + 5)) /\ EngineOuts(n)[4] = Output(Vin(n + 4))
             /\ EngineOuts(n)[5] = Output(ENGINE_RUN) /\ EngineOuts(n)[6] = Output(Vin(n + 2))
             /\ EngineOuts(n)[7] = Output(Vin(n + 6)) /\ EngineOuts(n)[8] = Output(AlwaysTrue)
  BY DEF EngineOuts
<1>2. \A i \in 1..8 : Shifted(Vin(0 + i)) = Vin(1 + i) /\ Vin(0 + i)[1] # "output"
  BY EngineShifted DEF Vin
<1>3. \A x \in {ENGINE_RUN, AlwaysTrue} : Shifted(x) = x /\ x[1] # "output"
  BY EngineShifted DEF ENGINE_RUN, AlwaysTrue, Cnd
<1>4. /\ Shifted(Vin(0 + 2)) = Vin(1 + 2) /\ Shifted(Vin(0 + 4)) = Vin(1 + 4)
      /\ Shifted(Vin(0 + 5)) = Vin(1 + 5) /\ Shifted(Vin(0 + 6)) = Vin(1 + 6)
      /\ Vin(0 + 2)[1] # "output" /\ Vin(0 + 4)[1] # "output" /\ Vin(0 + 5)[1] # "output"
      /\ Vin(0 + 6)[1] # "output"
  BY <1>2
<1>5. \A i \in {1, 2, 3, 4, 5, 6, 7, 8} :
        \E x : /\ EngineOuts(0)[i] = Output(x) /\ EngineOuts(1)[i] = Output(Shifted(x)) /\ x[1] # "output"
  BY <1>1, <1>3, <1>4
<1>6. 1..8 = {1, 2, 3, 4, 5, 6, 7, 8}
  OBVIOUS
<1> QED BY <1>1, <1>5, <1>6

LEMMA CansRenamed ==
  /\ DOMAIN EngineCans(0) = 1..3 /\ DOMAIN EngineCans(1) = 1..3
  /\ \A i \in 1..3 : \E id, bit, x : /\ EngineCans(0)[i] = Transmit(id, bit, x)
                                     /\ EngineCans(1)[i] = Transmit(id, bit, Shifted(x))
<1>1. ASSUME NEW n
      PROVE  /\ DOMAIN EngineCans(n) = 1..3
             /\ EngineCans(n)[1] = Transmit("0x301", 0, ENGINE_RUN)
             /\ EngineCans(n)[2] = Transmit("0x301", 1, Vin(n + 8))
             /\ EngineCans(n)[3] = Transmit("0x643", 24, AlwaysFalse)
  BY DEF EngineCans
<1>2. /\ Shifted(ENGINE_RUN) = ENGINE_RUN /\ Shifted(AlwaysFalse) = AlwaysFalse
      /\ Shifted(Vin(0 + 8)) = Vin(1 + 8)
  BY EngineShifted
<1>3. \A i \in {1, 2, 3} : \E id, bit, x : /\ EngineCans(0)[i] = Transmit(id, bit, x)
                                           /\ EngineCans(1)[i] = Transmit(id, bit, Shifted(x))
  BY <1>1, <1>2
<1>4. 1..3 = {1, 2, 3}
  OBVIOUS
<1> QED BY <1>1, <1>3, <1>4

\* a counter with the slots numbered anew
CountRenamed(ka, kb) ==
  /\ ka.enabled /\ kb.enabled
  /\ SameSettings({"incEdge", "decEdge", "resetEdge", "minCount", "maxCount", "wrapAround",
                   "holdToReset", "resetTime"}, ka, kb)
  /\ kb.incInput = Shifted(ka.incInput) /\ kb.decInput = Shifted(ka.decInput)
  /\ kb.resetInput = Shifted(ka.resetInput)

\* Two latches are.
LEMMA LatchRenamed ==
  ASSUME NEW x, NEW y, NEW u, NEW w, u = Shifted(x), w = Shifted(y), NEW e, NEW f
  PROVE  CountRenamed(Latch(x, e, y, f), Latch(u, e, w, f))
<1>1. Shifted(AlwaysFalse) = AlwaysFalse
  BY DEF Shifted, AlwaysFalse
<1> DEFINE ka == Latch(x, e, y, f)
           kb == Latch(u, e, w, f)
<1>2. /\ ka.enabled /\ kb.enabled
      /\ ka.incEdge = e /\ kb.incEdge = e /\ ka.decEdge = f /\ kb.decEdge = f
      /\ ka.resetEdge = kb.resetEdge /\ ka.minCount = kb.minCount /\ ka.maxCount = kb.maxCount
      /\ ka.wrapAround = kb.wrapAround /\ ka.holdToReset = kb.holdToReset /\ ka.resetTime = kb.resetTime
      /\ kb.incInput = u /\ ka.incInput = x /\ kb.decInput = w /\ ka.decInput = y
      /\ ka.resetInput = AlwaysFalse /\ kb.resetInput = AlwaysFalse
  BY DEF Latch, Count
<1> HIDE DEF ka, kb
<1>3. SameSettings({"incEdge", "decEdge", "resetEdge", "minCount", "maxCount", "wrapAround",
                    "holdToReset", "resetTime"}, ka, kb)
  BY <1>2 DEF SameSettings
<1>4. CountRenamed(ka, kb)
  BY <1>1, <1>2, <1>3 DEF CountRenamed
<1> QED BY <1>4 DEF ka, kb

LEMMA CountsRenamed ==
  ASSUME NEW ta, NEW tb
  PROVE  /\ DOMAIN EngineCounts(0, ta) = {1, 2, 3} /\ DOMAIN EngineCounts(1, tb) = {1, 2, 3}
         /\ \A i \in {1, 2} : CountRenamed(EngineCounts(0, ta)[i], EngineCounts(1, tb)[i])
         /\ EngineCounts(0, ta)[3] = ta /\ EngineCounts(1, tb)[3] = tb
<1>1. ASSUME NEW n, NEW toggle
      PROVE  /\ DOMAIN EngineCounts(n, toggle) = {1, 2, 3} /\ EngineCounts(n, toggle)[3] = toggle
             /\ EngineCounts(n, toggle)[1] = Latch(Vin(n + 3), "falling", Vin(n + 1), "rising")
             /\ EngineCounts(n, toggle)[2] = Latch(Vin(n + 2), "rising", Vin(n + 1), "falling")
  BY DEF EngineCounts
<1>2. /\ Shifted(Vin(0 + 1)) = Vin(1 + 1) /\ Shifted(Vin(0 + 2)) = Vin(1 + 2)
      /\ Shifted(Vin(0 + 3)) = Vin(1 + 3)
  BY EngineShifted
<1>3. CountRenamed(Latch(Vin(0 + 3), "falling", Vin(0 + 1), "rising"),
                   Latch(Vin(1 + 3), "falling", Vin(1 + 1), "rising"))
  BY <1>2, LatchRenamed
<1>4. CountRenamed(Latch(Vin(0 + 2), "rising", Vin(0 + 1), "falling"),
                   Latch(Vin(1 + 2), "rising", Vin(1 + 1), "falling"))
  BY <1>2, LatchRenamed
<1> QED BY <1>1, <1>3, <1>4

\* The lists of both.
LEMMA EngineSlots ==
  /\ Engine.inputs = EngineDigs /\ Engine.canInputs = EngineSenses /\ Engine.outputs = EngineOuts(0)
  /\ Engine.canOutputs = EngineCans(0) /\ Engine.virtualInputs = EngineVins(0)
  /\ Engine.flashers = << >> /\ Engine.counters = EngineCounts(0, Toggle(0, ENGINE_RUN, "falling"))
  /\ Engine.conditions = EngineConds
<1>1. Engine = EngineWith(<< >>, 0, ENGINE_RUN, "falling")
  BY Zenon DEF Engine
<1>2. EngineAre(Engine, << >>, 0, ENGINE_RUN, "falling")
  BY <1>1, EngineLists, Zenon
<1>3. << >> \o EngineVins(0) = EngineVins(0)
  <2>1. PICK S : EngineVins(0) \in Seq(S)
    BY VinsListed
  <2> QED BY <2>1, ConcatEmptySeq
<1> QED BY <1>2, <1>3, Zenon DEF EngineAre

\* The same of the rewrite, whose virtual inputs come one slot later.
LEMMA ReferenceSlots ==
  LET b == EngineReference
  IN  /\ b.inputs = EngineDigs /\ b.canInputs = EngineSenses /\ b.outputs = EngineOuts(1)
      /\ b.canOutputs = EngineCans(1)
      /\ b.flashers = << >> /\ b.counters = EngineCounts(1, Toggle(1, Vin(1), "rising"))
      /\ b.conditions = EngineConds
      /\ DOMAIN b.virtualInputs = 1..9 /\ b.virtualInputs[1] = Not(ENGINE_RUN)
      /\ \A i \in 1..8 : b.virtualInputs[i + 1] = EngineVins(1)[i]
<1> DEFINE b == EngineReference
           first == Not(ENGINE_RUN)
           seq == EngineVins(1)
<1>1. b = EngineWith(<<first>>, 1, Vin(1), "rising")
  BY Zenon DEF EngineReference
<1>2. PICK S : seq \in Seq(S) /\ Len(seq) = 8
  BY VinsListed
<1> HIDE DEF b, first, seq
<1>3. EngineAre(b, <<first>>, 1, Vin(1), "rising")
  BY <1>1, EngineLists, Zenon
<1>4. /\ DOMAIN (<<first>> \o seq) = 1..(Len(seq) + 1) /\ (<<first>> \o seq)[1] = first
      /\ \A i \in DOMAIN seq : (<<first>> \o seq)[i + 1] = seq[i]
  <2> DEFINE T == S \cup {first}
  <2>1. first \in T /\ seq \in Seq(T)
    BY <1>2
  <2> HIDE DEF T
  <2> QED BY <2>1, SlotBefore
<1>5. DOMAIN seq = 1..8 /\ Len(seq) + 1 = 9
  BY <1>2
<1>6. b.virtualInputs = <<first>> \o seq
  BY <1>3, Zenon DEF seq, EngineAre
<1>7. DOMAIN b.virtualInputs = 1..9 /\ b.virtualInputs[1] = first
      /\ \A i \in 1..8 : b.virtualInputs[i + 1] = seq[i]
  BY <1>4, <1>5, <1>6
<1> QED BY <1>3, <1>7, Zenon DEF b, first, seq, EngineAre

\* The rewrite of the engine stands for it.
LEMMA EngineStands ==
  ASSUME Runs(Engine)
  PROVE  SameProgram(Engine, EngineReference, EngineMap)
<1> DEFINE a == Engine
           b == EngineReference
           m == EngineMap
           ta == Toggle(0, ENGINE_RUN, "falling")
           tb == Toggle(1, Vin(1), "rising")
           first == Not(ENGINE_RUN)
<1>1. /\ a.inputs = EngineDigs /\ a.canInputs = EngineSenses /\ a.outputs = EngineOuts(0)
      /\ a.canOutputs = EngineCans(0) /\ a.virtualInputs = EngineVins(0)
      /\ a.flashers = << >> /\ a.counters = EngineCounts(0, ta) /\ a.conditions = EngineConds
  BY EngineSlots, Zenon
<1>2. /\ b.inputs = EngineDigs /\ b.canInputs = EngineSenses /\ b.outputs = EngineOuts(1)
      /\ b.canOutputs = EngineCans(1)
      /\ b.flashers = << >> /\ b.counters = EngineCounts(1, tb) /\ b.conditions = EngineConds
      /\ DOMAIN b.virtualInputs = 1..9 /\ b.virtualInputs[1] = first
      /\ \A i \in 1..8 : b.virtualInputs[i + 1] = EngineVins(1)[i]
  BY ReferenceSlots, Zenon
<1>3. DOMAIN m = VarMap(a) /\ \A x \in VarMap(a) : m[x] = Shifted(x)
  BY DEF EngineMap
<1>4. /\ ta.enabled /\ tb.enabled /\ ResetSettings(ta, tb)
      /\ ta.incInput = Vin(0 + 7) /\ tb.incInput = Vin(1 + 7)
      /\ ta.decInput = AlwaysFalse /\ tb.decInput = AlwaysFalse
      /\ ta.resetInput = ENGINE_RUN /\ tb.resetInput = Vin(1)
  BY DEF Toggle, Count, ResetSettings, SameSettings, Edges
<1>5. /\ first.enabled /\ first.not0 = TRUE /\ first.var0 = ENGINE_RUN /\ first.cond0 = "and"
      /\ first.not1 = FALSE /\ first.var1 = AlwaysTrue /\ first.var2 = AlwaysFalse
      /\ first.mode = "momentary"
  BY DEF Not, Both
<1>6. Runs(a)
  OBVIOUS
<1> HIDE DEF a, b, m, ta, tb, first
<1>7. /\ DOMAIN a.virtualInputs = 1..8 /\ DOMAIN a.outputs = 1..8 /\ DOMAIN b.outputs = 1..8
      /\ DOMAIN a.canOutputs = 1..3 /\ DOMAIN b.canOutputs = 1..3
      /\ DOMAIN a.counters = {1, 2, 3} /\ DOMAIN b.counters = {1, 2, 3}
      /\ a.counters[3] = ta /\ b.counters[3] = tb
  BY <1>1, <1>2, VinsRenamed, OutsRenamed, CansRenamed, CountsRenamed
<1>8. /\ DOMAIN a.flashers = {} /\ DOMAIN a.conditions = {1, 2, 3} /\ DOMAIN b.conditions = {1, 2, 3}
      /\ \A i \in {1, 2, 3} : a.conditions[i] = Cond(Ctr(i), "ge", 1) /\ b.conditions[i] = Cond(Ctr(i), "ge", 1)
  BY <1>1, <1>2 DEF EngineConds
<1>9. ASSUME NEW kind \in Logic, NEW i \in DOMAIN SlotsOf(kind, a), NEW x \in VarMap(a)
      PROVE  /\ x \in DOMAIN m /\ m[x] = Shifted(x)
             /\ kind # "virtIn" => (Fresh(kind, i, x) <=> Fresh(kind, i, Shifted(x)))
             /\ kind = "virtIn" => (Fresh(kind, i, x) <=> Fresh(kind, i + 1, Shifted(x)))
  <2>1. i \in Int
    BY <1>7, <1>8 DEF SlotsOf, Logic
  <2>2. ASSUME x[1] \in Logic PROVE x[2] \in Int
    <3>1. PICK k : k = x[1]
      OBVIOUS
    <3>2. x[2] \in DOMAIN SlotsOf(k, a)
      BY <2>2, <3>1, OwnSlots DEF Logic, Kinds
    <3> QED BY <1>7, <1>8, <2>2, <3>1, <3>2 DEF SlotsOf, Logic
  <2>3. /\ kind # "virtIn" => (Fresh(kind, i, x) <=> Fresh(kind, i, Shifted(x)))
        /\ kind = "virtIn" => (Fresh(kind, i, x) <=> Fresh(kind, i + 1, Shifted(x)))
    BY <2>1, <2>2, ShiftedFresh
  <2> QED BY <1>3, <2>3
<1>10. ASSUME NEW i \in 1..8 PROVE VirtInStands(a, b, m, i, i + 1)
  <2>1. PICK va, vb : /\ va = a.virtualInputs[i] /\ vb = b.virtualInputs[i + 1]
                      /\ Renamed(va, vb)
    BY <1>1, <1>2, VinsRenamed
  <2>2. va.enabled /\ vb.enabled /\ va.mode = vb.mode
    BY <2>1 DEF Renamed
  <2>3. vb.var0 = Shifted(va.var0) /\ vb.var1 = Shifted(va.var1) /\ vb.var2 = Shifted(va.var2)
    BY <2>1 DEF Renamed
  <2>4. i \in DOMAIN SlotsOf("virtIn", a) /\ "virtIn" \in Logic
    BY <1>7 DEF SlotsOf, Logic
  <2>5. va.var0 \in VarMap(a) /\ va.var1 \in VarMap(a) /\ va.var2 \in VarMap(a)
    BY <1>6, <1>7, <2>1, <2>2, ReferencesExist
  <2>6. \A x \in VarMap(a) : Alike(m, "virtIn", i, x, i + 1, Shifted(x))
    BY <1>9, <2>4 DEF Alike
  <2>7. SameLevels(va, vb)
    <3>1. (vb.var2 = AlwaysFalse) <=> (va.var2 = AlwaysFalse)
      BY <2>3, ShiftedKinds
    <3>2. /\ vb.not0 = va.not0 /\ vb.cond0 = va.cond0 /\ vb.not1 = va.not1
          /\ vb.cond1 = va.cond1 /\ vb.not2 = va.not2
      BY <2>1 DEF Renamed
    <3> QED BY <3>1, <3>2, SameTerms
  <2> QED BY <2>1, <2>2, <2>3, <2>5, <2>6, <2>7 DEF VirtInStands
<1>11. ASSUME NEW i \in {1, 2} PROVE CounterStands(a, b, m, i, i)
  <2>1. PICK ka, kb : ka = a.counters[i] /\ kb = b.counters[i] /\ CountRenamed(ka, kb)
    BY <1>1, <1>2, CountsRenamed
  <2>2. /\ ka.enabled /\ kb.enabled
        /\ SameSettings({"incEdge", "decEdge", "resetEdge", "minCount", "maxCount", "wrapAround",
                         "holdToReset", "resetTime"}, ka, kb)
        /\ kb.incInput = Shifted(ka.incInput) /\ kb.decInput = Shifted(ka.decInput)
        /\ kb.resetInput = Shifted(ka.resetInput)
    BY <2>1 DEF CountRenamed
  <2>3. i \in DOMAIN SlotsOf("counter", a) /\ "counter" \in Logic /\ i \in DOMAIN a.counters
    BY <1>7 DEF SlotsOf, Logic
  <2>4. ka.incInput \in VarMap(a) /\ ka.decInput \in VarMap(a) /\ ka.resetInput \in VarMap(a)
    BY <1>6, <2>1, <2>2, <2>3, ReferencesExist
  <2>5. \A x \in VarMap(a) : Alike(m, "counter", i, x, i, Shifted(x))
    BY <1>9, <2>3 DEF Alike
  <2> QED BY <2>1, <2>2, <2>4, <2>5 DEF CounterStands
<1>12. ResetRewritten(a, b, m, 3, 3)
  <2>1. a.counters[3] = ta /\ b.counters[3] = tb
    BY <1>7
  <2>2. 3 \in DOMAIN SlotsOf("counter", a) /\ "counter" \in Logic /\ 3 \in DOMAIN a.counters
    BY <1>7 DEF SlotsOf, Logic
  <2>3. Vin(0 + 7) \in VarMap(a) /\ ENGINE_RUN \in VarMap(a)
    BY <1>4, <1>6, <2>1, <2>2, ReferencesExist
  <2>4. Shifted(Vin(0 + 7)) = Vin(1 + 7) /\ Shifted(ENGINE_RUN) = ENGINE_RUN
    BY EngineShifted
  <2>5. Alike(m, "counter", 3, Vin(0 + 7), 3, Vin(1 + 7))
    BY <1>9, <2>2, <2>3, <2>4 DEF Alike
  <2>6. Gated(a, 3)
    <3>1. PICK v : v = a.virtualInputs[7] /\ v = And(Din(1), ENGINE_RUN)
      BY <1>1 DEF EngineVins
    <3>2. /\ v.enabled /\ v.mode = "momentary" /\ v.cond0 = "and" /\ v.var2 = AlwaysFalse
          /\ v.not1 = FALSE /\ v.var1 = ENGINE_RUN
      BY <3>1 DEF And, Both
    <3>3. Vin(0 + 7)[1] = "virtIn" /\ Vin(0 + 7)[2] = 7
      BY DEF Vin
    <3>4. ~Fresh("virtIn", 7, ENGINE_RUN) /\ ~Fresh("counter", 3, ENGINE_RUN)
      BY DEF Fresh, Later, ENGINE_RUN, Cnd
    <3>5. IsGate(v)
      BY <3>2 DEF IsGate
    <3> QED BY ZenonT(30), <1>4, <2>1, <3>1, <3>2, <3>3, <3>4, <3>5 DEF Gated
  <2>7. Negates(first) /\ first.mode = "momentary"
    BY <1>5 DEF Negates, ReadsFirst
  <2>8. Vin(1)[1] = "virtIn" /\ Vin(1)[2] = 1 /\ b.virtualInputs[1] = first
    BY <1>2 DEF Vin
  <2>9. Vin(1) \in VarMap(b)
    <3>1. 1 \in DOMAIN b.virtualInputs
      BY <1>2
    <3> QED BY <3>1 DEF VarMap, Slots, Vin
  <2>10. ~Fresh("counter", 3, ENGINE_RUN) /\ ~Fresh("virtIn", 1, ENGINE_RUN)
    BY DEF Fresh, Later, ENGINE_RUN, Cnd
  <2>11. ENGINE_RUN \in DOMAIN m /\ m[ENGINE_RUN] = ENGINE_RUN
    BY <1>3, <2>3, <2>4
  <2> QED BY <1>4, <1>5, <2>1, <2>5, <2>6, <2>7, <2>8, <2>9, <2>10, <2>11 DEF ResetRewritten
<1>13. ASSUME NEW i \in {1, 2, 3} PROVE ConditionStands(a, b, m, i, i)
  <2>1. a.conditions[i] = Cond(Ctr(i), "ge", 1) /\ b.conditions[i] = Cond(Ctr(i), "ge", 1)
    BY <1>8
  <2>2. Cond(Ctr(i), "ge", 1).enabled /\ Cond(Ctr(i), "ge", 1).input = Ctr(i)
    BY DEF Cond
  <2>3. Ctr(i) \in VarMap(a)
    BY <1>7 DEF VarMap, Slots, Ctr
  <2>4. m[Ctr(i)] = Ctr(i) /\ Ctr(i) \in DOMAIN m
    BY <1>3, <2>3 DEF Ctr, Shifted
  <2> QED BY <2>1, <2>2, <2>4 DEF ConditionStands, Alike, SameSettings
<1>14. OutputsStand(a, b, m)
  <2>1. ASSUME NEW i \in 1..8
        PROVE  /\ a.outputs[i].input \in DOMAIN m /\ b.outputs[i].input = m[a.outputs[i].input]
               /\ a.outputs[i].input[1] # "output" /\ b.outputs[i].enabled = a.outputs[i].enabled
               /\ a.outputs[i].input[1] \in Logic <=> b.outputs[i].input[1] \in Logic
    <3>1. PICK x : a.outputs[i] = Output(x) /\ b.outputs[i] = Output(Shifted(x)) /\ x[1] # "output"
      BY <1>1, <1>2, OutsRenamed
    <3>2. a.outputs[i].input = x /\ b.outputs[i].input = Shifted(x) /\ a.outputs[i].enabled
      BY <3>1 DEF Output
    <3>3. b.outputs[i].enabled = a.outputs[i].enabled
      BY <3>1 DEF Output
    <3>4. x \in VarMap(a)
      BY <1>6, <1>7, <3>2, ReferencesExist
    <3>5. Shifted(x)[1] = x[1]
      BY ShiftedKinds
    <3>6. x \in DOMAIN m /\ m[x] = Shifted(x)
      BY <1>3, <3>4
    <3> QED BY <3>1, <3>2, <3>3, <3>5, <3>6
  <2> QED BY <1>7, <2>1, Zenon DEF OutputsStand
<1>15. CanOutputsStand(a, b, m)
  <2>1. ASSUME NEW i \in 1..3
        PROVE  /\ b.canOutputs[i].enabled = a.canOutputs[i].enabled
               /\ Key(b.canOutputs[i]) = Key(a.canOutputs[i])
               /\ a.canOutputs[i].input \in DOMAIN m /\ b.canOutputs[i].input = m[a.canOutputs[i].input]
               /\ a.canOutputs[i].input[1] \in Logic <=> b.canOutputs[i].input[1] \in Logic
    <3>1. PICK id, bit, x : /\ a.canOutputs[i] = Transmit(id, bit, x)
                            /\ b.canOutputs[i] = Transmit(id, bit, Shifted(x))
      BY <1>1, <1>2, CansRenamed
    <3>2. a.canOutputs[i].input = x /\ b.canOutputs[i].input = Shifted(x) /\ a.canOutputs[i].enabled
      BY <3>1 DEF Transmit, CanOutput
    <3>3. b.canOutputs[i].enabled = a.canOutputs[i].enabled
      BY <3>1 DEF Transmit, CanOutput
    <3>4. x \in VarMap(a)
      <4>1. i \in {j \in DOMAIN a.canOutputs : a.canOutputs[j].enabled}
        BY <1>7, <3>2
      <4>2. x \in References(a)
        BY <3>2, <4>1, Zenon DEF References
      <4> QED BY <1>6, <4>2 DEF Runs, Accepted
    <3>5. Shifted(x)[1] = x[1]
      BY ShiftedKinds
    <3>6. x \in DOMAIN m /\ m[x] = Shifted(x)
      BY <1>3, <3>4
    <3>7. Key(b.canOutputs[i]) = Key(a.canOutputs[i])
      BY <3>1 DEF Transmit, CanOutput, Key
    <3> QED BY <3>2, <3>3, <3>5, <3>6, <3>7
  <2> QED BY <1>7, <2>1, Zenon DEF CanOutputsStand
<1>16. ASSUME NEW kind \in Logic PROVE StandsIn(a, b, m, kind)
  <2>1. CASE kind = "virtIn"
    <3>1. ASSUME NEW i \in 1..8
          PROVE  /\ m[<<kind, i>>] \in VarMap(b)
                 /\ Stands(a, b, m, <<kind, i>>, m[<<kind, i>>])
      <4>1. <<kind, i>> \in VarMap(a)
        BY <1>7, <2>1 DEF VarMap, Slots
      <4>2. m[<<kind, i>>] = <<kind, i + 1>>
        BY <1>3, <2>1, <4>1 DEF Shifted
      <4>3. <<kind, i + 1>> \in VarMap(b)
        BY <1>2, <2>1 DEF VarMap, Slots
      <4>4. VirtInStands(a, b, m, i, i + 1)
        BY <1>10
      <4> QED BY <2>1, <4>2, <4>3, <4>4 DEF Stands
    <3>2. DOMAIN SlotsOf(kind, a) = 1..8
      BY <1>7, <2>1 DEF SlotsOf
    <3> QED BY <3>1, <3>2 DEF StandsIn
  <2>2. ASSUME kind # "virtIn", NEW i \in {1, 2, 3}, <<kind, i>> \in VarMap(a)
        PROVE  m[<<kind, i>>] = <<kind, i>>
    BY <1>3, <2>2 DEF Shifted
  <2>3. CASE kind = "counter"
    <3>1. ASSUME NEW i \in {1, 2, 3}
          PROVE  m[<<kind, i>>] \in VarMap(b) /\ Stands(a, b, m, <<kind, i>>, m[<<kind, i>>])
      <4>1. <<kind, i>> \in VarMap(a) /\ <<kind, i>> \in VarMap(b)
        BY <1>7, <2>3 DEF VarMap, Slots
      <4>2. CounterStands(a, b, m, i, i) \/ ResetRewritten(a, b, m, i, i)
        BY <1>11, <1>12
      <4> QED BY <2>2, <2>3, <4>1, <4>2 DEF Stands
    <3>2. DOMAIN SlotsOf(kind, a) = {1, 2, 3}
      BY <1>7, <2>3 DEF SlotsOf
    <3> QED BY <3>1, <3>2 DEF StandsIn
  <2>4. CASE kind = "condition"
    <3>1. ASSUME NEW i \in {1, 2, 3}
          PROVE  m[<<kind, i>>] \in VarMap(b) /\ Stands(a, b, m, <<kind, i>>, m[<<kind, i>>])
      <4>1. <<kind, i>> \in VarMap(a) /\ <<kind, i>> \in VarMap(b)
        BY <1>8, <2>4 DEF VarMap, Slots
      <4>2. ConditionStands(a, b, m, i, i)
        BY <1>13
      <4> QED BY <2>2, <2>4, <4>1, <4>2 DEF Stands
    <3>2. DOMAIN SlotsOf(kind, a) = {1, 2, 3}
      BY <1>8, <2>4 DEF SlotsOf
    <3> QED BY <3>1, <3>2 DEF StandsIn
  <2>5. CASE kind = "flasher"
    <3>1. DOMAIN SlotsOf(kind, a) = {}
      BY <1>8, <2>5 DEF SlotsOf
    <3> QED BY <3>1 DEF StandsIn
  <2> QED BY <2>1, <2>3, <2>4, <2>5 DEF Logic
<1>17. SameProgram(a, b, m)
  <2>1. b.inputs = a.inputs /\ b.canInputs = a.canInputs /\ DOMAIN m \subseteq VarMap(a)
    BY <1>1, <1>2, <1>3
  <2>2. \A x \in DOMAIN m : x[1] \notin Logic => m[x] = x
    BY <1>3 DEF Shifted, Logic
  <2> QED BY <1>14, <1>15, <1>16, <2>1, <2>2, ProgramStands
<1> QED BY <1>17 DEF a, b, m

-----------------------------------------------------------------------------
\* the pairs that are compared cycle by cycle are those of the repository
OnlyDocumented == \A p \in Pairs : p.tolerance = 0 => p \in SamePrograms

\* They all differ by such changes only.
LEMMA DocumentedRewrites == OnlyDocumented => Rewrites
<1> SUFFICES ASSUME OnlyDocumented, NEW p \in Pairs, p.tolerance = 0
             PROVE  \E m : SameProgram(p.a, p.b, m)
  BY DEF Rewrites
<1>1. p \in SamePrograms
  BY DEF OnlyDocumented
<1>2. Runs(p.a)
  BY PairsAccepted
<1>3. CASE p = Exactly(Engine, EngineReference)
  <2>1. p.a = Engine /\ p.b = EngineReference
    BY <1>3 DEF Exactly, Within
  <2> QED BY <1>2, <2>1, EngineStands
<1>4. CASE p = Exactly(LightsDeployed, LightsRewrite)
  <2>1. p.a = LightsDeployed /\ p.b = LightsRewrite
    BY <1>4 DEF Exactly, Within
  <2> QED BY <2>1, LightsStand
<1>5. CASE p = Exactly(NandRight, NandReference)
  <2>1. p.a = NandRight /\ p.b = NandReference
    BY <1>5 DEF Exactly, Within
  <2> QED BY <2>1, NandStands
<1>6. CASE p = Exactly(WrapToggle, LatchToggle)
  <2>1. p.a = WrapToggle /\ p.b = LatchToggle
    BY <1>6 DEF Exactly, Within
  <2> QED BY <2>1, ToggleStands
<1> QED BY <1>1, <1>3, <1>4, <1>5, <1>6 DEF SamePrograms

\* Equivalent holds of the pairs that the repository calls equivalent, whatever the times
\* of their time-outs, debouncing and frames: each of them shows the same signals with
\* the same values on every cycle (compare; corpus/README.md on the rewrites).
THEOREM DocumentedPairsPass ==
  ASSUME OnlyDocumented
  PROVE  Spec => []Equivalent
<1>1. Rewrites
  BY DocumentedRewrites
<1> QED BY <1>1, RewritesPass

-----------------------------------------------------------------------------
(* The relays: a lamp behind virtual inputs that only pass a level on.     *)

lamp == <<"output", 1>>
Shown == <<"out", 1>>

\* a configuration with three CAN inputs, of which x drives the only output
Lamps(c, vins, x) ==
  /\ c.outputs = <<Output(x)>> /\ c.canOutputs = << >> /\ c.virtualInputs = vins
  /\ {1, 2, 3} = DOMAIN c.canInputs

\* two of them that hear the same, and the first of their CAN inputs never times out
Deathless(a, b) == b.canInputs = a.canInputs /\ a.canInputs[1].timeoutEnabled = FALSE

\* Without its time-out the first CAN input is the same in both.
LEMMA NoTimeoutLamp ==
  ASSUME NEW vins, NEW x, NEW c, c = NoTimeout(Lamp(vins, x))
  PROVE  /\ Lamps(c, vins, x) /\ c.canInputs[1].timeoutEnabled = FALSE
         /\ c.canInputs = NoTimeout(Lamp(<< >>, AlwaysFalse)).canInputs
<1> DEFINE cans == <<Board(1), Board(2), Board(3)>>
           deaf == [cans EXCEPT ![1] = [@ EXCEPT !.timeoutEnabled = FALSE]]
<1>1. ASSUME NEW vs, NEW y
      PROVE  LET l == Lamp(vs, y)
             IN  /\ NoTimeout(l).outputs = <<Output(y)>> /\ NoTimeout(l).canOutputs = << >>
                 /\ NoTimeout(l).virtualInputs = vs /\ NoTimeout(l).canInputs = deaf
  <2> DEFINE out == <<Output(y)>>
  <2>1. Lamp(vs, y) = [inputs |-> << >>, canInputs |-> cans, outputs |-> out, canOutputs |-> << >>,
                       virtualInputs |-> vs, flashers |-> << >>, counters |-> << >>, conditions |-> << >>]
    <3>1. Lamp(vs, y) = [Empty EXCEPT !.canInputs = cans, !.virtualInputs = vs, !.outputs = out]
      BY Zenon DEF Lamp
    <3> HIDE DEF cans, out
    <3> QED BY <3>1 DEF Empty
  <2>2. ASSUME NEW l, NEW off, off = deaf, l = Lamp(vs, y)
        PROVE [l EXCEPT !.canInputs = off] = [inputs |-> << >>, canInputs |-> off, outputs |-> out,
              canOutputs |-> << >>, virtualInputs |-> vs, flashers |-> << >>, counters |-> << >>,
              conditions |-> << >>]
    <3> HIDE DEF cans, out, deaf
    <3> QED BY <2>1, <2>2
  <2>3. NoTimeout(Lamp(vs, y)) = [Lamp(vs, y) EXCEPT !.canInputs = deaf]
    <3>1. Lamp(vs, y).canInputs = cans
      <4> HIDE DEF cans, out
      <4> QED BY <2>1
    <3> QED BY <3>1, Zenon DEF NoTimeout
  <2> HIDE DEF cans, deaf, out
  <2>4. NoTimeout(Lamp(vs, y)) = [inputs |-> << >>, canInputs |-> deaf, outputs |-> out,
              canOutputs |-> << >>, virtualInputs |-> vs, flashers |-> << >>, counters |-> << >>,
              conditions |-> << >>]
    BY <2>2, <2>3
  <2> QED BY <2>4 DEF out
<1>2. DOMAIN deaf = {1, 2, 3} /\ deaf[1].timeoutEnabled = FALSE
  <2>1. cans \in [{1, 2, 3} -> {Board(1), Board(2), Board(3)}]
    OBVIOUS
  <2>2. cans[1] = Board(1)
    OBVIOUS
  <2> HIDE DEF cans
  <2>3. DOMAIN deaf = {1, 2, 3} /\ deaf[1] = [Board(1) EXCEPT !.timeoutEnabled = FALSE]
    BY <2>1, <2>2
  <2>4. [Board(1) EXCEPT !.timeoutEnabled = FALSE].timeoutEnabled = FALSE
    BY DEF Board, Switch, CanInput
  <2> QED BY <2>3, <2>4
<1> HIDE DEF deaf
<1>3. /\ c.outputs = <<Output(x)>> /\ c.canOutputs = << >> /\ c.virtualInputs = vins /\ c.canInputs = deaf
  BY <1>1, ZenonT(30)
<1>4. NoTimeout(Lamp(<< >>, AlwaysFalse)).canInputs = deaf
  BY <1>1, Zenon
<1>5. Lamps(c, vins, x)
  BY <1>2, <1>3, Zenon DEF Lamps
<1> QED BY <1>2, <1>3, <1>4, <1>5, Zenon

\* A virtual input that passes on.
LEMMA PassFollows ==
  ASSUME NEW x, NEW v, v = Pass(x)
  PROVE  Follows(v) /\ v.mode = "momentary" /\ v.var0 = x
BY DEF Pass, And, Both, Follows, ReadsFirst

\* The four configurations.
LEMMA RelaySlots ==
  /\ Lamps(Direct, << >>, Cin(1)) /\ Lamps(Relayed, <<Pass(Cin(1))>>, Vin(1)) /\ Deathless(Direct, Relayed)
  /\ Lamps(Forward, <<Pass(Cin(1)), Pass(Vin(1))>>, Vin(2))
  /\ Lamps(Backward, <<Pass(Vin(2)), Pass(Cin(1))>>, Vin(1))
  /\ Backward.canInputs = Forward.canInputs
<1>1. ASSUME NEW vins, NEW x, NEW c, c = Lamp(vins, x)
      PROVE  Lamps(c, vins, x) /\ c.canInputs = <<Board(1), Board(2), Board(3)>>
  <2>1. /\ c.outputs = <<Output(x)>> /\ c.canOutputs = << >> /\ c.virtualInputs = vins
        /\ c.canInputs = <<Board(1), Board(2), Board(3)>>
    BY <1>1, LampLists
  <2>2. {1, 2, 3} = DOMAIN c.canInputs
    BY <2>1
  <2> QED BY <2>1, <2>2 DEF Lamps
<1>2. /\ Lamps(Forward, <<Pass(Cin(1)), Pass(Vin(1))>>, Vin(2))
      /\ Lamps(Backward, <<Pass(Vin(2)), Pass(Cin(1))>>, Vin(1))
      /\ Backward.canInputs = Forward.canInputs
  BY <1>1 DEF Forward, Backward
<1>3. Lamps(Direct, << >>, Cin(1)) /\ Direct.canInputs[1].timeoutEnabled = FALSE
      /\ Direct.canInputs = NoTimeout(Lamp(<< >>, AlwaysFalse)).canInputs
  BY NoTimeoutLamp DEF Direct
<1>4. Lamps(Relayed, <<Pass(Cin(1))>>, Vin(1))
      /\ Relayed.canInputs = NoTimeout(Lamp(<< >>, AlwaysFalse)).canInputs
  BY NoTimeoutLamp DEF Relayed
<1> QED BY <1>2, <1>3, <1>4 DEF Deathless

\* What an output shows that reads a virtual input: what the last cycle made of it.
LEMMA LampCycled ==
  ASSUME NEW c, Runs(c), NEW s, Tidy(c, s), NEW pins, NEW rx, NEW t, t = Step(c, s, pins, rx),
         NEW vins, NEW x, Lamps(c, vins, x), x[1] \in {"virtIn", "canIn"}
  PROVE  t.var[lamp] = Value(Level(Receive(c, s, rx).var[x]))
<1>1. Shape(c, s)
  BY DEF Tidy
<1>2. 1 \in DOMAIN c.outputs /\ c.outputs[1] = Output(x)
  BY DEF Lamps
<1>3. c.outputs[1].enabled /\ c.outputs[1].input = x
  BY <1>2 DEF Output
<1>4. t.var[<<"output", 1>>] = IF c.outputs[1].enabled THEN Value(Level(Receive(c, s, rx).var[x])) ELSE 0
  BY <1>1, <1>2, <1>3, CycleDrives
<1> QED BY <1>3, <1>4 DEF lamp

LEMMA VirtualLamp ==
  ASSUME NEW c, Runs(c), NEW s, Tidy(c, s), NEW pins, NEW rx, NEW t, t = Step(c, s, pins, rx),
         NEW vins, NEW n \in DOMAIN vins, Lamps(c, vins, Vin(n)), s.var[Vin(n)] \in {0, 1}
  PROVE  t.var[lamp] = s.var[Vin(n)]
<1>1. Vin(n) \in VarMap(c) /\ Vin(n)[1] = "virtIn"
  BY DEF VarMap, Slots, Lamps, Vin
<1>2. Receive(c, s, rx).var[Vin(n)] = s.var[Vin(n)]
  <2>1. Shape(c, s)
    BY DEF Tidy
  <2> QED BY <1>1, <2>1, ReceiveKeeps
<1>3. t.var[lamp] = Value(Level(Receive(c, s, rx).var[Vin(n)]))
  BY <1>1, LampCycled
<1> QED BY <1>2, <1>3 DEF Value, Level

LEMMA SensedLamp ==
  ASSUME NEW c, Runs(c), NEW s, Tidy(c, s), NEW pins, NEW rx, NEW t, t = Step(c, s, pins, rx),
         Lamps(c, << >>, Cin(1)), c.canInputs[1].timeoutEnabled = FALSE
  PROVE  t.var[lamp] = t.var[Cin(1)]
<1>1. Shape(c, s) /\ 1 \in DOMAIN c.canInputs /\ Cin(1) = <<"canIn", 1>>
  BY DEF Tidy, Lamps, Cin
<1> DEFINE slot  == c.canInputs[1]
           heard == 1 \in Heard(c, rx)
           value == DecodeFloat(slot, rx[slot.id])
           latch == CanLatch(slot, s.cinLatch[1], rx[slot.id])
           age   == IF heard THEN 0 ELSE s.cinAge[1]
           out   == slot.enabled /\ slot.timeoutEnabled /\ age > slot.timeout
           r     == Receive(c, s, rx)
<1>2. /\ t.var[<<"canVal", 1>>] = IF out THEN 0 ELSE IF heard THEN value ELSE s.var[<<"canVal", 1>>]
      /\ t.var[<<"canIn", 1>>] = IF out THEN 0 ELSE IF heard THEN Value(latch.out) ELSE s.var[<<"canIn", 1>>]
      /\ t.cinLatch[1] = IF heard THEN latch ELSE s.cinLatch[1]
      /\ t.cinAge[1] = IF slot.timeoutEnabled THEN Older(age, CycleMs, MaxAge) ELSE 0
  BY <1>1, CycleCanIn
<1>3. ~out
  OBVIOUS
<1>4. r.var[<<"canIn", 1>>] = IF heard THEN Value(latch.out) ELSE s.var[<<"canIn", 1>>]
  <2>1. Taken(c, s, rx, r)
    BY <1>1, FramesTaken
  <2> HIDE DEF r
  <2> QED BY <1>1, <2>1 DEF Taken
<1>5. t.var[lamp] = Value(Level(r.var[Cin(1)]))
  BY <1>1, LampCycled
<1>6. t.var[<<"canIn", 1>>] \in {0, 1}
  <2>1. Tidy(c, t)
    BY NextTidy
  <2> QED BY <1>1, <2>1 DEF Tidy
<1> HIDE DEF out, r, heard, latch
<1> QED BY <1>1, <1>2, <1>3, <1>4, <1>5, <1>6 DEF Value, Level

\* A virtual input that passes on a CAN input, or the one of another slot.
LEMMA PassCycled ==
  ASSUME NEW c, Runs(c), NEW s, Tidy(c, s), NEW pins, NEW rx, NEW t, t = Step(c, s, pins, rx),
         NEW i \in DOMAIN c.virtualInputs, NEW x, c.virtualInputs[i] = Pass(x),
         Reading("virtIn", i, s, t, x) \in {0, 1}
  PROVE  t.var[Vin(i)] = Reading("virtIn", i, s, t, x)
<1>1. PICK v, x0 : v = c.virtualInputs[i] /\ x0 = Reading("virtIn", i, s, t, v.var0)
  OBVIOUS
<1>2. Follows(v) /\ v.mode = "momentary" /\ v.var0 = x
  BY <1>1, PassFollows
<1>3. ReadsFirst(v)
  BY <1>2 DEF Follows
<1>4. Cycled(c, s, t) /\ Tidy(c, t)
  <2>1. Shape(c, s)
    BY DEF Tidy
  <2> QED BY <2>1, NextTidy DEF Cycled
<1>5. /\ Follows(v) => t.var[<<"virtIn", i>>] = IF x0 = 0 THEN 0 ELSE 1
      /\ Negates(v) => t.var[<<"virtIn", i>>] = IF x0 = 0 THEN 1 ELSE 0
  BY <1>1, <1>2, <1>3, <1>4, MomentaryCycled
<1> QED BY <1>1, <1>2, <1>5 DEF Vin

\* what the virtual inputs of a pair hold between two cycles: the one that drives the lamp
\* of b holds what the lamp of a shows
RelayHolds(a, b, s, t) ==
  /\ t.var[Vin(1)] = s.var[lamp] /\ s.var[lamp] \in {0, 1}
  /\ \/ /\ a = Direct /\ b = Relayed
        /\ s.var[lamp] = s.var[Cin(1)]
     \/ /\ a = Forward /\ b = Backward
        /\ s.var[Vin(2)] = s.var[Cin(1)] /\ t.var[Vin(2)] = t.var[Cin(1)]

\* A lamp behind one virtual input that passes on the CAN input of the other.
LEMMA RelayedTurn ==
  ASSUME NEW s, NEW t, NEW s1, NEW t1, Together(Direct, Relayed, s, t, s1, t1),
         s.var[lamp] = s.var[Cin(1)], t.var[Vin(1)] = s.var[lamp]
  PROVE  /\ s1.var[lamp] = s1.var[Cin(1)] /\ t1.var[Vin(1)] = s1.var[lamp]
         /\ t1.var[lamp] = s.var[lamp]
<1> DEFINE a == Direct
           b == Relayed
<1>1. PICK pins, rx : s1 = Step(a, s, pins, rx) /\ t1 = Step(b, t, pins, rx)
  BY DEF Together
<1>2. Runs(a) /\ Runs(b) /\ Tidy(a, s) /\ Tidy(b, t)
  BY DEF Together
<1>3. Lamps(a, << >>, Cin(1)) /\ Lamps(b, <<Pass(Cin(1))>>, Vin(1)) /\ Deathless(a, b)
  BY RelaySlots
<1> HIDE DEF a, b
<1>4. /\ 1 \in DOMAIN a.canInputs /\ Cin(1) = <<"canIn", 1>>
      /\ 1 \in DOMAIN b.virtualInputs /\ b.virtualInputs[1] = Pass(Cin(1))
  BY <1>3 DEF Lamps, Cin
<1>5. HeardAlike(a, s1, t1) /\ Tidy(a, s1)
  <2>1. HeardAlike(a, s1, t1)
    BY HeardStays DEF a, b
  <2> QED BY <1>1, <1>2, <2>1, NextTidy
<1>6. t1.var[Cin(1)] = s1.var[Cin(1)] /\ s1.var[Cin(1)] \in {0, 1} /\ s.var[Cin(1)] \in {0, 1}
  <2>1. t1.var[Cin(1)] = s1.var[Cin(1)]
    BY <1>4, <1>5, Zenon DEF HeardAlike
  <2>2. s1.var[Cin(1)] \in {0, 1} /\ s.var[Cin(1)] \in {0, 1}
    BY <1>2, <1>4, <1>5 DEF Tidy
  <2> QED BY <2>1, <2>2
<1>7. s1.var[lamp] = s1.var[Cin(1)]
  <2>1. a.canInputs[1].timeoutEnabled = FALSE
    BY <1>3 DEF Deathless
  <2> QED BY <1>1, <1>2, <1>3, <2>1, SensedLamp
<1>8. Reading("virtIn", 1, t, t1, Cin(1)) = t1.var[Cin(1)]
  BY DEF Reading, Later, Cin
<1>9. t1.var[Vin(1)] = t1.var[Cin(1)]
  BY <1>1, <1>2, <1>4, <1>6, <1>8, PassCycled
<1>10. t1.var[lamp] = t.var[Vin(1)]
  <2>1. 1 \in DOMAIN <<Pass(Cin(1))>> /\ t.var[Vin(1)] \in {0, 1}
    BY <1>6
  <2> QED BY <1>1, <1>2, <1>3, <2>1, VirtualLamp
<1> QED BY <1>6, <1>7, <1>9, <1>10

\* A lamp behind two of them, in the order of their slots and against it.
LEMMA BackwardTurn ==
  ASSUME NEW s, NEW t, NEW s1, NEW t1, Together(Forward, Backward, s, t, s1, t1),
         s.var[Vin(2)] = s.var[Cin(1)], t.var[Vin(2)] = t.var[Cin(1)], t.var[Vin(1)] = s.var[lamp],
         s.var[lamp] \in {0, 1}
  PROVE  /\ s1.var[Vin(2)] = s1.var[Cin(1)] /\ t1.var[Vin(2)] = t1.var[Cin(1)]
         /\ t1.var[Vin(1)] = s1.var[lamp] /\ t1.var[lamp] = s.var[lamp] /\ s1.var[lamp] \in {0, 1}
<1> DEFINE a == Forward
           b == Backward
           Ahead == <<Pass(Cin(1)), Pass(Vin(1))>>
           Behind == <<Pass(Vin(2)), Pass(Cin(1))>>
<1>1. PICK pins, rx : s1 = Step(a, s, pins, rx) /\ t1 = Step(b, t, pins, rx)
  BY DEF Together
<1>2. Runs(a) /\ Runs(b) /\ Tidy(a, s) /\ Tidy(b, t) /\ HeardAlike(a, s, t)
  BY DEF Together
<1>3. Lamps(a, Ahead, Vin(2)) /\ Lamps(b, Behind, Vin(1)) /\ b.canInputs = a.canInputs
  BY RelaySlots
<1> HIDE DEF a, b
<1>4. /\ 1 \in DOMAIN a.canInputs /\ 1 \in DOMAIN b.canInputs /\ Cin(1) = <<"canIn", 1>>
      /\ 1 \in DOMAIN a.virtualInputs /\ a.virtualInputs[1] = Pass(Cin(1))
      /\ 2 \in DOMAIN a.virtualInputs /\ a.virtualInputs[2] = Pass(Vin(1))
      /\ 1 \in DOMAIN b.virtualInputs /\ b.virtualInputs[1] = Pass(Vin(2))
      /\ 2 \in DOMAIN b.virtualInputs /\ b.virtualInputs[2] = Pass(Cin(1))
  BY <1>3 DEF Lamps, Cin
<1>5. Tidy(a, s1) /\ Tidy(b, t1)
  BY <1>1, <1>2, NextTidy
<1>6. /\ s1.var[Cin(1)] \in {0, 1} /\ t1.var[Cin(1)] \in {0, 1}
      /\ s.var[Cin(1)] \in {0, 1} /\ t.var[Cin(1)] = s.var[Cin(1)]
  <2>1. s1.var[Cin(1)] \in {0, 1} /\ s.var[Cin(1)] \in {0, 1} /\ t1.var[Cin(1)] \in {0, 1}
    BY <1>2, <1>4, <1>5 DEF Tidy
  <2>2. t.var[Cin(1)] = s.var[Cin(1)]
    BY <1>2, <1>4, Zenon DEF HeardAlike
  <2> QED BY <2>1, <2>2
<1>7. s1.var[Vin(1)] = s1.var[Cin(1)]
  <2>1. Reading("virtIn", 1, s, s1, Cin(1)) = s1.var[Cin(1)]
    BY DEF Reading, Later, Cin
  <2> QED BY <1>1, <1>2, <1>4, <1>6, <2>1, PassCycled
<1>8. s1.var[Vin(2)] = s1.var[Vin(1)]
  <2>1. Reading("virtIn", 2, s, s1, Vin(1)) = s1.var[Vin(1)]
    BY DEF Reading, Later, Vin
  <2> QED BY <1>1, <1>2, <1>4, <1>6, <1>7, <2>1, PassCycled
<1>9. t1.var[Vin(1)] = t.var[Vin(2)]
  <2>1. Reading("virtIn", 1, t, t1, Vin(2)) = t.var[Vin(2)]
    BY DEF Reading, Later, Vin
  <2>2. t.var[Vin(2)] \in {0, 1}
    BY <1>6
  <2> QED BY <1>1, <1>2, <1>4, <2>1, <2>2, PassCycled
<1>10. t1.var[Vin(2)] = t1.var[Cin(1)]
  <2>1. Reading("virtIn", 2, t, t1, Cin(1)) = t1.var[Cin(1)]
    BY DEF Reading, Later, Cin
  <2> QED BY <1>1, <1>2, <1>4, <1>6, <2>1, PassCycled
<1>11. s1.var[lamp] = s.var[Vin(2)]
  <2>1. 2 \in DOMAIN Ahead /\ s.var[Vin(2)] \in {0, 1}
    BY <1>6
  <2> HIDE DEF Ahead
  <2> QED BY <1>1, <1>2, <1>3, <2>1, VirtualLamp
<1>12. t1.var[lamp] = t.var[Vin(1)]
  <2>1. 1 \in DOMAIN Behind /\ t.var[Vin(1)] \in {0, 1}
    OBVIOUS
  <2> HIDE DEF Behind
  <2> QED BY <1>1, <1>2, <1>3, <2>1, VirtualLamp
<1> QED BY <1>6, <1>7, <1>8, <1>9, <1>10, <1>11, <1>12

\* A cycle keeps that, and shows of b what a showed before it.
LEMMA RelayTurn ==
  ASSUME NEW a, NEW b, NEW s, NEW t, NEW s1, NEW t1, Together(a, b, s, t, s1, t1), RelayHolds(a, b, s, t)
  PROVE  RelayHolds(a, b, s1, t1) /\ t1.var[lamp] = s.var[lamp]
<1>1. t.var[Vin(1)] = s.var[lamp] /\ s.var[lamp] \in {0, 1}
  BY DEF RelayHolds
<1>2. CASE a = Direct /\ b = Relayed /\ s.var[lamp] = s.var[Cin(1)]
  <2>1. /\ s1.var[lamp] = s1.var[Cin(1)] /\ t1.var[Vin(1)] = s1.var[lamp]
        /\ t1.var[lamp] = s.var[lamp]
    BY <1>1, <1>2, RelayedTurn
  <2>2. s1.var[Cin(1)] \in {0, 1}
    <3>1. Tidy(a, s1)
      BY NextTidy DEF Together
    <3>2. 1 \in DOMAIN a.canInputs /\ Cin(1) = <<"canIn", 1>>
      BY <1>2, RelaySlots DEF Lamps, Cin
    <3> QED BY <3>1, <3>2 DEF Tidy
  <2> QED BY <1>2, <2>1, <2>2 DEF RelayHolds
<1>3. CASE a = Forward /\ b = Backward /\ s.var[Vin(2)] = s.var[Cin(1)] /\ t.var[Vin(2)] = t.var[Cin(1)]
  <2>1. /\ s1.var[Vin(2)] = s1.var[Cin(1)] /\ t1.var[Vin(2)] = t1.var[Cin(1)]
        /\ t1.var[Vin(1)] = s1.var[lamp] /\ t1.var[lamp] = s.var[lamp] /\ s1.var[lamp] \in {0, 1}
    BY <1>1, <1>3, BackwardTurn
  <2> QED BY <1>3, <2>1 DEF RelayHolds
<1> QED BY <1>2, <1>3 DEF RelayHolds

\* the pairs of Relays, compared at any tolerance but 0
Relay(p) == \E q \in Relays : p.a = q.a /\ p.b = q.b

\* Both of such a pair have the three CAN inputs and the lamp.
LEMMA RelayPairs ==
  ASSUME NEW p, Relay(p)
  PROVE  /\ (p.a = Direct /\ p.b = Relayed) \/ (p.a = Forward /\ p.b = Backward)
         /\ \E vins, x : Lamps(p.a, vins, x)
         /\ \E vins, x : Lamps(p.b, vins, x)
         /\ p.b.canInputs = p.a.canInputs
<1>1. CASE p.a = Within(1, Direct, Relayed).a /\ p.b = Within(1, Direct, Relayed).b
  <2>1. p.a = Direct /\ p.b = Relayed
    BY <1>1 DEF Within
  <2> QED BY <2>1, RelaySlots DEF Deathless
<1>2. CASE p.a = Within(2, Forward, Backward).a /\ p.b = Within(2, Forward, Backward).b
  <2>1. p.a = Forward /\ p.b = Backward
    BY <1>2 DEF Within
  <2> QED BY <2>1, RelaySlots
<1> QED BY <1>1, <1>2 DEF Relay, Relays

\* From power-on.
LEMMA InitRelay ==
  ASSUME NEW p, Relay(p), NEW s, NEW t, s = SimInit(p.a), t = SimInit(p.b)
  PROVE  HeardAlike(p.a, s, t) /\ RelayHolds(p.a, p.b, s, t)
<1>1. p.b.canInputs = p.a.canInputs
  BY RelayPairs
<1>2. HeardAlike(p.a, s, t)
  <2> SUFFICES ASSUME NEW i \in DOMAIN p.a.canInputs
               PROVE  /\ t.cinAge[i] = s.cinAge[i] /\ t.cinLatch[i] = s.cinLatch[i]
                      /\ t.var[<<"canIn", i>>] = s.var[<<"canIn", i>>]
                      /\ t.var[<<"canVal", i>>] = s.var[<<"canVal", i>>]
    BY Zenon DEF HeardAlike
  <2>1. t.cinAge[i] = s.cinAge[i] /\ t.cinLatch[i] = s.cinLatch[i]
    BY <1>1 DEF SimInit
  <2>2. \A x \in {<<"canIn", i>>, <<"canVal", i>>} : x \in VarMap(p.a) /\ x \in VarMap(p.b) /\ x # AlwaysTrue
    BY <1>1 DEF VarMap, Slots, AlwaysTrue
  <2>3. /\ \A x \in VarMap(p.a) : s.var[x] = IF x = AlwaysTrue THEN 1 ELSE 0
        /\ \A x \in VarMap(p.b) : t.var[x] = IF x = AlwaysTrue THEN 1 ELSE 0
    BY DEF SimInit, Value
  <2> QED BY <2>1, <2>2, <2>3
<1>3. RelayHolds(p.a, p.b, s, t)
  <2> DEFINE Quiet(c, q, xs) == \A x \in xs : x \in VarMap(c) /\ q.var[x] = 0
  <2>1. ASSUME NEW c, NEW q, q = SimInit(c), NEW vins, NEW x, Lamps(c, vins, x)
        PROVE  Quiet(c, q, {lamp, Cin(1)} \cup {Vin(n) : n \in DOMAIN vins})
    <3>1. \A y \in {lamp, Cin(1)} \cup {Vin(n) : n \in DOMAIN vins} : y \in VarMap(c) /\ y # AlwaysTrue
      BY <2>1 DEF Lamps, VarMap, Slots, lamp, Cin, Vin, AlwaysTrue
    <3>2. \A y \in VarMap(c) : q.var[y] = IF y = AlwaysTrue THEN 1 ELSE 0
      BY <2>1 DEF SimInit, Value
    <3> QED BY <3>1, <3>2
  <2>2. CASE p.a = Direct /\ p.b = Relayed
    <3>1. Lamps(p.a, << >>, Cin(1)) /\ Lamps(p.b, <<Pass(Cin(1))>>, Vin(1))
      BY <2>2, RelaySlots
    <3>2. s.var[lamp] = 0 /\ s.var[Cin(1)] = 0
      BY <2>1, <3>1
    <3>3. t.var[Vin(1)] = 0
      <4>1. 1 \in DOMAIN <<Pass(Cin(1))>>
        OBVIOUS
      <4> QED BY <2>1, <3>1, <4>1
    <3> QED BY <2>2, <3>2, <3>3 DEF RelayHolds
  <2>3. CASE p.a = Forward /\ p.b = Backward
    <3> DEFINE Ahead == <<Pass(Cin(1)), Pass(Vin(1))>>
               Behind == <<Pass(Vin(2)), Pass(Cin(1))>>
    <3>1. Lamps(p.a, Ahead, Vin(2)) /\ Lamps(p.b, Behind, Vin(1))
      BY <2>3, RelaySlots
    <3>2. 2 \in DOMAIN Ahead /\ 1 \in DOMAIN Behind /\ 2 \in DOMAIN Behind
      OBVIOUS
    <3> HIDE DEF Ahead, Behind
    <3>3. s.var[lamp] = 0 /\ s.var[Cin(1)] = 0 /\ s.var[Vin(2)] = 0
      BY <2>1, <3>1, <3>2
    <3>4. t.var[Vin(1)] = 0 /\ t.var[Vin(2)] = 0 /\ t.var[Cin(1)] = 0
      BY <2>1, <3>1, <3>2
    <3> QED BY <2>3, <3>3, <3>4 DEF RelayHolds
  <2> QED BY <2>2, <2>3, RelayPairs
<1> QED BY <1>2, <1>3

\* What such a device shows.
LEMMA LampShown ==
  ASSUME NEW c, NEW vins, NEW x, Lamps(c, vins, x), NEW s
  PROVE  Observe(c, s) = [p \in {Shown} |-> s.var[lamp]]
<1> DEFINE shown == {i \in DOMAIN c.canOutputs : c.canOutputs[i].enabled}
           seen(p) == Max({i \in shown : Key(c.canOutputs[i]) = p})
           places == {<<"out", i>> : i \in DOMAIN c.outputs} \cup {Key(c.canOutputs[i]) : i \in shown}
           value(p) == IF p[1] = "out" THEN s.var[<<"output", p[2]>>] ELSE s.sample[seen(p)]
<1>1. Observe(c, s) = [p \in places |-> value(p)]
  BY DEF Observe
<1>2. shown = {} /\ DOMAIN c.outputs = {1}
  BY DEF Lamps
<1>3. places = {Shown}
  BY <1>2 DEF Shown
<1>4. value(Shown) = s.var[lamp]
  BY DEF Shown, lamp
<1> HIDE DEF places, value
<1> QED BY <1>1, <1>3, <1>4

\* The first n elements of a sequence.
Begins(S, s, n, r) == r \in Seq(S) /\ Len(r) = n /\ \A i \in 1..n : r[i] = s[i]
LEMMA FirstOnes ==
  ASSUME NEW S, NEW s \in Seq(S), NEW n \in 1..Len(s)
  PROVE  Begins(S, s, n, SubSeq(s, 1, n))
<1> DEFINE r == SubSeq(s, 1, n)
<1>1. r \in Seq(S) /\ Len(r) = n
  OBVIOUS
<1>2. \A i \in 1..n : r[i] = s[i]
  OBVIOUS
<1> QED BY <1>1, <1>2 DEF Begins

\* What a log holds after one cycle more.
Logged(l, o, n) == SubSeq(<<o>> \o l, 1, Min({Len(l), n}) + 1)
LogIs(S, l, o, n, k) ==
  /\ k \in Seq(S) /\ Len(k) = (IF Len(l) <= n THEN Len(l) ELSE n) + 1
  /\ k[1] = o /\ (2 \in DOMAIN k => k[2] = l[1])
LEMMA LogGrows ==
  ASSUME NEW S, NEW l \in Seq(S), NEW o \in S, NEW n \in Nat \ {0}
  PROVE  LogIs(S, l, o, n, Logged(l, o, n))
<1> DEFINE k == Logged(l, o, n)
<1>1. Min({Len(l), n}) = IF Len(l) <= n THEN Len(l) ELSE n
  BY DEF Min
<1>2. PICK m \in Nat : m = Min({Len(l), n}) + 1 /\ m \in 1..(Len(l) + 1)
  BY <1>1
<1> DEFINE whole == <<o>> \o l
<1>3. whole \in Seq(S) /\ Len(whole) = Len(l) + 1
  OBVIOUS
<1>4. whole[1] = o
  OBVIOUS
<1>5. 1 \in DOMAIN l => whole[2] = l[1]
  OBVIOUS
<1>6. k = SubSeq(whole, 1, m)
  BY <1>2 DEF Logged, k
<1> HIDE DEF whole, k
<1>7. k \in Seq(S) /\ Len(k) = m /\ \A i \in 1..m : k[i] = whole[i]
  <2>1. m \in 1..Len(whole)
    BY <1>2, <1>3
  <2>2. Begins(S, whole, m, k)
    BY <1>3, <1>6, <2>1, FirstOnes, Zenon
  <2> QED BY <2>2 DEF Begins
<1>8. 2 \in DOMAIN k => 1 \in DOMAIN l
  BY <1>2, <1>7
<1>9. k[1] = whole[1] /\ (2 \in DOMAIN k => k[2] = whole[2])
  <2>1. DOMAIN k = 1..m /\ \A i \in 1..m : k[i] = whole[i]
    BY <1>7
  <2>2. 1 \in 1..m
    BY <1>2
  <2> QED BY <2>1, <2>2
<1>10. LogIs(S, l, o, n, k)
  BY <1>1, <1>2, <1>4, <1>5, <1>7, <1>8, <1>9 DEF LogIs
<1> QED BY <1>10 DEF k

\* what a lamp may show
Sights == [{Shown} -> {0, 1}]

\* two relays after any number of cycles: what b shows is a cycle behind, so that no
\* signal differed at a shift of 1
Relaying ==
  /\ Relay(pair)
  /\ Tidy(pair.a, simA) /\ Tidy(pair.b, simB) /\ HeardAlike(pair.a, simA, simB)
  /\ RelayHolds(pair.a, pair.b, simA, simB)
  /\ log.a \in Seq(Sights) /\ log.b \in Seq(Sights) /\ Len(log.b) = Len(log.a)
  /\ 1 \in DOMAIN log.a => log.a[1] = Observe(pair.a, simA)
  /\ \A x : <<x, 1>> \notin unfit
RelaysInStep == pair \in Pairs /\ (pair.tolerance > 0 => Relaying)

\* the pairs that are compared with a tolerance are those of the repository
OnlyRelays == \A p \in Pairs : p.tolerance > 0 => Relay(p)

\* It holds at power-on, and every cycle keeps it.
LEMMA InitRelaying == OnlyRelays /\ Init => RelaysInStep
<1> SUFFICES ASSUME OnlyRelays, Init, pair.tolerance > 0 PROVE Relaying
  BY DEF RelaysInStep, Init
<1>1. pair \in Pairs /\ simA = SimInit(pair.a) /\ simB = SimInit(pair.b)
      /\ log = [a |-> << >>, b |-> << >>] /\ unfit = {}
  BY DEF Init
<1>2. Relay(pair)
  BY <1>1 DEF OnlyRelays
<1>3. HeardAlike(pair.a, simA, simB) /\ RelayHolds(pair.a, pair.b, simA, simB)
  BY <1>1, <1>2, InitRelay
<1>4. Tidy(pair.a, simA) /\ Tidy(pair.b, simB)
  BY <1>1, InitTidy
<1>5. /\ log.a \in Seq(Sights) /\ log.b \in Seq(Sights) /\ Len(log.b) = Len(log.a)
      /\ 1 \notin DOMAIN log.a
  BY <1>1
<1> QED BY <1>1, <1>2, <1>3, <1>4, <1>5 DEF Relaying

LEMMA NextRelaying == RelaysInStep /\ [Next]_vars => RelaysInStep'
<1> SUFFICES ASSUME RelaysInStep, [Next]_vars PROVE RelaysInStep'
  OBVIOUS
<1>1. CASE UNCHANGED vars
  BY <1>1 DEF RelaysInStep, Relaying, vars
<1>2. CASE Next
  <2>1. PICK pins, rx :
          /\ simA' = Step(pair.a, simA, pins, rx)
          /\ simB' = Step(pair.b, simB, pins, rx)
          /\ log' = [a |-> SubSeq(<<Observe(pair.a, simA')>> \o log.a, 1, Min({Len(log.a), pair.tolerance}) + 1),
                     b |-> SubSeq(<<Observe(pair.b, simB')>> \o log.b, 1, Min({Len(log.b), pair.tolerance}) + 1)]
          /\ unfit' = unfit \cup {p \in (Keys(log'.a) \cap Keys(log'.b)) \X Shifts :
                                    Differs(log'.a, log'.b, p[1], p[2])}
          /\ pair' = pair
    BY <1>2, Zenon DEF Next
  <2>2. pair \in Pairs /\ Runs(pair.a) /\ Runs(pair.b) /\ pair.tolerance \in Nat
    BY PairsAccepted DEF RelaysInStep
  <2>3. ASSUME pair.tolerance > 0 PROVE Relaying'
    <3>1. /\ Relay(pair) /\ Tidy(pair.a, simA) /\ Tidy(pair.b, simB) /\ HeardAlike(pair.a, simA, simB)
          /\ RelayHolds(pair.a, pair.b, simA, simB)
      BY <2>3 DEF RelaysInStep, Relaying
    <3>2. /\ log.a \in Seq(Sights) /\ log.b \in Seq(Sights) /\ Len(log.b) = Len(log.a)
          /\ 1 \in DOMAIN log.a => log.a[1] = Observe(pair.a, simA)
          /\ \A x : <<x, 1>> \notin unfit
      BY <2>3 DEF RelaysInStep, Relaying
    <3>3. (\E vins, x : Lamps(pair.a, vins, x)) /\ (\E vins, x : Lamps(pair.b, vins, x))
          /\ pair.b.canInputs = pair.a.canInputs
      BY <3>1, RelayPairs
    <3>4. Together(pair.a, pair.b, simA, simB, simA', simB')
      BY <2>1, <2>2, <3>1, <3>3, Zenon DEF Together
    <3>5. RelayHolds(pair.a, pair.b, simA', simB') /\ simB'.var[lamp] = simA.var[lamp]
      BY <3>1, <3>4, RelayTurn
    <3>6. HeardAlike(pair.a, simA', simB') /\ Tidy(pair.a, simA') /\ Tidy(pair.b, simB')
      <4>1. HeardAlike(pair.a, simA', simB')
        BY <3>4, HeardStays
      <4> QED BY <2>1, <2>2, <3>1, <4>1, NextTidy
    <3>7. /\ Observe(pair.a, simA) = [p \in {Shown} |-> simA.var[lamp]]
          /\ Observe(pair.a, simA') = [p \in {Shown} |-> simA'.var[lamp]]
          /\ Observe(pair.b, simB') = [p \in {Shown} |-> simB'.var[lamp]]
      BY <3>3, LampShown
    <3>8. /\ Observe(pair.a, simA') \in Sights /\ Observe(pair.b, simB') = Observe(pair.a, simA)
          /\ Observe(pair.b, simB') \in Sights
      <4>1. simA.var[lamp] \in {0, 1} /\ simA'.var[lamp] \in {0, 1}
        BY <3>1, <3>5 DEF RelayHolds
      <4> QED BY <3>5, <3>7, <4>1 DEF Sights
    <3> DEFINE n == pair.tolerance
               oA == Observe(pair.a, simA')
               oB == Observe(pair.b, simB')
               kept == IF Len(log.a) <= n THEN Len(log.a) ELSE n
    <3>9. log'.a = Logged(log.a, oA, n) /\ log'.b = Logged(log.b, oB, n)
      BY <2>1 DEF Logged
    <3>10. n \in Nat \ {0}
      BY <2>2, <2>3
    <3> HIDE DEF n, oA, oB
    <3>11. /\ log'.a \in Seq(Sights) /\ Len(log'.a) = kept + 1 /\ log'.a[1] = oA
           /\ 2 \in DOMAIN log'.a => log'.a[2] = log.a[1]
      <4>1. oA \in Sights
        BY <3>8 DEF oA
      <4>2. log.a \in Seq(Sights)
        BY <3>2
      <4>3. LogIs(Sights, log.a, oA, n, log'.a)
        BY <3>9, <3>10, <4>1, <4>2, LogGrows, Zenon
      <4> QED BY <4>3 DEF LogIs
    <3>12. log'.b \in Seq(Sights) /\ Len(log'.b) = kept + 1 /\ log'.b[1] = oB
      <4>1. oB \in Sights
        BY <3>8 DEF oB
      <4>2. /\ log'.b \in Seq(Sights) /\ Len(log'.b) = (IF Len(log.b) <= n THEN Len(log.b) ELSE n) + 1
            /\ log'.b[1] = oB /\ (2 \in DOMAIN log'.b => log'.b[2] = log.b[1])
        <5>1. log.b \in Seq(Sights)
          BY <3>2
        <5>2. LogIs(Sights, log.b, oB, n, log'.b)
          BY <3>9, <3>10, <4>1, <5>1, LogGrows, Zenon
        <5> QED BY <5>2 DEF LogIs
      <4> QED BY <3>2, <4>2
    <3>13. ASSUME NEW signal PROVE ~Differs(log'.a, log'.b, signal, 1)
      <4>1. 1 + Max({0, 1}) = 2 /\ 1 + Max({0, -1}) = 1
        BY DEF Max
      <4>2. 2 \in DOMAIN log'.a => log'.a[2] = log'.b[1]
        <5>1. ASSUME 2 \in DOMAIN log'.a PROVE 1 \in DOMAIN log.a
          BY <3>2, <3>10, <3>11, <5>1
        <5>2. oB = Observe(pair.a, simA)
          BY <3>8 DEF oB
        <5> QED BY <3>2, <3>11, <3>12, <5>1, <5>2
      <4> QED BY <4>1, <4>2, Zenon DEF Differs
    <3>14. ASSUME NEW x PROVE <<x, 1>> \notin unfit'
      BY <2>1, <3>2, <3>13
    <3>15. log'.a[1] = Observe(pair.a, simA')
      BY <3>11 DEF oA
    <3>16. Len(log'.b) = Len(log'.a)
      BY <3>11, <3>12
    <3> QED BY <2>1, <3>1, <3>5, <3>6, <3>11, <3>12, <3>14, <3>15, <3>16, Zenon DEF Relaying
  <2> QED BY <2>1, <2>2, <2>3 DEF RelaysInStep
<1> QED BY <1>1, <1>2

\* What the comparison says of them.
LEMMA RelayingLags == RelaysInStep => RelayLags
<1> SUFFICES ASSUME RelaysInStep, pair.tolerance > 0
             PROVE  (\A d \in Diffs : d.kind = "lag") /\ \A x \in Signals : 1 \in Fits(x)
  BY DEF RelayLags
<1>1. /\ log.a \in Seq(Sights) /\ log.b \in Seq(Sights) /\ Len(log.b) = Len(log.a)
      /\ \A x : <<x, 1>> \notin unfit
  BY DEF RelaysInStep, Relaying
<1>2. 1 \in Shifts
  <2>1. pair.tolerance \in Nat
    BY PairsAccepted DEF RelaysInStep
  <2> QED BY <2>1 DEF Shifts
<1>3. ASSUME NEW x PROVE 1 \in Fits(x)
  BY <1>1, <1>2 DEF Fits
<1>4. Missing = {}
  <2>1. CASE log.a = << >>
    BY <1>1, <2>1 DEF Missing, Signals, Keys
  <2>2. CASE log.a # << >>
    <3>1. log.b # << >> /\ log.a[1] \in Sights /\ log.b[1] \in Sights
      BY <1>1, <2>2
    <3>2. Keys(log.a) = {Shown} /\ Keys(log.b) = {Shown}
      BY <2>2, <3>1 DEF Keys, Sights
    <3> QED BY <3>2 DEF Missing, Signals
  <2> QED BY <2>1, <2>2
<1>5. ASSUME NEW d \in Diffs PROVE d.kind = "lag"
  <2>1. \A x \in Signals : Fits(x) # {}
    BY <1>3
  <2> QED BY <1>4, <2>1 DEF Diffs
<1> QED BY <1>3, <1>5

\* RelayLags holds of the relays, at every tolerance, whatever the time-outs of the CAN
\* inputs: what passes one virtual input more, or two against the order of their slots, is
\* shown one cycle later and is otherwise the same, for every stimulus (compare, main).
THEOREM RelaysLag ==
  ASSUME OnlyRelays
  PROVE  Spec => []RelayLags
<1>1. Init => RelaysInStep
  BY InitRelaying
<1>2. RelaysInStep /\ [Next]_vars => RelaysInStep'
  BY NextRelaying
<1>3. RelaysInStep => RelayLags
  BY RelayingLags
<1> QED BY <1>1, <1>2, <1>3, PTL DEF Spec
=============================================================================
