------------------------- MODULE ResetRewriteProofs -------------------------
(***************************************************************************)
(* The properties of ResetRewrite for every set of settings, any length of *)
(* a cycle and any largest age.                                            *)
(***************************************************************************)
EXTENDS ResetRewrite, TLAPS

CounterSettings == [incEdge : Edges, decEdge : Edges, resetEdge : Edges,
                    minCount : Nat, maxCount : Nat, wrapAround : BOOLEAN,
                    holdToReset : BOOLEAN, resetTime : Nat]

\* An edge is a truth value, and without a change of level there is none (_edge).
LEMMA EdgeFacts ==
  ASSUME NEW edge \in Edges, NEW prev \in BOOLEAN, NEW curr \in BOOLEAN
  PROVE  /\ Edge(edge, prev, curr) \in BOOLEAN
         /\ prev = curr => ~Edge(edge, prev, curr)
BY DEF Edge, Edges

\* Counting up and down stays within 0..maxCount (_counter).
LEMMA CountFacts ==
  ASSUME NEW t \in CounterSettings, t.minCount <= t.maxCount,
         NEW n \in 0..t.maxCount
  PROVE  CountUp(t, n) \in 0..t.maxCount /\ CountDown(t, n) \in 0..t.maxCount
BY DEF CountUp, CountDown, CounterSettings

\* An age stays a natural number.
LEMMA OlderFacts ==
  ASSUME NEW age \in Nat
  PROVE  Older(age, CycleMs, MaxAge) \in Nat
BY SettingsAreSane DEF Older

\* One update of a counter: its count stays in range, its memory keeps its type,
\* a reset empties it and leaves its memory as it was (_counter).
LEMMA UpdateFacts ==
  ASSUME NEW t \in CounterSettings, t.minCount <= t.maxCount,
         NEW k \in KT, NEW n \in 0..t.maxCount,
         NEW inc \in BOOLEAN, NEW dec \in BOOLEAN, NEW reset \in BOOLEAN
  PROVE  LET u == CounterUpdate(t, k, n, inc, dec, reset)
         IN  /\ u \in [n : 0..t.maxCount, k : KT]
             /\ (Edge(t.resetEdge, k.reset, reset) \/ HeldToReset(t, k, inc, dec))
                  => u = [n |-> 0, k |-> k]
             /\ ~(Edge(t.resetEdge, k.reset, reset) \/ HeldToReset(t, k, inc, dec))
                  => u.k = [inc |-> inc, dec |-> dec, reset |-> reset,
                            incAge |-> u.k.incAge, decAge |-> u.k.decAge]
<1> DEFINE up   == Edge(t.incEdge, k.inc, inc)
           down == Edge(t.decEdge, k.dec, dec)
           n1   == IF up THEN CountUp(t, n) ELSE n
           n2   == IF down THEN CountDown(t, n1) ELSE n1
           k2   == [inc |-> inc, dec |-> dec, reset |-> reset,
                    incAge |-> IF up THEN 0 ELSE k.incAge,
                    decAge |-> IF down THEN 0 ELSE k.decAge]
           fires == Edge(t.resetEdge, k.reset, reset) \/ HeldToReset(t, k, inc, dec)
<1>1. CounterUpdate(t, k, n, inc, dec, reset)
        = IF fires THEN [n |-> 0, k |-> k] ELSE [n |-> n2, k |-> k2]
  BY Zenon DEF CounterUpdate, Counted, ResetFires
<1>2. n1 \in 0..t.maxCount
  BY CountFacts
<1>3. n2 \in 0..t.maxCount
  BY <1>2, CountFacts
<1>4. k2 \in KT
  BY DEF KT
<1>5. 0 \in 0..t.maxCount
  BY DEF CounterSettings
<1> HIDE DEF n1, n2, k2, fires
<1>6. CASE fires
  BY <1>1, <1>5, <1>6 DEF fires
<1>7. CASE ~fires
  <2>1. CounterUpdate(t, k, n, inc, dec, reset) = [n |-> n2, k |-> k2]
    BY <1>1, <1>7
  <2>2. k2 = [inc |-> inc, dec |-> dec, reset |-> reset,
              incAge |-> k2.incAge, decAge |-> k2.decAge]
    BY DEF k2
  <2> QED  BY <2>1, <2>2, <1>3, <1>4, <1>7 DEF fires
<1> QED  BY <1>6, <1>7

\* What an update makes of the count and the ages when no reset fires: without
\* an edge nothing, and otherwise the same under any two settings that differ
\* in their resetEdge only (_counter).
LEMMA NoResetFacts ==
  ASSUME NEW t1 \in CounterSettings, NEW t2 \in CounterSettings,
         t1.incEdge = t2.incEdge, t1.decEdge = t2.decEdge,
         t1.minCount = t2.minCount, t1.maxCount = t2.maxCount,
         t1.wrapAround = t2.wrapAround,
         NEW k1 \in KT, NEW k2 \in KT,
         k1.inc = k2.inc, k1.dec = k2.dec,
         k1.incAge = k2.incAge, k1.decAge = k2.decAge,
         NEW n, NEW inc \in BOOLEAN, NEW dec \in BOOLEAN,
         NEW reset1 \in BOOLEAN, NEW reset2 \in BOOLEAN,
         ~(Edge(t1.resetEdge, k1.reset, reset1) \/ HeldToReset(t1, k1, inc, dec)),
         ~(Edge(t2.resetEdge, k2.reset, reset2) \/ HeldToReset(t2, k2, inc, dec))
  PROVE  LET u1 == CounterUpdate(t1, k1, n, inc, dec, reset1)
             u2 == CounterUpdate(t2, k2, n, inc, dec, reset2)
         IN  /\ u1.n = u2.n
             /\ u1.k.incAge = u2.k.incAge /\ u1.k.decAge = u2.k.decAge
             /\ k1.inc = inc /\ k1.dec = dec
                  => /\ u1.n = n
                     /\ u1.k.incAge = k1.incAge /\ u1.k.decAge = k1.decAge
<1> DEFINE First(t, k) == IF Edge(t.incEdge, k.inc, inc) THEN CountUp(t, n) ELSE n
           Then(t, k) == IF Edge(t.decEdge, k.dec, dec) THEN CountDown(t, First(t, k))
                                                        ELSE First(t, k)
           Levels(t, k, reset) ==
             [inc |-> inc, dec |-> dec, reset |-> reset,
              incAge |-> IF Edge(t.incEdge, k.inc, inc) THEN 0 ELSE k.incAge,
              decAge |-> IF Edge(t.decEdge, k.dec, dec) THEN 0 ELSE k.decAge]
<1>1. CounterUpdate(t1, k1, n, inc, dec, reset1) = [n |-> Then(t1, k1), k |-> Levels(t1, k1, reset1)]
  BY Zenon DEF CounterUpdate, Counted, ResetFires
<1>2. CounterUpdate(t2, k2, n, inc, dec, reset2) = [n |-> Then(t2, k2), k |-> Levels(t2, k2, reset2)]
  BY Zenon DEF CounterUpdate, Counted, ResetFires
<1>3. First(t1, k1) = First(t2, k2)
  BY DEF CountUp
<1>4. Then(t1, k1) = Then(t2, k2)
  BY <1>3 DEF CountDown
<1>5. /\ Levels(t1, k1, reset1).incAge = Levels(t2, k2, reset2).incAge
      /\ Levels(t1, k1, reset1).decAge = Levels(t2, k2, reset2).decAge
  OBVIOUS
<1>6. k1.inc = inc /\ k1.dec = dec
        => /\ Then(t1, k1) = n
           /\ Levels(t1, k1, reset1).incAge = k1.incAge
           /\ Levels(t1, k1, reset1).decAge = k1.decAge
  BY EdgeFacts DEF CounterSettings
<1> HIDE DEF Then, Levels
<1> QED  BY <1>1, <1>2, <1>4, <1>5, <1>6

\* The settings of both counters are the setting s with a resetEdge of their own.
LEMMA ResetByFacts ==
  ASSUME s \in Settings, NEW edge \in Edges
  PROVE  /\ ResetBy(edge) \in CounterSettings
         /\ ResetBy(edge).resetEdge = edge
         /\ ResetBy(edge).minCount <= ResetBy(edge).maxCount
         /\ ResetBy(edge).maxCount = s.maxCount
BY SettingsAreSane DEF ResetBy, CounterSettings, SettingsT

\* The passing of a cycle changes nothing but the ages (Older).
LEMMA AgedFacts ==
  ASSUME NEW m \in Nat, NEW c \in [n : 0..m, k : KT]
  PROVE  /\ Aged(c) \in [n : Nat, k : KT]
         /\ Aged(c).n = c.n
         /\ Aged(c).k.inc = c.k.inc /\ Aged(c).k.dec = c.k.dec
         /\ Aged(c).k.reset = c.k.reset
         /\ Aged(c).k.incAge = Older(c.k.incAge, CycleMs, MaxAge)
         /\ Aged(c).k.decAge = Older(c.k.decAge, CycleMs, MaxAge)
<1>1. Older(c.k.incAge, CycleMs, MaxAge) \in Nat /\ Older(c.k.decAge, CycleMs, MaxAge) \in Nat
  BY OlderFacts DEF KT
<1> QED  BY <1>1 DEF Aged, KT

\* The invariant holds at power-on.
LEMMA InitIInv == Init => IInv
<1> SUFFICES ASSUME Init PROVE IInv
  OBVIOUS
<1>1. CounterInit \in KT /\ ~CounterInit.inc /\ ~CounterInit.dec /\ ~CounterInit.reset
  BY DEF CounterInit, KT
<1>2. TypeOK
  BY <1>1 DEF Init, TypeOK
<1>3. SameMemory /\ NothingYet /\ SameCount /\ HeldOff
  BY <1>1 DEF Init, SameMemory, NothingYet, SameCount, HeldOff
<1>4. CountInRange
  BY SettingsAreSane DEF Init, CountInRange, SettingsT
<1> QED  BY <1>2, <1>3, <1>4 DEF IInv

\* One cycle preserves the invariant.  While x is high the two resets agree,
\* because neither counter sees an edge on it or both are held too long; while
\* x is low the rewrite is reset, and the deployed counter is either reset too
\* or has nothing to count.
LEMMA CycleIInv ==
  ASSUME IInv, NEW level \in BOOLEAN,
         NEW inc \in Gated(level), NEW dec \in Gated(level),
         Cycle(level, inc, dec)
  PROVE  IInv'
<1>a. PICK tf, tr : tf = ResetBy("falling") /\ tr = ResetBy("rising")
  OBVIOUS
<1>b. PICK low \in BOOLEAN : low = ~level
  OBVIOUS
<1> DEFINE kf == deployed.k
           kr == rewritten.k
           n  == deployed.n
           f  == CounterUpdate(tf, kf, n, inc, dec, level)
           r  == CounterUpdate(tr, kr, n, inc, dec, low)
           held   == HeldToReset(tf, kf, inc, dec)
           firesF == Edge(tf.resetEdge, kf.reset, level) \/ HeldToReset(tf, kf, inc, dec)
           firesR == Edge(tr.resetEdge, kr.reset, low) \/ HeldToReset(tr, kr, inc, dec)
<1>1. /\ s \in Settings /\ x \in BOOLEAN
      /\ kf \in KT /\ kr \in KT /\ n \in 0..s.maxCount
      /\ rewritten.n = n /\ s.maxCount \in Nat
      /\ inc \in BOOLEAN /\ dec \in BOOLEAN
      /\ ~level => ~inc /\ ~dec
  BY SettingsAreSane
     DEF IInv, TypeOK, SameCount, CountInRange, Gated, SettingsT
<1>2. /\ tf \in CounterSettings /\ tf.minCount <= tf.maxCount /\ tf.maxCount = s.maxCount
      /\ tr \in CounterSettings /\ tr.minCount <= tr.maxCount /\ tr.maxCount = s.maxCount
      /\ tf.resetEdge = "falling" /\ tr.resetEdge = "rising"
  BY <1>a, <1>1, ResetByFacts DEF Edges
<1>3. /\ tf.incEdge = tr.incEdge /\ tf.decEdge = tr.decEdge
      /\ tf.minCount = tr.minCount /\ tf.maxCount = tr.maxCount
      /\ tf.wrapAround = tr.wrapAround
      /\ tf.holdToReset = tr.holdToReset /\ tf.resetTime = tr.resetTime
  BY <1>a DEF ResetBy
<1>4. /\ kf.inc = kr.inc /\ kf.dec = kr.dec
      /\ kf.incAge = kr.incAge /\ kf.decAge = kr.decAge
      /\ ~kr.reset
      /\ ~kf.reset => n = 0 /\ ~kf.inc /\ ~kf.dec
  BY DEF IInv, SameMemory, NothingYet
<1>5. /\ x' = level /\ s' = s
      /\ deployed' = Aged(f) /\ rewritten' = Aged(r)
  BY <1>a, <1>b, <1>1 DEF Cycle, Updated
<1>c. n \in 0..tf.maxCount /\ n \in 0..tr.maxCount
  BY <1>1, <1>2
<1>6. /\ f \in [n : 0..s.maxCount, k : KT]
      /\ firesF => f = [n |-> 0, k |-> kf]
      /\ ~firesF => f.k = [inc |-> inc, dec |-> dec, reset |-> level,
                         incAge |-> f.k.incAge, decAge |-> f.k.decAge]
  <2>1. /\ f \in [n : 0..tf.maxCount, k : KT]
        /\ firesF => f = [n |-> 0, k |-> kf]
        /\ ~firesF => f.k = [inc |-> inc, dec |-> dec, reset |-> level,
                         incAge |-> f.k.incAge, decAge |-> f.k.decAge]
    BY <1>1, <1>2, <1>c, UpdateFacts
  <2> QED  BY <2>1, <1>2
<1>7. /\ r \in [n : 0..s.maxCount, k : KT]
      /\ firesR => r = [n |-> 0, k |-> kr]
      /\ ~firesR => r.k = [inc |-> inc, dec |-> dec, reset |-> low,
                         incAge |-> r.k.incAge, decAge |-> r.k.decAge]
  <2>1. /\ r \in [n : 0..tr.maxCount, k : KT]
        /\ firesR => r = [n |-> 0, k |-> kr]
        /\ ~firesR => r.k = [inc |-> inc, dec |-> dec, reset |-> low,
                         incAge |-> r.k.incAge, decAge |-> r.k.decAge]
    BY <1>1, <1>2, <1>c, UpdateFacts
  <2> QED  BY <2>1, <1>2
<1>8. HeldToReset(tr, kr, inc, dec) = held /\ (held => level)
  BY <1>1, <1>3, <1>4 DEF HeldToReset
<1>9. (firesF <=> (kf.reset /\ ~level) \/ held) /\ (firesR <=> ~level \/ held)
  BY <1>b, <1>1, <1>2, <1>4, <1>8 DEF Edge, KT
<1> HIDE DEF f, r, held, firesF, firesR
<1>10. /\ f.n = r.n /\ (~level => f.n = 0)
       /\ f.k.inc = r.k.inc /\ f.k.dec = r.k.dec
       /\ f.k.incAge = r.k.incAge /\ f.k.decAge = r.k.decAge
       /\ ~r.k.reset
       /\ ~f.k.reset => f.n = 0 /\ ~f.k.inc /\ ~f.k.dec
  <2>1. CASE firesF /\ firesR
    BY <2>1, <1>4, <1>6, <1>7
  <2>2. CASE ~firesF /\ ~firesR
    <3>1. f.n = r.n /\ f.k.incAge = r.k.incAge /\ f.k.decAge = r.k.decAge
      BY <2>2, <1>1, <1>2, <1>3, <1>4, NoResetFacts DEF f, r, firesF, firesR
    <3>2. level = TRUE /\ low = FALSE
      BY <2>2, <1>b, <1>9
    <3>3. /\ f.k.inc = r.k.inc /\ f.k.dec = r.k.dec
          /\ f.k.reset = level /\ r.k.reset = low
      BY <2>2, <1>6, <1>7
    <3> QED  BY <3>1, <3>2, <3>3
  <2>3. CASE ~firesF /\ firesR
    <3>1. ~level /\ ~kf.reset /\ ~inc /\ ~dec
      BY <2>3, <1>1, <1>8, <1>9
    <3>2. /\ kf.inc = inc /\ kf.dec = dec /\ n = 0
      BY <3>1, <1>1, <1>4 DEF KT
    <3>3. f.n = n /\ f.k.incAge = kf.incAge /\ f.k.decAge = kf.decAge
      BY <2>3, <3>2, <1>1, <1>2, NoResetFacts DEF f, firesF
    <3> QED  BY <2>3, <3>1, <3>2, <3>3, <1>4, <1>6, <1>7
  <2>4. CASE firesF /\ ~firesR
    BY <2>4, <1>9
  <2> QED  BY <2>1, <2>2, <2>3, <2>4
<1>11. /\ Aged(f) \in [n : Nat, k : KT]
       /\ Aged(f).n = f.n /\ Aged(f).k.inc = f.k.inc /\ Aged(f).k.dec = f.k.dec
       /\ Aged(f).k.reset = f.k.reset
       /\ Aged(f).k.incAge = Older(f.k.incAge, CycleMs, MaxAge)
       /\ Aged(f).k.decAge = Older(f.k.decAge, CycleMs, MaxAge)
  BY <1>1, <1>6, AgedFacts
<1>12. /\ Aged(r) \in [n : Nat, k : KT]
       /\ Aged(r).n = r.n /\ Aged(r).k.inc = r.k.inc /\ Aged(r).k.dec = r.k.dec
       /\ Aged(r).k.reset = r.k.reset
       /\ Aged(r).k.incAge = Older(r.k.incAge, CycleMs, MaxAge)
       /\ Aged(r).k.decAge = Older(r.k.decAge, CycleMs, MaxAge)
  BY <1>1, <1>7, AgedFacts
<1>13. TypeOK'
  BY <1>1, <1>5, <1>11, <1>12 DEF TypeOK
<1>14. SameMemory' /\ NothingYet'
  BY <1>5, <1>10, <1>11, <1>12 DEF SameMemory, NothingYet
<1>15. SameCount' /\ HeldOff'
  BY <1>5, <1>10, <1>11, <1>12 DEF SameCount, HeldOff
<1>16. CountInRange'
  BY <1>5, <1>6, <1>7, <1>11, <1>12 DEF CountInRange
<1> QED  BY <1>13, <1>14, <1>15, <1>16 DEF IInv

\* Every step preserves the invariant.
LEMMA NextIInv == IInv /\ [Next]_vars => IInv'
<1> SUFFICES ASSUME IInv, [Next]_vars PROVE IInv'
  OBVIOUS
<1>1. CASE Next
  <2>1. PICK level \in BOOLEAN : \E inc, dec \in Gated(level) : Cycle(level, inc, dec)
    BY <1>1 DEF Next
  <2>2. PICK inc \in Gated(level), dec \in Gated(level) : Cycle(level, inc, dec)
    BY <2>1
  <2> QED  BY <2>2, CycleIInv
<1>2. CASE UNCHANGED vars
  BY <1>2 DEF vars, IInv, TypeOK, SameMemory, NothingYet, SameCount, HeldOff, CountInRange
<1> QED  BY <1>1, <1>2

\* The invariant of ResetRewrite holds in every state.
LEMMA Invariance == Spec => []IInv
BY InitIInv, NextIInv, PTL DEF Spec

\* For every setting of the counter, and every sequence of levels that the gate
\* lets through, the rewrite counts what the deployed counter counts.
THEOREM RewriteIsFaithful == Spec => []SameCount
BY Invariance, PTL DEF IInv

\* The falling reset of a gated counter holds it at 0 while x is low.
THEOREM FallingResetHolds == Spec => []HeldOff
BY Invariance, PTL DEF IInv

\* Neither counter leaves 0..maxCount.
THEOREM CountsStayInRange == Spec => []CountInRange
BY Invariance, PTL DEF IInv
=============================================================================
