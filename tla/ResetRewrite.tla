---------------------------- MODULE ResetRewrite ----------------------------
(***************************************************************************)
(* The rewrite of a counter's reset that fwmodel/tools/mkreference.py      *)
(* applies to the heater toggle of engine-repin.json.  The deployed        *)
(* counter is reset by the fall of x; the rewrite is reset by the rise of  *)
(* ~x.  Both are counters of LogicBlocks with the same settings otherwise, *)
(* updated in every cycle with the same inputs, and those inputs are       *)
(* gated: the logic in front of the counter lets them be on only while x   *)
(* is, as HEATER_PRESS, hazard-tick and HIGH_BEAM_PRESS of the corpus do.  *)
(***************************************************************************)
EXTENDS LogicBlocks

CONSTANTS Settings,   \* the settings of the counter, apart from its resetEdge
          CycleMs,    \* the length of a cycle in milliseconds
          MaxAge      \* an age at which every resetTime is over

SettingsT ==
  [incEdge : Edges, decEdge : Edges, minCount : Nat, maxCount : Nat,
   wrapAround : BOOLEAN, holdToReset : BOOLEAN, resetTime : Nat]

ASSUME SettingsAreSane ==
  /\ \A s \in Settings : s \in SettingsT /\ s.minCount <= s.maxCount
  /\ CycleMs \in Nat /\ MaxAge \in Nat

VARIABLES s,         \* the settings
          x,         \* the level of x in the last cycle
          deployed,  \* the counter that the fall of x resets
          rewritten  \* the counter that the rise of ~x resets

vars == <<s, x, deployed, rewritten>>

ResetBy(edge) ==
  [incEdge |-> s.incEdge, decEdge |-> s.decEdge, resetEdge |-> edge,
   minCount |-> s.minCount, maxCount |-> s.maxCount, wrapAround |-> s.wrapAround,
   holdToReset |-> s.holdToReset, resetTime |-> s.resetTime]

Aged(c) == [n |-> c.n,
            k |-> [inc |-> c.k.inc, dec |-> c.k.dec, reset |-> c.k.reset,
                   incAge |-> Older(c.k.incAge, CycleMs, MaxAge),
                   decAge |-> Older(c.k.decAge, CycleMs, MaxAge)]]

Updated(c, edge, inc, dec, reset) ==
  Aged(CounterUpdate(ResetBy(edge), c.k, c.n, inc, dec, reset))

(* Mutated form: an input in front of the counter lost its gate.         *)
Ungated(level) == BOOLEAN

\* the levels that a counter's inputs may have while its gate is at level
Gated(level) == IF level THEN BOOLEAN ELSE {FALSE}

Init == /\ s \in Settings
        /\ x = FALSE
        /\ deployed = [n |-> 0, k |-> CounterInit]
        /\ rewritten = [n |-> 0, k |-> CounterInit]

Cycle(level, inc, dec) ==
  /\ x' = level
  /\ deployed' = Updated(deployed, "falling", inc, dec, level)
  /\ rewritten' = Updated(rewritten, "rising", inc, dec, ~level)
  /\ UNCHANGED s

Next == \E level \in BOOLEAN : \E inc, dec \in Gated(level) : Cycle(level, inc, dec)

Spec == Init /\ [][Next]_vars

-----------------------------------------------------------------------------
\* The rewrite counts what the deployed counter counts, from power-on, for
\* every setting and every sequence of gated inputs (mkreference.py, "the same
\* behaviour through the supported path").
SameCount == deployed.n = rewritten.n

\* The falling reset holds the counter at 0 for as long as x is low, and not
\* only in the cycle of the fall: corpus/README.md, "forced off and held off".
HeldOff == ~x => deployed.n = 0

\* Neither counter leaves 0..maxCount.
CountInRange == deployed.n \in 0..s.maxCount /\ rewritten.n \in 0..s.maxCount

-----------------------------------------------------------------------------
KT == [inc : BOOLEAN, dec : BOOLEAN, reset : BOOLEAN, incAge : Nat, decAge : Nat]

TypeOK == /\ s \in Settings
          /\ x \in BOOLEAN
          /\ deployed \in [n : Nat, k : KT]
          /\ rewritten \in [n : Nat, k : KT]

SameMemory == /\ deployed.k.inc = rewritten.k.inc
              /\ deployed.k.dec = rewritten.k.dec
              /\ deployed.k.incAge = rewritten.k.incAge
              /\ deployed.k.decAge = rewritten.k.decAge
              /\ ~rewritten.k.reset

NothingYet == ~deployed.k.reset => /\ deployed.n = 0
                                   /\ ~deployed.k.inc /\ ~deployed.k.dec

\* Why the counts agree: the two remember the same levels and ages, except that
\* the rewrite never remembers a high reset, because _counter returns before it
\* would; and while the deployed counter remembers a low x it has counted
\* nothing and remembers no input that is on.
IInv == TypeOK /\ SameMemory /\ NothingYet /\ SameCount /\ HeldOff /\ CountInRange
=============================================================================
