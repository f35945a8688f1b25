---------------------------- MODULE LogicBlocks ----------------------------
(***************************************************************************)
(* The function blocks of the device's logic engine, one operator each, as *)
(* fwmodel/model/dingosim.py transcribes them from the firmware: what one  *)
(* update makes of a block's memory, its settings s and the levels it      *)
(* reads.  Times are ages in milliseconds (how long ago the stamp the code *)
(* keeps was taken), because the code only ever compares "now - stamp".    *)
(* Values are integers: the scaling of CAN values is left out.             *)
(***************************************************************************)
EXTENDS Integers

Modes     == {"momentary", "latching"}
Edges     == {"rising", "falling", "both"}
BoolOps   == {"and", "or", "nor"}
Operators == {"eq", "ne", "gt", "lt", "ge", "le", "bitand", "bitnand"}

Level(v) == v # 0
Value(b) == IF b THEN 1 ELSE 0

-----------------------------------------------------------------------------
(* InputLatch: the momentary or latching edge helper.                      *)

\* a latching input changes its output at every rise of the level
LatchInit == [out |-> FALSE, last |-> FALSE]

LatchCheck(l, mode, invert, level) ==
  LET now == level # invert
  IN  [last |-> now,
       out  |-> CASE now = l.last                      -> l.out
                  [] now # l.last /\ mode = "momentary" -> now
                  [] OTHER                              -> l.out # now]

(* Mutated form: a falling edge is any low level.                        *)
EdgeByLevel(edge, prev, curr) ==
  CASE edge = "rising"  -> ~prev /\ curr
    [] edge = "falling" -> ~curr
    [] edge = "both"    -> prev # curr

Edge(edge, prev, curr) ==
  CASE edge = "rising"  -> ~prev /\ curr
    [] edge = "falling" -> prev /\ ~curr
    [] edge = "both"    -> prev # curr

\* the first sixteen bits of two numbers, which is all a condition looks at
BitAnd(a, b) ==
  LET Bit(x, k) == (x \div 2^k) % 2
      sum[k \in 0..16] == IF k = 0 THEN 0
                          ELSE sum[k - 1] + Bit(a, k - 1) * Bit(b, k - 1) * 2^(k - 1)
  IN  sum[16]

\* the AND of two numbers is positive: in two's complement, unless both are
\* negative, it is when they have a bit in common.  Numbers have at most ValueBits
\* bits, and a sign.
ValueBits == 31
SharesBit(a, b) ==
  /\ a >= 0 \/ b >= 0
  /\ \E k \in 0..(ValueBits - 1) : (a \div 2^k) % 2 = 1 /\ (b \div 2^k) % 2 = 1

\* _cmp as CAN inputs use it, on whole numbers
Compare(op, a, b) ==
  CASE op = "eq" -> a = b  [] op = "ne" -> a # b
    [] op = "gt" -> a > b  [] op = "lt" -> a < b
    [] op = "ge" -> a >= b [] op = "le" -> a <= b
    [] op = "bitand"  -> SharesBit(a, b)
    [] op = "bitnand" -> ~SharesBit(a, b)

\* _condition: the bitwise operators store a number instead of a truth value,
\* and the complement of sixteen bits in a wider register is never 0
AllOnes == 2147483647
ConditionValue(op, a, b) ==
  CASE op = "bitand"  -> BitAnd(a, b)
    [] op = "bitnand" -> AllOnes - BitAnd(a, b)
    [] OTHER          -> Value(Compare(op, a, b))

(* Mutated form: "nor" taken by its name.                                *)
CombineNor(op, a, b) ==
  CASE op = "and" -> a /\ b
    [] op = "or"  -> a \/ b
    [] op = "nor" -> ~a /\ ~b

\* "nor" is implemented as NAND
Combine(op, a, b) ==
  CASE op = "and" -> a /\ b
    [] op = "or"  -> a \/ b
    [] op = "nor" -> ~a \/ ~b

(* Mutated form: the second term is never negated.                       *)
VirtualLevelNot1Lost(s, r0, r1, r2, twoTerms) ==
  LET first == Combine(s.cond0, r0 # s.not0, r1)
  IN  IF twoTerms THEN first ELSE Combine(s.cond1, first, r2 # s.not2)

\* the combined level of a virtual input whose three terms read r0, r1, r2;
\* var2 naming AlwaysFalse means that there is no third term
VirtualLevel(s, r0, r1, r2, twoTerms) ==
  LET first == Combine(s.cond0, r0 # s.not0, r1 # s.not1)
  IN  IF twoTerms THEN first ELSE Combine(s.cond1, first, r2 # s.not2)

-----------------------------------------------------------------------------
(* Digital input: the pin is read again once it has kept its level for     *)
(* longer than debounceTime, and on the very first update.                 *)

DebounceInit == [last |-> FALSE, check |-> FALSE, init |-> FALSE, age |-> 0]

Sampled(d, pin) ==
  IF pin = d.last THEN d ELSE [d EXCEPT !.last = pin, !.check = TRUE, !.age = 0]

(* Mutated form: the level is read without waiting.                      *)
MustReadAtOnce(s, d) == d.check \/ ~d.init

MustRead(s, d) == (d.check /\ d.age > s.debounceTime) \/ ~d.init

(* Mutated form: the pending check is dropped in every cycle.            *)
DebouncedAlways(s, d) == [d EXCEPT !.check = FALSE, !.init = TRUE]

Debounced(s, d) ==
  [d EXCEPT !.check = IF MustRead(s, d) THEN FALSE ELSE d.check, !.init = TRUE]

-----------------------------------------------------------------------------
(* Flasher: v is its variable, f the ages of the last switch on and off.   *)

FlasherInit == [on |-> 0, off |-> 0]

(* Mutated form: the time of switching off is stamped while it is dark.   *)
FlasherUpdateRestamps(s, f, v, input) ==
  LET lit   == v = 1 \/ f.off > s.offTime
      onAge == IF v = 0 THEN 0 ELSE f.on
      stops == lit /\ onAge > s.onTime
  IN  IF ~input THEN [v |-> 0, f |-> f]
      ELSE [v |-> Value(lit /\ ~stops),
            f |-> [on |-> onAge, off |-> IF lit /\ ~stops THEN f.off ELSE 0]]

FlasherUpdate(s, f, v, input) ==
  LET starts == v = 0 /\ f.off > s.offTime
      lit    == v = 1 \/ starts
      onAge  == IF starts THEN 0 ELSE f.on
      stops  == lit /\ onAge > s.onTime
  IN  IF ~input THEN [v |-> 0, f |-> f]
      ELSE [v |-> Value(lit /\ ~stops),
            f |-> [on |-> onAge, off |-> IF stops THEN 0 ELSE f.off]]

-----------------------------------------------------------------------------
(* Counter: n is its variable, k the levels its inputs had when it last    *)
(* looked at their edges and the ages of its last count up and down.  A    *)
(* reset returns before those levels are brought up to date, so while it   *)
(* fires the same edge is seen again at the next update.                   *)

CounterInit == [inc |-> FALSE, dec |-> FALSE, reset |-> FALSE,
                incAge |-> 0, decAge |-> 0]

(* Mutated form: the limit is compared before the count.                 *)
CountUpPastMax(s, n) ==
  IF n > s.maxCount THEN (IF s.wrapAround THEN 0 ELSE s.maxCount) ELSE n + 1

CountUp(s, n) ==
  IF n + 1 > s.maxCount THEN (IF s.wrapAround THEN 0 ELSE s.maxCount) ELSE n + 1

(* Mutated form: counting down from 0 without wrapping.                  *)
CountDownPastZero(s, n) == IF n = 0 /\ s.wrapAround THEN s.maxCount ELSE n - 1

CountDown(s, n) ==
  IF n = 0 THEN (IF s.wrapAround THEN s.maxCount ELSE s.minCount) ELSE n - 1

HeldToReset(s, k, inc, dec) ==
  /\ s.holdToReset
  /\ (inc /\ k.incAge >= s.resetTime) \/ (dec /\ k.decAge >= s.resetTime)

(* Mutated form: the level of the reset is remembered before the test.    *)
ResetFiresTooLate(s, k, inc, dec, reset) ==
  Edge(s.resetEdge, reset, reset) \/ HeldToReset(s, k, inc, dec)

ResetFires(s, k, inc, dec, reset) ==
  Edge(s.resetEdge, k.reset, reset) \/ HeldToReset(s, k, inc, dec)

Counted(s, k, n, inc, dec, reset) ==
  LET up   == Edge(s.incEdge, k.inc, inc)
      down == Edge(s.decEdge, k.dec, dec)
      n1   == IF up THEN CountUp(s, n) ELSE n
  IN  [n |-> IF down THEN CountDown(s, n1) ELSE n1,
       k |-> [inc |-> inc, dec |-> dec, reset |-> reset,
              incAge |-> IF up THEN 0 ELSE k.incAge,
              decAge |-> IF down THEN 0 ELSE k.decAge]]

(* Mutated form: a reset remembers its own level before it returns.       *)
CounterUpdateOnce(s, k, n, inc, dec, reset) ==
  IF ResetFires(s, k, inc, dec, reset) THEN [n |-> 0, k |-> [k EXCEPT !.reset = reset]]
                                       ELSE Counted(s, k, n, inc, dec, reset)

CounterUpdate(s, k, n, inc, dec, reset) ==
  IF ResetFires(s, k, inc, dec, reset) THEN [n |-> 0, k |-> k]
                                       ELSE Counted(s, k, n, inc, dec, reset)

-----------------------------------------------------------------------------
(* The passing of one cycle for an age; beyond limit an age stops growing, *)
(* and limit is larger than every time a configuration names.              *)
Older(age, ms, limit) == IF age + ms > limit THEN limit ELSE age + ms
=============================================================================
