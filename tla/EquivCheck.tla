----------------------------- MODULE EquivCheck -----------------------------
(***************************************************************************)
(* fwmodel/model/equiv.py: two configurations run from power-on on the     *)
(* same stimulus, and what leaves the two devices is compared signal by    *)
(* signal, each of them with the shift of up to tolerance cycles that fits *)
(* it best.  Where equiv.py runs the traces it is given and compares at    *)
(* their ends, the stimulus here is any sequence of pin levels and frames, *)
(* and every cycle may be the last one.                                    *)
(***************************************************************************)
EXTENDS DingoSim

CONSTANTS Pairs,     \* the pairs of configurations, [a, b, tolerance] records
          Bus(_)     \* beside one of them: for each CAN id, the data its frames may have

ASSUME PairsAccepted == \A p \in Pairs : Runs(p.a) /\ Runs(p.b) /\ p.tolerance \in Nat

VARIABLES pair, simA, simB,
          log,       \* what the last tolerance + 1 cycles showed, of a and of b, the latest first
          unfit      \* the shifts at which a cycle of a signal differed, [signal, shift] pairs

vars == <<pair, simA, simB, log, unfit>>

Arrivals ==
  LET bus == Bus(pair.a)
  IN  UNION {{rx \in [ids -> UNION Range(bus)] : \A id \in ids : rx[id] \in bus[id]} :
               ids \in SUBSET DOMAIN bus}

AllPins == DOMAIN pair.a.inputs \cup DOMAIN pair.b.inputs
Shifts  == -pair.tolerance..pair.tolerance

Init == /\ pair \in Pairs
        /\ simA = SimInit(pair.a)
        /\ simB = SimInit(pair.b)
        /\ log = [a |-> << >>, b |-> << >>]
        /\ unfit = {}

\* the signals that a log has, none before its first cycle
Keys(l) == IF l = << >> THEN {} ELSE DOMAIN l[1]

(* Mutated form: the cycles of A are shifted, those of B are not.         *)
DiffersBackwards(a, b, signal, shift) ==
  LET i == 1 + Max({0, -shift})
      j == 1 + Max({0, shift})
  IN  i \in DOMAIN a /\ j \in DOMAIN b /\ a[i][signal] # b[j][signal]

\* the latest cycle at which a signal of A meets the one of B that is shift cycles later
Differs(a, b, signal, shift) ==
  LET i == 1 + Max({0, shift})
      j == 1 + Max({0, -shift})
  IN  i \in DOMAIN a /\ j \in DOMAIN b /\ a[i][signal] # b[j][signal]

Next ==
  LET logged(l, seen) == SubSeq(<<seen>> \o l, 1, Min({Len(l), pair.tolerance}) + 1)
  IN  \E pins \in [AllPins -> BOOLEAN], rx \in Arrivals :
        /\ simA' = Step(pair.a, simA, pins, rx)
        /\ simB' = Step(pair.b, simB, pins, rx)
        /\ log' = [a |-> logged(log.a, Observe(pair.a, simA')),
                   b |-> logged(log.b, Observe(pair.b, simB'))]
        /\ unfit' = unfit \cup {p \in (Keys(log'.a) \cap Keys(log'.b)) \X Shifts :
                                  Differs(log'.a, log'.b, p[1], p[2])}
        /\ UNCHANGED pair

Spec == Init /\ [][Next]_vars
-----------------------------------------------------------------------------
(* The verdict of compare on the cycles so far.  A signal is aligned by    *)
(* the first shift that never differed: 0, or else the lowest one.         *)

Signals      == Keys(log.a) \cap Keys(log.b)
Missing      == (Keys(log.a) \cup Keys(log.b)) \ Signals
Fits(signal) == {shift \in Shifts : <<signal, shift>> \notin unfit}
Lag(signal)  == IF 0 \in Fits(signal) THEN 0 ELSE Min(Fits(signal))

Diffs ==
  {[signal |-> x, kind |-> "missing"] : x \in Missing}
  \cup {[signal |-> x, kind |-> "mismatch"] : x \in {y \in Signals : Fits(y) = {}}}
  \cup {[signal |-> x, kind |-> "lag", shift |-> Lag(x)] :
          x \in {y \in Signals : Fits(y) # {} /\ Lag(y) # 0}}

Passes == Diffs = {}

-----------------------------------------------------------------------------
\* Two configurations that the repository calls equivalent are: they show the
\* same signals with the same values on every cycle, so that the comparison
\* passes at tolerance 0 (compare; corpus/README.md on the rewrites).
Equivalent == pair.tolerance = 0 => Passes

\* A signal that goes through one virtual input more, or through two in the wrong
\* order of their slots, is a cycle late and nothing else, whatever the stimulus:
\* with a tolerance its difference is called a lag and never a mismatch, and a
\* shift of 1 always remains possible.
RelayLags ==
  pair.tolerance > 0 => /\ \A d \in Diffs : d.kind = "lag"
                        /\ \A x \in Signals : 1 \in Fits(x)

\* "--tolerance N allows B to lag or lead A by up to N cycles on each signal
\* independently" (equiv.py, docstring): signals that some shift within the
\* tolerance aligns do not make the comparison fail (compare, main).
LagTolerated == (Missing = {} /\ \A x \in Signals : Fits(x) # {}) => Passes
=============================================================================
