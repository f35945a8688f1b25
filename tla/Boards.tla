------------------------------- MODULE Boards -------------------------------
(***************************************************************************)
(* The boards and their variable maps (fwmodel/model/varmap.py, and        *)
(* internal/params/board.go and varmap.go, which transcribe the same       *)
(* numbers from the firmware).  A variable is <<kind, instance, part>>; a  *)
(* configuration refers to it by its place in the map of its board.        *)
(***************************************************************************)
EXTENDS Integers, Sequences, FiniteSets

Pdm == [name |-> "dingopdm_v7", pdmType |-> 0, sys |-> 5, digIn |-> 2, digOut |-> 0,
        analogIn |-> 0, canIn |-> 32, canOut |-> 32, virtIn |-> 16, output |-> 8, flasher |-> 4,
        condition |-> 32, counter |-> 4, wiper |-> 6, keypad |-> 2,
        buttons |-> 20, dials |-> 2, analogs |-> 4]
PdmMax == [Pdm EXCEPT !.name = "dingopdmmax_v1", !.pdmType = 1, !.output = 4]
PtDpdm == [PdmMax EXCEPT !.name = "pt-dpdm4_1", !.pdmType = 2, !.analogIn = 2]
CanBoard == [name |-> "canboard_v2", pdmType |-> -1, sys |-> 3, digIn |-> 8, digOut |-> 4,
             analogIn |-> 5, canIn |-> 8, canOut |-> 8, virtIn |-> 8, output |-> 0, flasher |-> 4,
             condition |-> 8, counter |-> 4, wiper |-> 0, keypad |-> 0,
             buttons |-> 0, dials |-> 0, analogs |-> 0]
BoardTable == <<Pdm, PdmMax, PtDpdm, CanBoard>>

-----------------------------------------------------------------------------
\* the kinds of variables in the order of the map, with the number of instances
\* of a board and the number of variables each of them has
Kinds(b) ==
  <<[kind |-> "sys", count |-> b.sys, width |-> 1],
    [kind |-> "digIn", count |-> b.digIn, width |-> 1],
    [kind |-> "digOut", count |-> b.digOut, width |-> 1],
    [kind |-> "analogIn", count |-> b.analogIn, width |-> 4],
    [kind |-> "canIn", count |-> b.canIn, width |-> 2],
    [kind |-> "virtIn", count |-> b.virtIn, width |-> 1],
    [kind |-> "output", count |-> b.output, width |-> 4],
    [kind |-> "flasher", count |-> b.flasher, width |-> 1],
    [kind |-> "condition", count |-> b.condition, width |-> 1],
    [kind |-> "counter", count |-> b.counter, width |-> 1],
    [kind |-> "wiper", count |-> b.wiper, width |-> 1],
    [kind |-> "keypad", count |-> b.keypad, width |-> b.buttons + b.dials + b.analogs]>>

Variables(b) ==
  UNION {{<<k.kind, n, part>> : n \in 1..k.count, part \in 1..k.width} :
           k \in {Kinds(b)[i] : i \in DOMAIN Kinds(b)}}

\* the place of the first variable of the i-th kind; of the last kind's successor: the size
Base(b) ==
  LET kinds == Kinds(b)
      base[i \in 1..(Len(kinds) + 1)] ==
        IF i = 1 THEN 0 ELSE base[i - 1] + kinds[i - 1].count * kinds[i - 1].width
  IN  base

Size(b) == Base(b)[Len(Kinds(b)) + 1]

VarIndex(b, x) ==
  LET i == CHOOSE j \in DOMAIN Kinds(b) : Kinds(b)[j].kind = x[1]
  IN  Base(b)[i] + (x[2] - 1) * Kinds(b)[i].width + x[3] - 1

-----------------------------------------------------------------------------
\* The facts of the firmware's headers that both tables were checked against.
Anchors ==
  {<<Pdm, "sys", 1, 0>>, <<Pdm, "sys", 2, 1>>, <<Pdm, "digIn", 1, 5>>, <<Pdm, "canIn", 1, 7>>,
   <<Pdm, "virtIn", 1, 71>>, <<Pdm, "output", 1, 87>>, <<Pdm, "flasher", 1, 119>>,
   <<Pdm, "condition", 1, 123>>, <<Pdm, "counter", 1, 155>>, <<Pdm, "wiper", 1, 159>>,
   <<PdmMax, "virtIn", 1, 71>>, <<PdmMax, "condition", 1, 107>>, <<PdmMax, "counter", 1, 139>>,
   <<PtDpdm, "virtIn", 1, 79>>, <<PtDpdm, "condition", 1, 115>>, <<PtDpdm, "counter", 1, 147>>,
   <<CanBoard, "virtIn", 1, 51>>, <<CanBoard, "condition", 1, 63>>, <<CanBoard, "counter", 1, 71>>}
Sizes == {<<Pdm, 217>>, <<PdmMax, 201>>, <<PtDpdm, 209>>, <<CanBoard, 75>>}

\* The layout puts every variable where the firmware has it, and no two of them
\* in the same place.
ASSUME AnchorsHold ==
  /\ \A a \in Anchors : VarIndex(a[1], <<a[2], a[3], 1>>) = a[4]
  /\ \A s \in Sizes : Size(s[1]) = s[2]
ASSUME LayoutIsOneToOne ==
  \A i \in DOMAIN BoardTable :
    LET b == BoardTable[i]
    IN  /\ {VarIndex(b, x) : x \in Variables(b)} = 0..(Size(b) - 1)
        /\ Cardinality(Variables(b)) = Size(b)
=============================================================================
