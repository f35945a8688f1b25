--------------------------- MODULE EngineGesture ---------------------------
(***************************************************************************)
(* What fwmodel/corpus/README.md promises of the deployed engine           *)
(* configuration, as its driver sees it.  The chord is brake and washer    *)
(* together; the horn added to a held chord cranks the engine.  Letting go *)
(* of a chord that has cranked may leave the engine running, nothing else  *)
(* can; pressing the chord always stops it.                                *)
(***************************************************************************)
EXTENDS Naturals

VARIABLES chord, engine

vars == <<chord, engine>>

TypeOK == chord \in BOOLEAN /\ engine \in {"off", "cranked", "running"}

Init == chord = FALSE /\ engine = "off"

Press == /\ ~chord
         /\ chord' = TRUE
         /\ engine' \in {"off", "cranked"}

Crank == /\ chord
         /\ engine' = "cranked"
         /\ UNCHANGED chord

Release == /\ chord
           /\ chord' = FALSE
           /\ engine' \in (IF engine = "cranked" THEN {"running", "off"} ELSE {"off"})

Next == Press \/ Crank \/ Release

Spec == Init /\ [][Next]_vars
=============================================================================
