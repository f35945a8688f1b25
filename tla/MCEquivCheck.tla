---------------------------- MODULE MCEquivCheck ----------------------------
(* The pairs of configurations that the repository's documents compare.    *)
EXTENDS EquivCheck, CorpusConfigs

AllPairs  == SamePrograms \cup Relays
HighBeams == {Exactly(HighBeam(Cin(2)), HighBeam(AlwaysFalse))}
=============================================================================
