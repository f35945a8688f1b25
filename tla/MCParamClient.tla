---------------------------- MODULE MCParamClient ----------------------------
(* Instances of ParamClient for TLC: two parameters of two values, one of   *)
(* which the firmware refuses.                                              *)
EXTENDS ParamClient

P(a, v) == [addr |-> a, val |-> v]

MCAddr == {1, 2}
MCVal == {0, 1}
MCRejected == {P(2, 1)}

(* A full list, and a shorter one ( -partial ).                             *)
MCConfigs == {<<P(1, 1), P(2, 0)>>, <<P(1, 0)>>}
=============================================================================
