------------------------------ MODULE MCDingoCli ------------------------------
(* Instances of DingoCli for TLC: the parameters of MCParamClient.          *)
EXTENDS DingoCli

P(a, v) == [addr |-> a, val |-> v]

MCAddr == {1, 2}
MCVal == {0, 1}
MCRejected == {P(2, 1)}
MCConfigs == {<<P(1, 1), P(2, 0)>>, <<P(1, 0)>>}
=============================================================================
