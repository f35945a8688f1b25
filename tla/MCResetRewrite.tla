--------------------------- MODULE MCResetRewrite ---------------------------
(* Every setting of a counter with a maxCount of up to 2.                  *)
EXTENDS ResetRewrite

SmallSettings ==
  {t \in [incEdge : Edges, decEdge : Edges, minCount : 0..1, maxCount : 0..2,
          wrapAround : BOOLEAN, holdToReset : BOOLEAN, resetTime : {0, 3}] :
     t.minCount <= t.maxCount}
=============================================================================
