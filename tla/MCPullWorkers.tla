---------------------------- MODULE MCPullWorkers ----------------------------
(* PullWorkers with two sources, one on each side of the threshold. *)
EXTENDS PullWorkers, TLC

CONSTANTS w1, w2

Sources == {w1, w2}
Intervals == (w1 :> 1) @@ (w2 :> 3)
OneSource == {w1}
OneInterval == (w1 :> 2)
=============================================================================
