---------------------------- MODULE MCPairWatch ----------------------------
(* The deadlines of pair-health.ts in samples of two seconds, as they are, and *)
(* of six seconds, rounded up, which leaves fewer states.                      *)
EXTENDS PairWatch, TLC

RestartBySecond == "direct" :> 4 @@ "turn" :> 6
RebuildBySecond == "direct" :> 6 @@ "turn" :> 10
RestartBySixth == "direct" :> 2 @@ "turn" :> 2
RebuildBySixth == "direct" :> 2 @@ "turn" :> 4
=============================================================================
