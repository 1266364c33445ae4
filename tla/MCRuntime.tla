----------------------------- MODULE MCRuntime -----------------------------
(* Two runtimes under one token: a service that publishes runs until a loop   *)
(* ends, a worker that dispatches is stopped by its host when it likes.       *)
(* Alone: one runtime of both roles, without a sampler.                       *)
EXTENDS Runtime, TLC

CONSTANTS a, b

QueueMetrics == <<"queue-metrics", "all">>
None == <<"none", "none">>
MCSampler == QueueMetrics
MCNoLoop == None
Publisher == LoopsFor(Pipeline, {"order"}, {}, TRUE)
Worker == LoopsFor({"dispatch", "queue-metrics"}, {}, {"product"}, FALSE)
Both == LoopsFor({"relay", "dispatch"}, {"order"}, {"product"}, FALSE)
Names == Publisher \cup Worker
Fleet == a :> Publisher @@ b :> Worker
MCLoops == Names
MCLoopsOf == Fleet
Alone == a :> Both
Shared == [s \in Services |-> "shared"]
MCTokenOf == Shared
=============================================================================
