--------------------------- MODULE MCPipelineSchedule ---------------------------
(* PipelineSchedule with two workers that share one Redis cache.            *)
EXTENDS PipelineSchedule

CONSTANTS w1, w2, settings, database, redis

MCWorkers == {w1, w2}
MCCacheOf == [w \in MCWorkers |-> redis]

=================================================================================
