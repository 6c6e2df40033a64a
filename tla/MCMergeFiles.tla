----------------------------- MODULE MCMergeFiles -----------------------------
(***************************************************************************)
(* An instance of MergeFiles for TLC: three paths, two families, one of    *)
(* them with two samples; values that do not grow with the paths.          *)
(***************************************************************************)
EXTENDS MergeFiles

MCPaths == 1..3

MCMetrics == {[family |-> 1, sample |-> 1], [family |-> 1, sample |-> 3],
              [family |-> 2, sample |-> 2]}

Gauge(mode, pid) == [metric_type |-> "gauge", mode |-> mode, pid |-> pid]

MCParams == {[metric_type |-> "counter", mode |-> "all", pid |-> NoPid],
             Gauge("min", 1), Gauge("max", 1), Gauge("livesum", 1), Gauge("all", 1),
             Gauge("all", 2)}

MCValueIn == <<2, 1, 4>>

=============================================================================
