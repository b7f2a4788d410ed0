---------------------------- MODULE MCPinTracer ----------------------------
(***************************************************************************)
(* Instances of PinTracer for TLC.                                         *)
(***************************************************************************)
EXTENDS PinTracer, TLC

CONSTANTS t1, t2, t3

TwoThreads == {t1, t2}
ThreeThreads == {t1, t2, t3}
Symmetry == Permutations(TwoThreads)

Markers ==
  [ use_markers |-> TRUE, traces |-> Threads, initial_skip |-> 0,
    inter_sample_skip |-> 1, trace_per_sample |-> 2, sample_limit |-> 2,
    offsets |-> << >>, skip_master_tracing |-> FALSE,
    trace_only_registered_workers |-> FALSE, exit_on_done |-> TRUE ]

(* An orchestrator and its registered workers, one sample each.            *)
Workers ==
  [Markers EXCEPT !.sample_limit = 1, !.skip_master_tracing = TRUE,
                  !.trace_only_registered_workers = TRUE]

Skips == [Markers EXCEPT !.use_markers = FALSE, !.initial_skip = 2]

(* The second region follows the first at once, the third after a gap.     *)
Regions ==
  [Markers EXCEPT !.use_markers = FALSE, !.inter_sample_skip = 0,
                  !.trace_per_sample = 1, !.sample_limit = 3, !.offsets = <<1, 2, 4>>]

(* One thread of the program is traced, for as long as it runs.            *)
Alone(t) ==
  [Markers EXCEPT !.traces = {t}, !.sample_limit = 0, !.trace_per_sample = 1]

AllKnobs == {Markers, Workers, Skips, Regions} \cup {Alone(t) : t \in Threads}
OnlyWorkers == {Workers}
Failing == {Regions}

\* Two samples and what is to be skipped, fewer with the many markers.
Insns ==
  [k \in Knobs |-> IF k.use_markers THEN 3 ELSE 7]
=============================================================================
