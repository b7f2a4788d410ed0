------------------------ MODULE MCChampSimTracer ------------------------
(* The command lines the runs of ChampSimTracer consider.                  *)
EXTENDS ChampSimTracerProps

CONSTANTS v1, v2

Base == [ rotate_interval |-> 0, sample_len |-> 0, sample_gap |-> 0,
          sample_count |-> 0, clock_user |-> TRUE, insn_limit |-> 0,
          use_trigger |-> FALSE ]

(* One file per vCPU, or rotate=1..3, with and without limit=.             *)
RotateKnobs ==
  { [Base EXCEPT !.rotate_interval = n, !.insn_limit = l]
      : n \in 0 .. 3, l \in {0, 2, 4} }

(* Both clocks, gaps of none, one and two, bounded and unbounded windows.  *)
SampleKnobs ==
  { [Base EXCEPT !.sample_len = n, !.sample_gap = g, !.sample_count = k,
                 !.clock_user = c, !.insn_limit = l]
      : n \in 1 .. 2, g \in 0 .. 2, k \in {0, 1, 3}, c \in BOOLEAN, l \in {0, 3} }

(* Two vCPUs behind one trigger.                                           *)
TriggerKnobs ==
  { [Base EXCEPT !.use_trigger = TRUE, !.rotate_interval = 2],
    [Base EXCEPT !.use_trigger = TRUE, !.sample_len = 1, !.sample_gap = 1,
                 !.clock_user = FALSE] }

ChunkKnobs == RotateKnobs \cup SampleKnobs

AllKnobs == ChunkKnobs \cup TriggerKnobs

GapKnobs == { [Base EXCEPT !.sample_len = 1, !.sample_gap = 2] }

(* Both vCPUs run, access memory and meet a full disk behind the trigger;  *)
(* the command lines about chunks get one vCPU and longer executions.      *)
Insns ==
  [k \in Knobs |-> [v \in VCPUS |-> IF k.use_trigger THEN 3
                                    ELSE IF v # v1 THEN 0
                                    ELSE 6 + k.sample_gap \div 2]]

Accesses == [k \in Knobs |-> IF k.use_trigger THEN 1 ELSE 0]

Failing == Knobs \cap TriggerKnobs
=========================================================================
