----------------------- MODULE ChampSimTracerProps -----------------------
(***************************************************************************)
(* What the chunk files of ChampSimTracer contain, judged against the      *)
(* history of the guest: slices, gaps, manifests, and the refinement of    *)
(* SliceSchedule.                                                          *)
(***************************************************************************)
EXTENDS ChampSimTracer

Positions(recs) == [i \in DOMAIN recs |-> recs[i].pos]

(* The records of chunk c, with those not yet written to its file.         *)
ChunkRecords(s, c) ==
  s.files[c].recs \o
    (IF c = Len(s.files)
     THEN s.inbuf \o (IF s.has_pending THEN <<s.pending>> ELSE << >>)
     ELSE << >>)

(* A slice per chunk; only the newest can still be without a record.       *)
Slices(s) ==
  LET n == Len(s.files)
      begun == IF ChunkRecords(s, n) = << >> THEN n - 1 ELSE n
  IN [c \in 1 .. begun |-> Positions(ChunkRecords(s, c))]

Plan ==
  [ len |-> IF sampling THEN knobs.sample_len ELSE knobs.rotate_interval,
    gap |-> IF sampling THEN knobs.sample_gap ELSE 0,
    count |-> IF sampling THEN knobs.sample_count ELSE 0,
    limit |-> knobs.insn_limit,
    clock_user |-> sampling /\ knobs.clock_user ]

Schedule(v) ==
  INSTANCE SliceSchedule WITH plan <- Plan, hist <- guest[v].hist,
    slices <- Slices(vs[v]), stopped <- vs[v].limit_reached

(* The recorder, with its one-instruction delay, its buffer and its two    *)
(* places that leave a gap, captures exactly the slices of the plan, as    *)
(* long as the disk takes what is written.                                 *)
(* (Schedule(v)!Spec for every v, with the quantifier inside the box.)     *)
ImplementsSchedule ==
  /\ \A v \in VCPUS : Schedule(v)!Init
  /\ [][\A v \in VCPUS :
         disk_full' \/ [Schedule(v)!Next]_(Schedule(v)!schedule)]_vars

(* The rows of a finished run cover the records: every chunk that holds    *)
(* any is listed, with the stream position of its first record.            *)
ManifestComplete ==
  run = "exited" /\ chunking_active /\ ~disk_full =>
    \A v \in VCPUS : \A c \in DOMAIN vs[v].files :
      LET recs == vs[v].files[c].recs
      IN  recs # << >> /\ vs[v].manifest_fp =>
            \E i \in DOMAIN vs[v].manifest :
              /\ vs[v].manifest[i].chunk = c - 1
              /\ vs[v].manifest[i].start = Head(recs).pos - 1

(* One row per chunk.                                                      *)
OneRowPerChunk ==
  \A v \in VCPUS : \A i, j \in DOMAIN vs[v].manifest :
    vs[v].manifest[i].chunk = vs[v].manifest[j].chunk => i = j

(* One row per chunk, except when the guest exits in a gap: a boundary     *)
(* that is reached twice, a stop at a boundary, a chunk that cannot be     *)
(* opened or an exit right after a boundary do not list a chunk again.     *)
OneRowUnlessExitInGap ==
  \A v \in VCPUS :
    ~(run = "exited" /\ vs[v].sample_skipping) =>
      \A i, j \in DOMAIN vs[v].manifest :
        vs[v].manifest[i].chunk = vs[v].manifest[j].chunk => i = j
===========================================================================
