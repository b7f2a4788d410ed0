-------------------------- MODULE ChampSimTracer --------------------------
(***************************************************************************)
(* The per-vCPU recorder of the QEMU tracing plugin                        *)
(* (src/tracer/rpoint-cs/plugin/champsim_tracer.c).                        *)
(*                                                                         *)
(* QEMU calls the plugin once before every guest instruction               *)
(* (insn_exec_cb) and once per memory access of that instruction (mem_cb). *)
(* An instruction is kept as `pending' until the next callback, because    *)
(* its memory operands arrive after it; then it is appended to the buffer  *)
(* of the current chunk file.  Chunks are cut by rotate= (contiguous) or   *)
(* by sample_len=/sample_gap= (windows with gaps), and a manifest gets a   *)
(* row for every chunk that was closed with instructions in it.            *)
(*                                                                         *)
(* The functions of the C code that take a VcpuState pointer are written   *)
(* here as operators from a vCPU state to a vCPU state; the callbacks are  *)
(* the actions.                                                            *)
(***************************************************************************)
EXTENDS Integers, Sequences, FiniteSets

CONSTANTS
  VCPUS,           \* the traced vCPUs
  Knobs,           \* the command lines the runs consider (see KnobsAssumption)
  FlushThreshold,  \* records the input buffer holds
  MaxMemOps,       \* MAX_MEM_OPS: operands kept per instruction
  MaxInsns,        \* bound, by command line: traced instructions of each vCPU
  MaxAccesses,     \* bound, by command line: memory accesses per instruction
  FullDisks        \* the command lines whose output file system can fill up

(* 0 switches a knob off, as in the code.                                  *)
Knob == [ rotate_interval : Nat, sample_len : Nat, sample_gap : Nat,
          sample_count : Nat, clock_user : BOOLEAN, insn_limit : Nat,
          use_trigger : BOOLEAN ]

ASSUME KnobsAssumption ==
  /\ Knobs \subseteq Knob
  /\ \A k \in Knobs : ~(k.rotate_interval > 0 /\ k.sample_len > 0)

ASSUME BoundsAssumption ==
  /\ FlushThreshold \in Nat \ {0}
  /\ MaxMemOps \in Nat
  /\ MaxInsns \in [Knobs -> [VCPUS -> Nat]]
  /\ MaxAccesses \in [Knobs -> Nat]
  /\ FullDisks \subseteq Knobs

VARIABLES
  knobs,            \* the command line of this run
  tracing_enabled,  \* the trigger has fired (or none was asked for)
  vs,               \* vcpu_state[v], with the files and the manifest it owns
  guest,            \* history: what the guest executed on each vCPU
  run,              \* "running", then "exited" (atexit) or "killed"
  disk_full         \* the output file system has run out of space

vars == <<knobs, tracing_enabled, vs, guest, run, disk_full>>

---------------------------------------------------------------------------
(* A record names the instruction it describes by its position among the   *)
(* instructions executed on its vCPU while tracing was enabled; ops lists, *)
(* per attached memory operand, the position of the instruction that       *)
(* really made the access (0: one executed while the tracer was dormant).  *)
Record == [ pos : Nat, user : BOOLEAN, ops : Seq(Nat) ]

NoRecord == [ pos |-> 0, user |-> FALSE, ops |-> << >> ]

Chunk == [ recs : Seq(Record), closed : BOOLEAN ]

Row == [ chunk : Nat, start : Nat, count : Nat ]

VcpuState ==
  [ open : BOOLEAN,               \* outfile # NULL
    inbuf : Seq(Record),
    has_pending : BOOLEAN,
    pending : Record,
    insn_count : Nat,
    chunk_insn_count : Nat,
    chunk_index : Nat,
    chunk_start_insn : Nat,
    stream_insns : Nat,
    limit_reached : BOOLEAN,
    sample_skipping : BOOLEAN,
    sample_phase_insns : Nat,
    sample_windows_done : Nat,
    sample_finished : BOOLEAN,
    manifest_fp : BOOLEAN,        \* the manifest could be opened (closed at exit)
    files : Seq(Chunk),           \* chunk file i is files[i + 1]
    manifest : Seq(Row) ]

chunking_active == knobs.rotate_interval > 0 \/ knobs.sample_len > 0
sampling == knobs.sample_len > 0

EmptyChunk == [ recs |-> << >>, closed |-> FALSE ]

---------------------------------------------------------------------------
(* The functions that work on a VcpuState.  Definitions marked `Mutant' are *)
(* plausible slips in the operator that follows them; no specification     *)
(* uses them, they show that a property notices the slip.                  *)

\* Mutant: inbuf_pos is not reset.
flush_buffer_kept(s) ==
  IF ~s.open THEN s
  ELSE [s EXCEPT !.files[s.chunk_index + 1].recs =
                     IF disk_full THEN @ ELSE @ \o s.inbuf]

(* The stream goes to the chunk file; on a full disk the short write is    *)
(* not noticed and the data is gone (the return of fwrite is not read).    *)
flush_buffer(s) ==
  IF ~s.open THEN s
  ELSE [s EXCEPT !.files[s.chunk_index + 1].recs =
                     IF disk_full THEN @ ELSE @ \o s.inbuf,
                 !.inbuf = << >>]

buffer_append(s, r) ==
  [(IF Len(s.inbuf) >= FlushThreshold THEN flush_buffer(s) ELSE s)
     EXCEPT !.inbuf = Append(@, r)]

finalize_pending_insn(s) ==
  IF ~s.has_pending THEN s
  ELSE [buffer_append(s, s.pending) EXCEPT !.insn_count = @ + 1,
                                           !.chunk_insn_count = @ + 1,
                                           !.has_pending = FALSE]

(* fopen(..., "wb"): a new file, or the old one of that index truncated.   *)
Created(files, index) ==
  IF index < Len(files) THEN [files EXCEPT ![index + 1] = EmptyChunk]
                        ELSE Append(files, EmptyChunk)

\* Mutant: a window is placed by the captured count, as a rotated chunk is.
open_chunk_captured(s) ==
  [s EXCEPT !.inbuf = << >>, !.open = TRUE,
            !.files = Created(@, s.chunk_index), !.chunk_insn_count = 0,
            !.chunk_start_insn = s.insn_count]

open_chunk(s) ==
  [s EXCEPT !.inbuf = << >>,
            !.open = TRUE,
            !.files = Created(@, s.chunk_index),
            !.chunk_insn_count = 0,
            !.chunk_start_insn =
               IF ~sampling THEN s.insn_count
               ELSE IF s.stream_insns > 0 THEN s.stream_insns - 1 ELSE 0]

(* What the three callers do when open_chunk returns false.                *)
open_failed(s) ==
  [s EXCEPT !.inbuf = << >>, !.chunk_insn_count = 0, !.limit_reached = TRUE]

\* Mutant: chunk_index is not advanced.
next_chunk_same_index(s, ok) == IF ok THEN open_chunk(s) ELSE open_failed(s)

next_chunk(s, ok) ==
  LET n == [s EXCEPT !.chunk_index = @ + 1]
  IN  IF ok THEN open_chunk(n) ELSE open_failed(n)

\* The chunk file finalized and closed.
Closed(f) == IF ~f.open THEN f
             ELSE [f EXCEPT !.open = FALSE,
                            !.files[f.chunk_index + 1].closed = TRUE]

Listed(g) ==
  [g EXCEPT !.manifest = Append(@, [chunk |-> g.chunk_index,
                                    start |-> g.chunk_start_insn,
                                    count |-> g.chunk_insn_count])]

\* Mutant: the buffer is not drained.
close_chunk_undrained(s) ==
  LET g == Closed(finalize_pending_insn(s))
  IN  IF chunking_active /\ g.manifest_fp /\ g.chunk_insn_count > 0
      THEN Listed(g) ELSE g

close_chunk(s) ==
  LET g == Closed(flush_buffer(finalize_pending_insn(s)))
  IN  IF chunking_active /\ g.manifest_fp /\ g.chunk_insn_count > 0
      THEN Listed(g) ELSE g

\* Mutant: pending_num_mem_ops is not reset.
store_pending_same_ops(s, pos, user) ==
  [s EXCEPT !.has_pending = TRUE, !.pending.pos = pos, !.pending.user = user]

(* The end of insn_exec_cb: the instruction becomes the pending one.       *)
store_pending(s, pos, user) ==
  [s EXCEPT !.has_pending = TRUE,
            !.pending = [pos |-> pos, user |-> user, ops |-> << >>]]

(* insn_exec_cb below the sampling code: limit=, rotate=, then store.      *)
capture(s, pos, user, ok) ==
  IF knobs.insn_limit > 0 /\ s.insn_count >= knobs.insn_limit
  THEN flush_buffer([s EXCEPT !.limit_reached = TRUE])
  ELSE IF knobs.rotate_interval > 0 /\ s.chunk_insn_count >= knobs.rotate_interval
       THEN LET n == next_chunk(close_chunk(s), ok)
            IN  IF ok THEN store_pending(n, pos, user) ELSE n
       ELSE store_pending(s, pos, user)

(* The gap counter: user instructions only under sample_clock=user.        *)
tick_gap(s, user) ==
  IF ~knobs.clock_user \/ user
  THEN [s EXCEPT !.sample_phase_insns = @ + 1] ELSE s

starts_window(user) == ~knobs.clock_user \/ user

(* Leaving the gap: reopen, and this instruction is the window's first.    *)
begin_window(s, pos, user, ok) ==
  LET n == next_chunk([s EXCEPT !.sample_skipping = FALSE,
                                !.sample_phase_insns = 0], ok)
  IN  IF ok THEN capture(finalize_pending_insn(n), pos, user, ok) ELSE n

\* Mutant: off by one.
window_overfull(s) == s.chunk_insn_count > knobs.sample_len

window_full(s) == s.chunk_insn_count >= knobs.sample_len

last_window(s) ==
  knobs.sample_count > 0 /\ s.sample_windows_done + 1 >= knobs.sample_count

end_window(s) ==
  [close_chunk(s) EXCEPT !.sample_windows_done = @ + 1,
                         !.sample_phase_insns = 0]

\* Mutant: the count of the window just closed survives.
finish_sampling_stale(s) ==
  [end_window(s) EXCEPT !.sample_finished = TRUE, !.limit_reached = TRUE]

finish_sampling(s) ==
  [end_window(s) EXCEPT !.sample_finished = TRUE,
                        !.limit_reached = TRUE,
                        !.chunk_insn_count = 0]

enter_gap(s) == [end_window(s) EXCEPT !.sample_skipping = TRUE]

---------------------------------------------------------------------------
InitVcpu(fp) ==
  open_chunk([ open |-> FALSE, inbuf |-> << >>, has_pending |-> FALSE,
               pending |-> NoRecord, insn_count |-> 0, chunk_insn_count |-> 0,
               chunk_index |-> 0, chunk_start_insn |-> 0, stream_insns |-> 0,
               limit_reached |-> FALSE, sample_skipping |-> FALSE,
               sample_phase_insns |-> 0, sample_windows_done |-> 0,
               sample_finished |-> FALSE, manifest_fp |-> fp,
               files |-> << >>, manifest |-> << >> ])

(* The state of the vCPUs as qemu_plugin_install leaves it when it         *)
(* succeeds, whatever the knobs.                                           *)
Init ==
  /\ knobs \in Knobs
  /\ tracing_enabled = ~knobs.use_trigger
  /\ \E fp \in [VCPUS -> BOOLEAN] :
       /\ ~chunking_active => \A v \in VCPUS : ~fp[v]
       /\ vs = [v \in VCPUS |-> InitVcpu(fp[v])]
  /\ guest = [v \in VCPUS |-> [hist |-> << >>, cur |-> 0, accesses |-> 0]]
  /\ run = "running" /\ disk_full = FALSE

(* The guest executes its next instruction on v, traced or not.            *)
Execute(v, user) ==
  /\ run = "running"
  /\ Len(guest[v].hist) < MaxInsns[knobs][v]
  /\ guest' = [guest EXCEPT ![v] = [hist |-> Append(@.hist, user),
                                    cur |-> Len(@.hist) + 1,
                                    accesses |-> 0]]

Update(v, s) ==
  /\ vs' = [vs EXCEPT ![v] = s]
  /\ UNCHANGED <<knobs, tracing_enabled, run, disk_full>>

(* insn_exec_cb before the trigger: nothing is recorded; the poll that     *)
(* finds the file (Trigger.tla) enables tracing for every vCPU.            *)
DormantInsn(v) ==
  /\ run = "running"
  /\ ~tracing_enabled
  /\ tracing_enabled' \in BOOLEAN
  /\ guest' = [guest EXCEPT ![v].cur = 0, ![v].accesses = 0]
  /\ UNCHANGED <<knobs, vs, run, disk_full>>

StoppedInsn(v, user) ==
  /\ Execute(v, user)
  /\ tracing_enabled /\ vs[v].limit_reached
  /\ UNCHANGED <<knobs, tracing_enabled, vs, run, disk_full>>

(* The callback goes on: the instruction counts in the stream.             *)
Seen(v, user) ==
  /\ Execute(v, user)
  /\ tracing_enabled /\ ~vs[v].limit_reached

Counted(v) == [vs[v] EXCEPT !.stream_insns = @ + 1]

(* sample_finished is only set together with limit_reached, so the code's  *)
(* own test of it, after this point, never decides anything.               *)
InGap(v) == sampling /\ vs[v].sample_skipping

SkipInsn(v, user) ==
  /\ Seen(v, user) /\ InGap(v)
  /\ vs[v].sample_phase_insns < knobs.sample_gap
  /\ Update(v, tick_gap(finalize_pending_insn(Counted(v)), user))

AwaitUserInsn(v, user) ==
  /\ Seen(v, user) /\ InGap(v)
  /\ vs[v].sample_phase_insns >= knobs.sample_gap
  /\ ~starts_window(user)
  /\ Update(v, finalize_pending_insn(Counted(v)))

BeginWindowInsn(v, user, ok) ==
  /\ Seen(v, user) /\ InGap(v)
  /\ vs[v].sample_phase_insns >= knobs.sample_gap
  /\ starts_window(user)
  /\ Update(v, begin_window(finalize_pending_insn(Counted(v)),
                            Len(guest[v].hist) + 1, user, ok))

InWindow(v) == sampling => ~vs[v].sample_skipping

CaptureInsn(v, user, ok) ==
  LET s == finalize_pending_insn(Counted(v))
  IN  /\ Seen(v, user) /\ InWindow(v)
      /\ ~(sampling /\ window_full(s))
      /\ Update(v, capture(s, Len(guest[v].hist) + 1, user, ok))

EndWindowInsn(v, user, ok) ==
  LET s == finalize_pending_insn(Counted(v))
      g == enter_gap(s)
  IN  /\ Seen(v, user) /\ InWindow(v)
      /\ sampling /\ window_full(s)
      /\ \/ /\ last_window(s)
            /\ Update(v, finish_sampling(s))
         \/ /\ ~last_window(s) /\ knobs.sample_gap > 0
            /\ Update(v, tick_gap(g, user))
         \/ /\ ~last_window(s) /\ knobs.sample_gap = 0 /\ ~starts_window(user)
            /\ Update(v, g)
         \/ /\ ~last_window(s) /\ knobs.sample_gap = 0 /\ starts_window(user)
            /\ Update(v, begin_window(g, Len(guest[v].hist) + 1, user, ok))

insn_exec_cb(v) ==
  \/ DormantInsn(v)
  \/ \E user, ok \in BOOLEAN :
       \/ StoppedInsn(v, user)
       \/ SkipInsn(v, user)
       \/ AwaitUserInsn(v, user)
       \/ BeginWindowInsn(v, user, ok)
       \/ CaptureInsn(v, user, ok)
       \/ EndWindowInsn(v, user, ok)

(* One more access by the instruction that is executing on v.              *)
mem_cb(v) ==
  /\ run = "running"
  /\ guest[v].accesses < MaxAccesses[knobs]
  /\ guest' = [guest EXCEPT ![v].accesses = @ + 1]
  /\ vs' = IF /\ tracing_enabled
              /\ ~vs[v].limit_reached /\ vs[v].has_pending
              /\ Len(vs[v].pending.ops) < MaxMemOps
           THEN [vs EXCEPT ![v].pending.ops = Append(@, guest[v].cur)]
           ELSE vs
  /\ UNCHANGED <<knobs, tracing_enabled, run, disk_full>>

plugin_atexit ==
  /\ run = "running"
  /\ run' = "exited"
  /\ vs' = [v \in VCPUS |-> close_chunk(vs[v])]
  /\ UNCHANGED <<knobs, tracing_enabled, guest, disk_full>>

(* QEMU dies without running its exit handlers.                            *)
Kill ==
  /\ run = "running"
  /\ run' = "killed"
  /\ UNCHANGED <<knobs, tracing_enabled, vs, guest, disk_full>>

DiskFills ==
  /\ knobs \in FullDisks
  /\ run = "running"
  /\ ~disk_full /\ disk_full' = TRUE
  /\ UNCHANGED <<knobs, tracing_enabled, vs, guest, run>>

Next ==
  \/ \E v \in VCPUS : insn_exec_cb(v) \/ mem_cb(v)
  \/ plugin_atexit
  \/ Kill
  \/ DiskFills

Spec == Init /\ [][Next]_vars

---------------------------------------------------------------------------
(* Properties.                                                             *)

TypeOK ==
  /\ knobs \in Knobs
  /\ tracing_enabled \in BOOLEAN
  /\ vs \in [VCPUS -> VcpuState]
  /\ guest \in [VCPUS -> [hist : Seq(BOOLEAN), cur : Nat, accesses : Nat]]
  /\ run \in {"running", "exited", "killed"}
  /\ disk_full \in BOOLEAN

(* A manifest row vouches for its chunk: at any moment, hence also after a *)
(* crash, the file it names has been finalized and closed, and holds       *)
(* exactly the number of records the row says (close_chunk writes the row  *)
(* last, after the buffer, the zstd frame and fclose).  Only a full disk   *)
(* breaks the promise, because the code reads no result of fwrite.         *)
RowsSound(s) ==
  \A i \in DOMAIN s.manifest :
    LET row == s.manifest[i]
        c   == row.chunk + 1
    IN  /\ c \in DOMAIN s.files
        /\ s.files[c].closed
        /\ Len(s.files[c].recs) = row.count

ManifestSound == ~disk_full => \A v \in VCPUS : RowsSound(vs[v])

(* A chunk is a slice of the execution without holes, duplicates or        *)
(* reorderings, whatever the buffer still holds and even if the disk fills *)
(* up while it is written.                                                 *)
ContiguousChunks ==
  \A v \in VCPUS : \A c \in DOMAIN vs[v].files :
    LET recs == vs[v].files[c].recs
    IN  \A i \in 1 .. Len(recs) - 1 : recs[i + 1].pos = recs[i].pos + 1

(* A memory operand is attached to the instruction that made the access:   *)
(* not to its predecessor, and never to a captured instruction when the    *)
(* access came from a skipped, stopped or dormant one.                     *)
OwnOps(r) == \A i \in DOMAIN r.ops : r.ops[i] = r.pos

MemOpsOwn ==
  \A v \in VCPUS :
    /\ vs[v].has_pending => OwnOps(vs[v].pending)
    /\ \A i \in DOMAIN vs[v].inbuf : OwnOps(vs[v].inbuf[i])
    /\ \A c \in DOMAIN vs[v].files : \A i \in DOMAIN vs[v].files[c].recs :
         OwnOps(vs[v].files[c].recs[i])

(* A chunk that was closed is final: no later step reopens, truncates or   *)
(* extends it, and manifest rows are only ever added at the end.           *)
ClosedStays ==
  [][\A v \in VCPUS :
       /\ \A c \in DOMAIN vs[v].files :
            vs[v].files[c].closed =>
              c \in DOMAIN vs'[v].files /\ vs'[v].files[c] = vs[v].files[c]
       /\ SubSeq(vs'[v].manifest, 1, Len(vs[v].manifest)) = vs[v].manifest]_vars

---------------------------------------------------------------------------
(* The inductive invariant behind ManifestSound, per vCPU.                 *)
CurrentChunk(s) == s.files[s.chunk_index + 1]

(* The open chunk is the last file, and the records it counts are those in *)
(* the file and in the buffer; a closed recorder holds nothing back, and   *)
(* its count, if it still has one, is that of the file it has just closed. *)
Accounted(s) ==
  /\ s.open => /\ Len(s.files) = s.chunk_index + 1
               /\ ~CurrentChunk(s).closed
               /\ Len(CurrentChunk(s).recs) + Len(s.inbuf) = s.chunk_insn_count
  /\ ~s.open => ~s.has_pending /\ s.inbuf = << >>
  /\ ~s.open /\ s.chunk_insn_count > 0 =>
       /\ Len(s.files) = s.chunk_index + 1
       /\ CurrentChunk(s).closed
       /\ Len(CurrentChunk(s).recs) = s.chunk_insn_count
  /\ ~s.limit_reached => Len(s.files) = s.chunk_index + 1

(* While the guest runs, a vCPU without a file is in a gap or stopped.     *)
Recording(s) ==
  /\ s.sample_skipping => sampling
  /\ ~s.open => s.limit_reached \/ s.sample_skipping
  /\ s.sample_skipping => ~s.open

RecorderInv ==
  ~disk_full =>
    \A v \in VCPUS : /\ Accounted(vs[v])
                     /\ RowsSound(vs[v])
                     /\ run = "running" => Recording(vs[v])
===========================================================================
