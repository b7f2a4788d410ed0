---------------------------- MODULE TraceFilter ----------------------------
(***************************************************************************)
(* The idle-loop filter (src/tracer/rpoint-cs/plugin/trace_filter.c): one  *)
(* pass over a raw trace that holds back what follows a HLT until it knows *)
(* whether the CPU was woken for something.                                *)
(*                                                                         *)
(* Records are copied verbatim, so a buffered or written record is its     *)
(* position in the input.                                                  *)
(***************************************************************************)
EXTENDS TraceFiles

VARIABLES
  filter,  \* "waiting", "running", then "done" or "failed" (the exit status)
  state,   \* ACTIVE or IDLE_CANDIDATE
  pos,     \* in_total: records read
  idle,    \* the idle buffer, with its kernel_count
  out,     \* the records handed to the writer
  stats    \* the counters of the report

fvars == <<filter, state, pos, idle, out, stats>>

IdleBuffer == [ slots : Seq(Nat), kernel_count : Nat ]

Counter == {"in_user", "in_kernel", "out_user", "out_kernel", "idle_discarded",
            "idle_iters", "real_wakeups", "hlt_seen"}

Stats == [Counter -> Nat]

NoStats == [c \in Counter |-> 0]

EmptyBuffer == [ slots |-> << >>, kernel_count |-> 0 ]

FilterInit ==
  /\ filter = "waiting" /\ state = "ACTIVE" /\ pos = 0
  /\ idle = EmptyBuffer /\ out = << >> /\ stats = NoStats

(* The header decides: an AArch64 trace is refused, as is an unknown one.  *)
OpenRaw ==
  /\ filter = "waiting"
  /\ filter' = IF raw.format = "x86_64" THEN "running" ELSE "failed"
  /\ UNCHANGED <<state, pos, idle, out, stats>>

---------------------------------------------------------------------------
rec == raw.recs[pos + 1]

ReadRecord ==
  /\ filter = "running" /\ pos < Len(raw.recs)
  /\ pos' = pos + 1
  /\ UNCHANGED filter

Plus(s, inc) == [c \in Counter |-> s[c] + (IF c \in DOMAIN inc THEN inc[c] ELSE 0)]

One(b) == IF b THEN 1 ELSE 0

Seen == Plus(stats, [ in_user |-> One(rec.user), in_kernel |-> One(~rec.user),
                      hlt_seen |-> One(rec.hlt) ])

idle_buffer_append(b, is_kernel) ==
  [ slots |-> Append(b.slots, pos + 1),
    kernel_count |-> b.kernel_count + One(is_kernel) ]

Copy ==
  /\ ReadRecord /\ state = "ACTIVE" /\ ~rec.hlt
  /\ out' = Append(out, pos + 1)
  /\ stats' = Plus(Seen, [ out_user |-> One(rec.user), out_kernel |-> One(~rec.user) ])
  /\ UNCHANGED <<state, idle>>

FirstHlt ==
  /\ ReadRecord /\ state = "ACTIVE" /\ rec.hlt
  /\ state' = "IDLE_CANDIDATE"
  /\ idle' = idle_buffer_append(EmptyBuffer, ~rec.user)
  /\ stats' = Seen
  /\ UNCHANGED out

\* Mutant: the new candidate goes on top of the discarded run.
NextHlt_appends ==
  /\ ReadRecord /\ state = "IDLE_CANDIDATE" /\ rec.hlt
  /\ stats' = Plus(Seen, [ idle_discarded |-> idle.kernel_count, idle_iters |-> 1 ])
  /\ idle' = idle_buffer_append(idle, ~rec.user)
  /\ UNCHANGED <<state, out>>

(* HLT to HLT without user mode in between: the run is dropped, and this   *)
(* HLT starts a new candidate.                                             *)
NextHlt ==
  /\ ReadRecord /\ state = "IDLE_CANDIDATE" /\ rec.hlt
  /\ stats' = Plus(Seen, [ idle_discarded |-> idle.kernel_count, idle_iters |-> 1 ])
  /\ idle' = idle_buffer_append(EmptyBuffer, ~rec.user)
  /\ UNCHANGED <<state, out>>

(* A real wake-up; what was buffered counts as kernel instructions.        *)
WakeUp ==
  /\ ReadRecord /\ state = "IDLE_CANDIDATE" /\ ~rec.hlt /\ rec.user
  /\ out' = out \o Append(idle.slots, pos + 1)
  /\ stats' = Plus(Seen, [ out_kernel |-> Len(idle.slots), out_user |-> 1,
                           real_wakeups |-> 1 ])
  /\ idle' = EmptyBuffer
  /\ state' = "ACTIVE"

Buffer ==
  /\ ReadRecord /\ state = "IDLE_CANDIDATE" /\ ~rec.hlt /\ ~rec.user
  /\ idle' = idle_buffer_append(idle, TRUE)
  /\ stats' = Seen
  /\ UNCHANGED <<state, out>>

(* Wherever the input ends, the buffer is flushed, the frame finished and  *)
(* the exit status 0 -- also after a complaint about a broken record.      *)
Finish ==
  /\ filter = "running" /\ pos = Len(raw.recs) /\ raw.tail # "value"
  /\ filter' = "done"
  /\ out' = out \o idle.slots
  /\ stats' = Plus(stats, [ out_kernel |-> Len(idle.slots) ])
  /\ UNCHANGED <<state, pos, idle>>

(* exit(1) on the spot: what the writer still buffers is lost.             *)
Abort ==
  /\ filter = "running" /\ pos = Len(raw.recs) /\ raw.tail = "value"
  /\ filter' = "failed"
  /\ \E n \in 0 .. Len(out) : out' = SubSeq(out, 1, n)
  /\ UNCHANGED <<state, pos, idle, stats>>

FilterNext ==
  /\ \/ OpenRaw \/ Copy \/ FirstHlt \/ NextHlt \/ WakeUp \/ Buffer
     \/ Finish \/ Abort
  /\ UNCHANGED files

FilterSpec ==
  /\ raw \in RawFile /\ input = raw /\ champsim = NoTrace /\ FilterInit
  /\ [][FilterNext]_<<files, fvars>>

OnDisk(n, t) ==
  [ format |-> raw.format, recs |-> [i \in 1 .. n |-> raw.recs[out[i]]], tail |-> t ]

(* What a filter that ended with status 0 leaves on the disk: nobody looks *)
(* at the result of fwrite, so on a full disk it is some first part.       *)
Filtered ==
  {OnDisk(Len(out), "end")}
    \cup {OnDisk(n, t) : n \in 0 .. Len(out), t \in {"cut", "header", "bytes", "memop"}}

---------------------------------------------------------------------------
(* An instruction belongs to an idle iteration when it lies between two    *)
(* HLTs, the first included, with no user-mode instruction in between.     *)
IdleIteration(i) ==
  \E a \in 1 .. i, b \in i + 1 .. Len(raw.recs) :
    /\ raw.recs[a].hlt /\ raw.recs[b].hlt
    /\ \A k \in a .. b : ~raw.recs[k].user

(* HLT is privileged: it only retires in kernel mode.                      *)
HltIsKernel == \A i \in DOMAIN raw.recs : ~(raw.recs[i].hlt /\ raw.recs[i].user)

Increasing(s) == \A i, j \in DOMAIN s : i < j => s[i] < s[j]

Removed == {i \in DOMAIN raw.recs : IdleIteration(i)}

(* The one-pass machine removes exactly the idle iterations, wherever the  *)
(* capture stops, keeps everything else in its order, and reports as       *)
(* discarded what is missing from its output.                              *)
FilterExact ==
  filter = "done" /\ HltIsKernel =>
    /\ \A i \in DOMAIN raw.recs :
         (\E j \in DOMAIN out : out[j] = i) <=> i \notin Removed
    /\ Increasing(out)
    /\ Len(out) + stats.idle_discarded = Len(raw.recs)
    /\ stats.out_user + stats.out_kernel = Len(out)
    /\ stats.out_user = stats.in_user

(* What makes it so while the filter runs.  What it has not decided on is  *)
(* the end of what it has read, held back from its HLT on ...              *)
Settled == pos - Len(idle.slots)

Undecided ==
  /\ Len(idle.slots) <= pos
  /\ \A k \in DOMAIN idle.slots : idle.slots[k] = Settled + k
  /\ \A k \in Settled + 2 .. pos : ~raw.recs[k].hlt
  /\ state = "IDLE_CANDIDATE" =>
       /\ idle.slots # << >> /\ raw.recs[Settled + 1].hlt
       /\ \A k \in Settled + 1 .. pos : ~raw.recs[k].user
  /\ state = "ACTIVE" =>
       /\ idle.slots = << >>
       /\ \A a \in 1 .. pos : raw.recs[a].hlt => \E k \in a .. pos : raw.recs[k].user

(* ... and about the rest it has decided as the whole trace would have it. *)
IdleBefore(i, n) ==
  \E a \in 1 .. i, b \in i + 1 .. n :
    /\ raw.recs[a].hlt /\ raw.recs[b].hlt
    /\ \A k \in a .. b : ~raw.recs[k].user

DecidedUpTo(m, n, o) ==
  /\ \A j \in DOMAIN o : o[j] \in 1 .. m
  /\ Increasing(o)
  /\ \A i \in 1 .. m : (\E j \in DOMAIN o : o[j] = i) <=> ~IdleBefore(i, n)

Decided == DecidedUpTo(Settled, pos, out)

Tallied ==
  /\ Len(out) + stats.idle_discarded + Len(idle.slots) = pos
  /\ idle.kernel_count = Len(idle.slots)
  /\ stats.out_user + stats.out_kernel = Len(out)
  /\ stats.out_user = stats.in_user

OnePass ==
  filter \in {"waiting", "running"} /\ HltIsKernel => Undecided /\ Decided /\ Tallied

(* The type invariant of the filter.                                       *)
FilterTypeOK ==
  /\ filter \in {"waiting", "running", "done", "failed"}
  /\ state \in {"ACTIVE", "IDLE_CANDIDATE"}
  /\ pos \in 0 .. Len(raw.recs)
  /\ idle \in IdleBuffer
  /\ out \in Seq(Nat)
  /\ stats \in Stats
===========================================================================
