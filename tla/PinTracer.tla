----------------------------- MODULE PinTracer -----------------------------
(***************************************************************************)
(* The Pin tool that samples a multi-threaded program                      *)
(* (src/tracer/pintool/pin/champsim_tracer_mt_roi_v3.cpp).                 *)
(*                                                                         *)
(* Every thread walks through phases of its own; what the threads share    *)
(* are a few atomics and the code cache.  Pin instruments a stretch of     *)
(* code (a trace) when it first runs it, according to the atomics of that  *)
(* moment: for nothing but markers, for skipping block by block, or for    *)
(* recording each instruction.  It stays as it is in the code cache until  *)
(* some thread calls PIN_RemoveInstrumentation, and a thread inside a      *)
(* trace finishes it even then.                                            *)
(*                                                                         *)
(* A callback is a local step followed by its operations on shared state,  *)
(* which other threads may come between: they wait in `todo'.  Each reads  *)
(* the ROI flags once, as both only ever go from FALSE to TRUE.            *)
(***************************************************************************)
EXTENDS Integers, Sequences, FiniteSets

CONSTANTS
  Threads,      \* application threads
  Knobs,        \* the command lines the runs consider (see KnobsAssumption)
  Blocks,       \* lengths of basic blocks
  Unwritable,   \* the command lines whose sample files may fail to open
  MaxInsns      \* bound: instructions a thread executes, by command line

(* offsets is << >> unless -offsets was given; traces are the threads that *)
(* -main_only and -trace_tid leave.                                        *)
Knob ==
  [ use_markers : BOOLEAN, traces : SUBSET Threads,
    initial_skip : Nat, inter_sample_skip : Nat, trace_per_sample : Nat,
    sample_limit : Nat, offsets : Seq(Nat), skip_master_tracing : BOOLEAN,
    trace_only_registered_workers : BOOLEAN, exit_on_done : BOOLEAN ]

\* validate_offsets; -t 0 is not refused but means 2^64 instructions.
KnobsAssumption ==
  /\ Knobs \subseteq Knob
  /\ \A k \in Knobs :
       /\ k.trace_per_sample > 0
       /\ k.offsets # << >> =>
            /\ ~k.use_markers /\ k.initial_skip = 0 /\ k.inter_sample_skip = 0
            /\ k.sample_limit = Len(k.offsets)
       /\ \A i \in 1 .. Len(k.offsets) - 1 :
            k.offsets[i + 1] - k.offsets[i] >= k.trace_per_sample

ASSUME PinAssumption ==
  /\ IsFiniteSet(Threads)
  /\ KnobsAssumption
  /\ Blocks \subseteq Nat \ {0}
  /\ Unwritable \subseteq Knobs /\ MaxInsns \in [Knobs -> Nat]

VARIABLES
  knobs,
  roi,       \* [started, ended]: roi_started, roi_ended
  active,    \* active_tracing_threads
  counts,    \* [started, done]: g_threads_started_tracing, g_threads_reached_done
  exit,      \* "no", "called" (PIN_ExitApplication), "over" (Fini has run)
  cache,     \* instrumentations of the traces in the code cache
  th         \* per thread: its ThreadState and where it is

global == <<knobs, roi, active, counts, exit, cache>>
vars == <<global, th>>

Modes == {"none", "markers", "skip", "full"}

Phases == {"UNTRACED", "WAITING_FOR_ROI", "INITIAL_SKIP", "TRACING", "INTER_SKIP", "DONE"}

Operations == {"add", "join", "sub", "started", "done", "load", "test", "remove"}

(* pos counts the instructions the thread has executed; a record is the    *)
(* position of its instruction.  hasty is a history variable: the thread   *)
(* joined the tracing threads, and code that does not record was still in  *)
(* the code cache.                                                         *)
Sample == [ recs : Seq(Nat), file : {"open", "closed", "failed"} ]

ThreadState ==
  [ life : {"unborn", "alive", "exiting", "gone"},
    phase : Phases, counter : Nat, samples_collected : Nat,
    is_registered_worker : BOOLEAN, ever_started_tracing : BOOLEAN,
    ever_reached_done : BOOLEAN, samples : Seq(Sample),
    mode : Modes, todo : Seq(Operations), snap : Nat, pos : Nat, hasty : BOOLEAN ]

Unborn ==
  [ life |-> "unborn", phase |-> "UNTRACED", counter |-> 0, samples_collected |-> 0,
    is_registered_worker |-> FALSE, ever_started_tracing |-> FALSE,
    ever_reached_done |-> FALSE, samples |-> << >>,
    mode |-> "none", todo |-> << >>, snap |-> 0, pos |-> 0, hasty |-> FALSE ]

Init ==
  /\ knobs \in Knobs
  /\ roi = [started |-> FALSE, ended |-> FALSE]
  /\ active = 0
  /\ counts = [started |-> 0, done |-> 0]
  /\ exit = "no"
  /\ cache = {}
  /\ th = [t \in Threads |-> Unborn]

---------------------------------------------------------------------------
(* The functions that work on a ThreadState.                               *)
Opens == IF knobs \in Unwritable THEN {"open", "failed"} ELSE {"open"}

open_next_sample(s, file) ==
  [s EXCEPT !.samples = Append(@, [recs |-> << >>, file |-> file])]

force_close(s) ==
  IF s.samples = << >> \/ s.samples[Len(s.samples)].file # "open" THEN s
  ELSE [s EXCEPT !.samples[Len(s.samples)].file = "closed"]

(* phase, counter and the file; then the operations of enter_tracing or of *)
(* its like in CheckROITransition and ThreadStart.                         *)
Begun(s, file, operations) ==
  [open_next_sample(s, file) EXCEPT !.phase = "TRACING",
                                    !.counter = knobs.trace_per_sample,
                                    !.todo = operations]

enter_tracing == <<"add", "started", "remove">>

(* What the end of the ROI means for a thread that notices it.             *)
Stopped(s) ==
  [force_close(s) EXCEPT !.phase = "DONE",
                         !.todo = IF s.phase = "TRACING" THEN <<"sub", "done">> ELSE <<"done">>]

Collected(s) == [force_close(s) EXCEPT !.samples_collected = @ + 1]

QuotaReached(s) == knobs.sample_limit > 0 /\ s.samples_collected >= knobs.sample_limit

(* The distance to the next sample.                                        *)
Gap(s) ==
  IF knobs.offsets = << >> THEN knobs.inter_sample_skip
  ELSE knobs.offsets[s.samples_collected + 1]
         - (knobs.offsets[s.samples_collected] + knobs.trace_per_sample)

\* Mutant: the quota is tested before the sample is counted.
finish_sample_late(s, file) ==
  LET n == Collected(s)
  IN  IF knobs.sample_limit > 0 /\ s.samples_collected >= knobs.sample_limit
      THEN [n EXCEPT !.phase = "DONE", !.todo = <<"done", "sub", "remove">>]
      ELSE IF knobs.inter_sample_skip > 0
      THEN [n EXCEPT !.phase = "INTER_SKIP", !.counter = knobs.inter_sample_skip,
                     !.todo = <<"sub", "remove">>]
      ELSE Begun(n, file, << >>)

(* finish_sample, with what leave_tracing does when it does not re-enter.  *)
finish_sample(s, file) ==
  LET n == Collected(s)
  IN  IF QuotaReached(n)
      THEN [n EXCEPT !.phase = "DONE", !.todo = <<"done", "sub", "remove">>]
      ELSE IF Gap(n) > 0
      THEN [n EXCEPT !.phase = "INTER_SKIP", !.counter = Gap(n), !.todo = <<"sub", "remove">>]
      ELSE Begun(n, file, << >>)

Recorded(s) ==
  [s EXCEPT !.counter = @ - 1,
            !.samples[Len(s.samples)].recs =
               IF s.samples[Len(s.samples)].file = "open" THEN Append(@, s.pos) ELSE @]

---------------------------------------------------------------------------
(* Shared operations of a callback, one at a time.                         *)
Update(t, s) == th' = [th EXCEPT ![t] = s]

Doing(t, op) ==
  /\ exit # "over" /\ th[t].life = "alive"
  /\ th[t].todo # << >> /\ Head(th[t].todo) = op

Next1(t) == [th[t] EXCEPT !.todo = Tail(@)]

Add(t) ==
  /\ Doing(t, "add")
  /\ active' = active + 1
  /\ Update(t, Next1(t))
  /\ UNCHANGED <<knobs, roi, counts, exit, cache>>

Stale == cache \ {"full"} # {}

\* Mutant: v2, which never flushes here.
AddFirst_v2(t) ==
  /\ Doing(t, "join")
  /\ active' = active + 1
  /\ Update(t, [Next1(t) EXCEPT !.hasty = active # 0 /\ Stale])
  /\ UNCHANGED <<knobs, roi, counts, exit, cache>>

(* CheckROITransition flushes the code cache only on the way from 0 to 1.  *)
AddFirst(t) ==
  /\ Doing(t, "join")
  /\ active' = active + 1
  /\ Update(t, [Next1(t) EXCEPT !.hasty = active # 0 /\ Stale,
                                !.todo = IF active = 0 THEN @ \o <<"remove">> ELSE @])
  /\ UNCHANGED <<knobs, roi, counts, exit, cache>>

Subtract(t) ==
  /\ Doing(t, "sub")
  /\ active' = active - 1
  /\ Update(t, Next1(t))
  /\ UNCHANGED <<knobs, roi, counts, exit, cache>>

mark_started_tracing(t) ==
  /\ Doing(t, "started")
  /\ counts' = IF th[t].ever_started_tracing THEN counts
               ELSE [counts EXCEPT !.started = @ + 1]
  /\ Update(t, [Next1(t) EXCEPT !.ever_started_tracing = TRUE])
  /\ UNCHANGED <<knobs, roi, active, exit, cache>>

mark_reached_done(t) ==
  /\ Doing(t, "done")
  /\ IF th[t].ever_reached_done
     THEN Update(t, Next1(t)) /\ UNCHANGED counts
     ELSE /\ counts' = [counts EXCEPT !.done = @ + 1]
          /\ Update(t, [Next1(t) EXCEPT !.ever_reached_done = TRUE,
                                        !.todo = IF knobs.exit_on_done
                                                 THEN <<"load", "test">> \o @ ELSE @])
  /\ UNCHANGED <<knobs, roi, active, exit, cache>>

(* maybe_exit_on_done loads the two counters one after the other.          *)
LoadStarted(t) ==
  /\ Doing(t, "load")
  /\ Update(t, [Next1(t) EXCEPT !.snap = counts.started])
  /\ UNCHANGED global

\* Mutant: an exit needs one thread more.
AllDone_strict(t) == th[t].snap # 0 /\ counts.done > th[t].snap

AllDone(t) == th[t].snap # 0 /\ counts.done >= th[t].snap

(* PIN_ExitApplication does not return; it is called once.                 *)
maybe_exit_on_done(t) ==
  /\ Doing(t, "test")
  /\ \/ /\ AllDone(t) /\ exit = "no"
        /\ exit' = "called"
        /\ Update(t, [Next1(t) EXCEPT !.life = "exiting"])
     \/ /\ ~(AllDone(t) /\ exit = "no")
        /\ Update(t, Next1(t))
        /\ UNCHANGED exit
  /\ UNCHANGED <<knobs, roi, active, counts, cache>>

RemoveInstrumentation(t) ==
  /\ Doing(t, "remove")
  /\ cache' = {}
  /\ Update(t, Next1(t))
  /\ UNCHANGED <<knobs, roi, active, counts, exit>>

Operation(t) ==
  \/ Add(t) \/ AddFirst(t) \/ Subtract(t) \/ mark_started_tracing(t)
  \/ mark_reached_done(t) \/ LoadStarted(t) \/ maybe_exit_on_done(t)
  \/ RemoveInstrumentation(t)

---------------------------------------------------------------------------
(* The program runs.                                                       *)
Running(t) == exit = "no" /\ th[t].life = "alive" /\ th[t].todo = << >>

InstrumentTrace ==
  IF roi.ended THEN "none"
  ELSE IF knobs.use_markers /\ ~roi.started THEN "markers"
  ELSE IF active > 0 THEN "full" ELSE "skip"

Checks(s) == s.mode \in {"skip", "full"} /\ s.phase \notin {"UNTRACED", "DONE"}

WakesUp(s) ==
  /\ roi.started /\ s.phase = "WAITING_FOR_ROI"
  /\ knobs.trace_only_registered_workers => s.is_registered_worker

(* A thread enters a trace, one of the code cache or one that is compiled  *)
(* for it now; CheckROITransition runs on the way in.                      *)
EnterTrace(t) ==
  /\ Running(t) /\ th[t].pos < MaxInsns[knobs]
  /\ \E m \in cache \cup {InstrumentTrace} :
       LET s == [th[t] EXCEPT !.mode = m]
       IN  /\ cache' = cache \cup {m}
           /\ \/ ~Checks(s) /\ Update(t, s)
              \/ Checks(s) /\ roi.ended /\ Update(t, Stopped(s))
              \/ /\ Checks(s) /\ ~roi.ended /\ WakesUp(s)
                 /\ \E file \in Opens : Update(t, Begun(s, file, <<"join", "started">>))
              \/ Checks(s) /\ ~roi.ended /\ ~WakesUp(s) /\ Update(t, s)
  /\ UNCHANGED <<knobs, roi, active, counts, exit>>

Executes(t, n) == [th[t] EXCEPT !.pos = @ + n]

\* Mutant: a trace is charged when it is entered, also for what it skips.
Charge_trace(n) == n + 1

Charge(n) == n

(* A basic block under FastForwardInitial and FastForwardInter; its own    *)
(* instructions still run without being recorded.                          *)
SkipBlock(t) ==
  /\ Running(t) /\ th[t].mode = "skip"
  /\ \E n \in Blocks :
       LET s == Executes(t, n)
           skipping == s.phase \in {"INITIAL_SKIP", "INTER_SKIP"}
       IN  /\ s.pos <= MaxInsns[knobs]
           /\ \/ ~skipping /\ Update(t, s)
              \/ /\ skipping /\ s.counter > Charge(n)
                 /\ Update(t, [s EXCEPT !.counter = @ - Charge(n)])
              \/ /\ skipping /\ s.counter <= Charge(n)
                 /\ \E file \in Opens : Update(t, Begun(s, file, enter_tracing))
  /\ UNCHANGED global

RecordInstrCommit(t) ==
  LET s == Executes(t, 1)
      r == Recorded(s)
  IN  /\ Running(t) /\ s.pos <= MaxInsns[knobs]
      /\ th[t].mode = "full"
      /\ \/ s.phase # "TRACING" /\ Update(t, s)
         \/ s.phase = "TRACING" /\ s.counter > 1 /\ Update(t, r)
         \/ /\ s.phase = "TRACING" /\ s.counter = 1
            /\ \E file \in Opens : Update(t, finish_sample(r, file))
      /\ UNCHANGED global

(* Code without analysis of its instructions.                              *)
PlainInsn(t) ==
  /\ Running(t) /\ th[t].pos < MaxInsns[knobs]
  /\ th[t].mode \in {"none", "markers"}
  /\ Update(t, Executes(t, 1))
  /\ UNCHANGED global

(* HandleMarker.  The flags are set for good by whoever comes first, and a *)
(* second marker of the kind does nothing.                                 *)
Marker(t) == Running(t) /\ knobs.use_markers /\ th[t].mode # "none"

RoiBegin(t) ==
  LET s == th[t]
  IN  /\ Marker(t) /\ ~roi.started
      /\ roi' = [roi EXCEPT !.started = TRUE]
      /\ \/ s.phase = "UNTRACED" /\ UNCHANGED th
         \/ /\ s.phase # "UNTRACED" /\ knobs.skip_master_tracing
            /\ Update(t, [s EXCEPT !.phase = "DONE", !.todo = <<"done">>])
         \/ /\ s.phase = "WAITING_FOR_ROI" /\ ~knobs.skip_master_tracing
            /\ \E file \in Opens : Update(t, Begun(s, file, enter_tracing))
      /\ UNCHANGED <<knobs, active, counts, exit, cache>>

RegisterWorker(t) ==
  /\ Marker(t) /\ th[t].phase # "UNTRACED" /\ ~th[t].is_registered_worker
  /\ Update(t, [th[t] EXCEPT !.is_registered_worker = TRUE])
  /\ UNCHANGED global

(* The program marks the end of a region only after its beginning.         *)
RoiEnd(t) ==
  LET s == Stopped(th[t])
  IN  /\ Marker(t) /\ roi.started /\ ~roi.ended
      /\ roi' = [roi EXCEPT !.ended = TRUE]
      /\ \/ th[t].phase = "UNTRACED" /\ UNCHANGED th
         \/ th[t].phase # "UNTRACED" /\ Update(t, [s EXCEPT !.todo = @ \o <<"remove">>])
      /\ UNCHANGED <<knobs, active, counts, exit, cache>>

(* A thread that starts after roi_begin begins to trace at once.           *)
FirstSkip == IF knobs.offsets = << >> THEN knobs.initial_skip ELSE knobs.offsets[1]

ThreadStart(t) ==
  LET born == [th[t] EXCEPT !.life = "alive"]
      waits == knobs.use_markers /\ ~roi.started
      skips == ~knobs.use_markers /\ FirstSkip > 0
  IN  /\ exit = "no" /\ th[t].life = "unborn"
      /\ \/ t \notin knobs.traces /\ Update(t, born)
         \/ /\ t \in knobs.traces /\ waits
            /\ Update(t, [born EXCEPT !.phase = "WAITING_FOR_ROI"])
         \/ /\ t \in knobs.traces /\ skips
            /\ Update(t, [born EXCEPT !.phase = "INITIAL_SKIP", !.counter = FirstSkip])
         \/ /\ t \in knobs.traces /\ ~waits /\ ~skips
            /\ \E file \in Opens : Update(t, Begun(born, file, enter_tracing))
      /\ UNCHANGED global

Leaving(t) == th[t].life = "exiting" \/ (th[t].life = "alive" /\ th[t].todo = << >>)

\* Mutant: a thread that ends while it traces is forgotten.
ThreadFini_uncounted(t) ==
  /\ exit # "over" /\ Leaving(t)
  /\ Update(t, [force_close(th[t]) EXCEPT !.life = "gone"])
  /\ UNCHANGED global

ThreadFini(t) ==
  /\ exit # "over" /\ Leaving(t)
  /\ active' = IF th[t].phase = "TRACING" THEN active - 1 ELSE active
  /\ Update(t, [force_close(th[t]) EXCEPT !.life = "gone"])
  /\ UNCHANGED <<knobs, roi, counts, exit, cache>>

(* The process ends, with threads still in it.                             *)
Fini ==
  /\ exit # "over"
  /\ \A t \in Threads : th[t].life \in {"unborn", "gone"} \/ Leaving(t)
  /\ exit' = "over"
  /\ th' = [t \in Threads |-> force_close(th[t])]
  /\ UNCHANGED <<knobs, roi, active, counts, cache>>

---------------------------------------------------------------------------
Program(t) ==
  \/ EnterTrace(t) \/ SkipBlock(t) \/ RecordInstrCommit(t) \/ PlainInsn(t)
  \/ RoiBegin(t) \/ RegisterWorker(t) \/ RoiEnd(t)

Next ==
  \/ \E t \in Threads : Operation(t) \/ Program(t) \/ ThreadStart(t) \/ ThreadFini(t)
  \/ Fini

Spec == Init /\ [][Next]_vars

---------------------------------------------------------------------------
(* Properties.                                                             *)

(* Every variable keeps its type; active_tracing_threads, a signed int,    *)
(* never drops below zero.                                                 *)
TypeOK ==
  /\ knobs \in Knobs
  /\ roi \in [started : BOOLEAN, ended : BOOLEAN]
  /\ active \in Nat
  /\ counts \in [started : Nat, done : Nat]
  /\ exit \in {"no", "called", "over"}
  /\ cache \subseteq Modes
  /\ th \in [Threads -> ThreadState]

(* The operation is still to come in a queue.                              *)
Awaits(q, op) == \E i \in DOMAIN q : q[i] = op

(* A thread stands in active_tracing_threads from its fetch_add to its     *)
(* fetch_sub, however it came to trace and to stop.                        *)
Counted(s) ==
  \/ Awaits(s.todo, "sub")
  \/ /\ s.phase = "TRACING" /\ s.life # "gone"
     /\ ~Awaits(s.todo, "add") /\ ~Awaits(s.todo, "join")

(* active_tracing_threads is the number of threads that trace: a count too *)
(* high keeps every thread on the slow path, and one too low ends the      *)
(* recording of threads that still trace.                                  *)
ActiveCounted == active = Cardinality({t \in Threads : Counted(th[t])})

(* A sample holds instructions that were executed one after the other: no  *)
(* thread that traces runs through code instrumented for skipping, except  *)
(* one that joined before the first tracing thread flushed the code cache. *)
NoHoles ==
  \A t \in Threads : ~th[t].hasty =>
    \A i \in DOMAIN th[t].samples :
      LET recs == th[t].samples[i].recs
      IN  \A j \in 1 .. Len(recs) - 1 : recs[j + 1] = recs[j] + 1

(* A thread never opens more samples than -n or -offsets asks for, and a   *)
(* sample that was finished has exactly -t records.                        *)
SampleExact ==
  \A t \in Threads :
    /\ knobs.sample_limit > 0 => Len(th[t].samples) <= knobs.sample_limit
    /\ \A i \in DOMAIN th[t].samples :
         LET s == th[t].samples[i]
         IN  /\ Len(s.recs) <= knobs.trace_per_sample
             /\ i <= th[t].samples_collected /\ s.file # "failed"
                  => Len(s.recs) = knobs.trace_per_sample

(* Where the command line puts a sample.                                   *)
Start(i) ==
  IF knobs.offsets # << >> THEN knobs.offsets[i]
  ELSE (IF knobs.use_markers THEN 0 ELSE knobs.initial_skip)
         + (i - 1) * (knobs.trace_per_sample + knobs.inter_sample_skip)

(* No sample begins earlier in the thread than -i, -s or -offsets say, and *)
(* no two are closer to each other.                                        *)
NeverEarly ==
  \A t \in Threads :
    LET recs(i) == th[t].samples[i].recs
        Begins == {i \in DOMAIN th[t].samples : recs(i) # << >>}
    IN  /\ \A i \in Begins : Head(recs(i)) > Start(i)
        /\ \A i, j \in Begins :
             i < j => Head(recs(j)) - Head(recs(i)) >= Start(j) - Start(i)

HasStarted(t) == th[t].ever_started_tracing
HasFinished(t) == th[t].ever_reached_done

(* With -exit_on_done the last thread to be done ends the program: the     *)
(* counters of several threads never add up unseen.                        *)
ExitNotMissed ==
  /\ knobs.exit_on_done
  /\ \A t \in Threads : th[t].todo = << >>
  /\ \E t \in Threads : HasStarted(t)
  /\ \A t \in Threads : HasStarted(t) => HasFinished(t)
  => exit # "no"

(* The knob's own text: PIN_ExitApplication is called "once every thread   *)
(* that ever entered TRACING has reached DONE".  Not so: a thread that is  *)
(* DONE without having traced counts for one that still traces.            *)
ExitNotEarly ==
  exit = "called" => \A t \in Threads : HasStarted(t) => HasFinished(t)
=============================================================================
