-------------------------- MODULE PinTracer_proofs --------------------------
(***************************************************************************)
(* The tracer's counts, samples and exit are right for every number of     *)
(* threads and every command line.  A thread changes its phase in one step *)
(* and performs the operations on shared state that go with it in later    *)
(* ones, between which other threads may do anything: the queue of its     *)
(* operations links the two.                                               *)
(*                                                                         *)
(*   PinInv     what stands in the queues, and active_tracing_threads      *)
(*   SampleInv  where each thread stands in its schedule, what its sample  *)
(*              still lacks, and that the code cache records what it runs  *)
(*   ExitInv    what g_threads_started_tracing and g_threads_reached_done  *)
(*              count, and that some thread is about to compare them       *)
(***************************************************************************)
EXTENDS PinTracer, FiniteSetTheorems, TLAPS

Adds(q) == Awaits(q, "add") \/ Awaits(q, "join")

(* An addition comes first in a queue, and a subtraction only once.        *)
Queue(q) ==
  /\ \A i \in DOMAIN q : q[i] \in {"add", "join"} => i = 1
  /\ \A i, j \in DOMAIN q : q[i] = "sub" /\ q[j] = "sub" => i = j

(* What holds of a thread between any two steps.                           *)
Sound(s) ==
  /\ s \in ThreadState
  /\ Queue(s.todo)
  /\ Adds(s.todo) => s.phase = "TRACING" /\ s.life = "alive"
  /\ Awaits(s.todo, "sub") => s.phase # "TRACING"
  /\ s.phase = "TRACING" => s.samples # << >>
  /\ s.life = "unborn" => s.phase = "UNTRACED" /\ s.todo = << >>

(* Before the markers are seen nobody traces.                              *)
Waits(s, k, r) ==
  k.use_markers /\ ~r.started => s.phase \in {"UNTRACED", "WAITING_FOR_ROI"}

PinInv ==
  /\ TypeOK
  /\ roi.ended => roi.started
  /\ \A t \in Threads : Sound(th[t]) /\ Waits(th[t], knobs, roi)
  /\ ActiveCounted

---------------------------------------------------------------------------
(* Queues.                                                                 *)

LEMMA QueuePop ==
  ASSUME NEW q \in Seq(Operations), q # << >>, Queue(q)
  PROVE  /\ Tail(q) \in Seq(Operations)
         /\ Queue(Tail(q)) /\ ~Adds(Tail(q))
         /\ Adds(q) <=> Head(q) \in {"add", "join"}
         /\ Head(q) = "sub" => ~Awaits(Tail(q), "sub")
         /\ Head(q) = "sub" => Awaits(q, "sub")
         /\ Head(q) # "sub" => (Awaits(Tail(q), "sub") <=> Awaits(q, "sub"))
<1>1. Tail(q) \in Seq(Operations) /\ Len(q) \in Nat \ {0} /\ Len(Tail(q)) = Len(q) - 1
  OBVIOUS
<1>2. \A i \in 1 .. Len(q) - 1 : Tail(q)[i] = q[i + 1]
  OBVIOUS
<1>3. DOMAIN q = 1 .. Len(q) /\ DOMAIN Tail(q) = 1 .. Len(q) - 1 /\ Head(q) = q[1]
  BY <1>1
<1>4. Queue(Tail(q))
  BY <1>1, <1>2, <1>3 DEF Queue
<1>5. ~Adds(Tail(q))
  BY <1>1, <1>2, <1>3 DEF Queue, Adds, Awaits
<1>6. Adds(q) <=> Head(q) \in {"add", "join"}
  BY <1>1, <1>2, <1>3 DEF Queue, Adds, Awaits
<1>7. Head(q) = "sub" => ~Awaits(Tail(q), "sub") /\ Awaits(q, "sub")
  BY <1>1, <1>2, <1>3 DEF Queue, Awaits
<1>8. ASSUME Head(q) # "sub" PROVE Awaits(Tail(q), "sub") <=> Awaits(q, "sub")
  <2>1. ASSUME NEW i \in DOMAIN Tail(q), Tail(q)[i] = "sub" PROVE Awaits(q, "sub")
    BY <2>1, <1>1, <1>2, <1>3 DEF Awaits
  <2>2. ASSUME NEW i \in DOMAIN q, q[i] = "sub" PROVE Awaits(Tail(q), "sub")
    <3>1. i - 1 \in DOMAIN Tail(q) /\ Tail(q)[i - 1] = "sub"
      BY <2>2, <1>1, <1>2, <1>3, <1>8
    <3>2. QED
      BY <3>1 DEF Awaits
  <2>3. QED
    BY <2>1, <2>2 DEF Awaits
<1>9. QED
  BY <1>1, <1>4, <1>5, <1>6, <1>7, <1>8

LEMMA QueuePush ==
  ASSUME NEW q \in Seq(Operations), Queue(q), ~Adds(q)
  PROVE  /\ <<"load", "test">> \o q \in Seq(Operations)
         /\ Queue(<<"load", "test">> \o q) /\ ~Adds(<<"load", "test">> \o q)
         /\ Awaits(<<"load", "test">> \o q, "sub") <=> Awaits(q, "sub")
<1> DEFINE r == <<"load", "test">> \o q
<1>1. r \in Seq(Operations)
  BY DEF Operations
<1>2. DOMAIN r = 1 .. Len(q) + 2 /\ DOMAIN q = 1 .. Len(q) /\ Len(q) \in Nat
  OBVIOUS
<1>3. r[1] = "load" /\ r[2] = "test" /\ \A i \in 1 .. Len(q) : r[i + 2] = q[i]
  OBVIOUS
<1>4. \A j \in DOMAIN r : j = 1 \/ j = 2 \/ (j - 2 \in DOMAIN q /\ r[j] = q[j - 2])
  BY <1>2, <1>3
<1> HIDE DEF r
<1>5. ~Adds(r)
  BY <1>2, <1>3, <1>4 DEF Adds, Awaits
<1>6. Queue(r)
  <2>1. \A i \in DOMAIN r : r[i] \notin {"add", "join"}
    BY <1>5 DEF Adds, Awaits
  <2>2. \A j \in DOMAIN r : r[j] = "sub" => j - 2 \in DOMAIN q /\ q[j - 2] = "sub"
    BY <1>3, <1>4
  <2>3. ASSUME NEW i \in DOMAIN r, NEW j \in DOMAIN r, r[i] = "sub", r[j] = "sub"
        PROVE  i = j
    <3>1. i - 2 = j - 2
      BY <2>2, <2>3 DEF Queue
    <3>2. QED
      BY <1>2, <3>1
  <2>4. QED
    BY <2>1, <2>3 DEF Queue
<1>7. Awaits(r, "sub") <=> Awaits(q, "sub")
  <2>1. ASSUME NEW i \in DOMAIN q, q[i] = "sub" PROVE Awaits(r, "sub")
    <3>1. i + 2 \in DOMAIN r /\ r[i + 2] = "sub"
      BY <2>1, <1>2, <1>3
    <3>2. QED
      BY <3>1 DEF Awaits
  <2>2. ASSUME NEW j \in DOMAIN r, r[j] = "sub" PROVE Awaits(q, "sub")
    BY <2>2, <1>3, <1>4 DEF Awaits
  <2>3. QED
    BY <2>1, <2>2 DEF Awaits
<1>8. QED
  BY <1>1, <1>5, <1>6, <1>7 DEF r

LEMMA QueueRemove ==
  ASSUME NEW q \in Seq(Operations), Queue(q), ~Adds(q)
  PROVE  /\ q \o <<"remove">> \in Seq(Operations)
         /\ Queue(q \o <<"remove">>) /\ ~Adds(q \o <<"remove">>)
         /\ Awaits(q \o <<"remove">>, "sub") <=> Awaits(q, "sub")
<1> DEFINE r == q \o <<"remove">>
<1>1. r \in Seq(Operations)
  BY DEF Operations
<1>2. DOMAIN r = 1 .. Len(q) + 1 /\ DOMAIN q = 1 .. Len(q) /\ Len(q) \in Nat
  OBVIOUS
<1>3. r[Len(q) + 1] = "remove" /\ \A i \in 1 .. Len(q) : r[i] = q[i]
  OBVIOUS
<1> HIDE DEF r
<1>5. ~Adds(r)
  BY <1>2, <1>3 DEF Adds, Awaits
<1>6. Queue(r)
  BY <1>2, <1>3, <1>5 DEF Queue, Adds, Awaits
<1>7. Awaits(r, "sub") <=> Awaits(q, "sub")
  BY <1>2, <1>3 DEF Awaits
<1>8. QED
  BY <1>1, <1>5, <1>6, <1>7 DEF r

(* The queues that the callbacks set up.                                   *)
LEMMA QueueBegin ==
  ASSUME NEW q \in {<<"add", "started", "remove">>, <<"join", "started">>}
  PROVE  q \in Seq(Operations) /\ Queue(q) /\ Adds(q) /\ ~Awaits(q, "sub")
<1>1. CASE q = <<"add", "started", "remove">>
  BY <1>1 DEF Operations, Queue, Adds, Awaits
<1>2. CASE q = <<"join", "started">>
  BY <1>2 DEF Operations, Queue, Adds, Awaits
<1>3. QED
  BY <1>1, <1>2

LEMMA QueueStop ==
  ASSUME NEW q \in {<<"sub", "done">>, <<"sub", "remove">>, <<"done", "sub", "remove">>}
  PROVE  q \in Seq(Operations) /\ Queue(q) /\ ~Adds(q) /\ Awaits(q, "sub")
<1>1. CASE q = <<"sub", "done">>
  BY <1>1 DEF Operations, Queue, Adds, Awaits
<1>2. CASE q = <<"sub", "remove">>
  BY <1>2 DEF Operations, Queue, Adds, Awaits
<1>3. CASE q = <<"done", "sub", "remove">>
  BY <1>3 DEF Operations, Queue, Adds, Awaits
<1>4. QED
  BY <1>1, <1>2, <1>3

LEMMA QueueIdle ==
  ASSUME NEW q \in {<< >>, <<"done">>}
  PROVE  q \in Seq(Operations) /\ Queue(q) /\ ~Adds(q) /\ ~Awaits(q, "sub")
<1>1. CASE q = << >>
  BY <1>1 DEF Operations, Queue, Adds, Awaits
<1>2. CASE q = <<"done">>
  BY <1>2 DEF Operations, Queue, Adds, Awaits
<1>3. QED
  BY <1>1, <1>2

---------------------------------------------------------------------------
(* What every step has in common.                                          *)

Weight(s) == IF Counted(s) THEN 1 ELSE 0

LEMMA CountStep ==
  ASSUME ActiveCounted, th \in [Threads -> ThreadState],
         NEW t \in Threads, NEW s, Update(t, s),
         active' = active + Weight(s) - Weight(th[t])
  PROVE  ActiveCounted'
<1> DEFINE C == {u \in Threads : Counted(th[u])}
           D == {u \in Threads : Counted(th'[u])}
<1>1. th'[t] = s /\ \A u \in Threads \ {t} : th'[u] = th[u]
  BY DEF Update
<1>2. IsFiniteSet(C) /\ IsFiniteSet(C \ {t}) /\ Cardinality(C) \in Nat
  BY PinAssumption, FS_Subset, FS_CardinalityType
<1>3. active = Cardinality(C)
  BY DEF ActiveCounted
<1>4. CASE Counted(s) <=> Counted(th[t])
  <2>1. D = C
    BY <1>1, <1>4
  <2>2. active' = active
    BY <1>2, <1>3, <1>4 DEF Weight
  <2>3. QED
    BY <1>3, <2>1, <2>2 DEF ActiveCounted
<1>5. CASE Counted(s) /\ ~Counted(th[t])
  <2>1. D = C \cup {t} /\ t \notin C
    BY <1>1, <1>5
  <2>2. Cardinality(D) = Cardinality(C) + 1
    BY <1>2, <2>1, FS_AddElement
  <2>3. active' = active + 1
    BY <1>2, <1>3, <1>5 DEF Weight
  <2>4. QED
    BY <1>3, <2>2, <2>3 DEF ActiveCounted
<1>6. CASE ~Counted(s) /\ Counted(th[t])
  <2>1. D = C \ {t} /\ t \in C
    BY <1>1, <1>6
  <2>2. Cardinality(D) = Cardinality(C) - 1
    BY <1>2, <2>1, FS_RemoveElement
  <2>3. active' = active - 1
    BY <1>2, <1>3, <1>6 DEF Weight
  <2>4. QED
    BY <1>3, <2>2, <2>3 DEF ActiveCounted
<1>7. QED
  BY <1>4, <1>5, <1>6

(* The shared variables keep their types, the markers stay seen.           *)
GlobalStep ==
  /\ knobs' = knobs
  /\ roi' \in [started : BOOLEAN, ended : BOOLEAN]
  /\ (roi.started => roi'.started) /\ (roi'.ended => roi'.started)
  /\ counts' \in [started : Nat, done : Nat]
  /\ exit' \in {"no", "called", "over"}
  /\ cache' \subseteq Modes

(* A step of one thread.                                                   *)
LEMMA StepInv ==
  ASSUME PinInv, NEW t \in Threads, NEW s, Sound(s), Waits(s, knobs', roi'), GlobalStep, Update(t, s),
         active' = active + Weight(s) - Weight(th[t])
  PROVE  PinInv'
<1>1. th'[t] = s /\ \A u \in Threads \ {t} : th'[u] = th[u]
  BY DEF PinInv, TypeOK, Update
<1>2. ActiveCounted'
  BY CountStep DEF PinInv, TypeOK
<1>3. TypeOK'
  <2>1. active' \in Nat
    <3>1. IsFiniteSet({u \in Threads : Counted(th'[u])})
      BY PinAssumption, FS_Subset
    <3>2. QED
      BY <1>2, <3>1, FS_CardinalityType DEF ActiveCounted
  <2>2. th' \in [Threads -> ThreadState]
    BY DEF PinInv, TypeOK, Update, Sound
  <2>3. QED
    BY <2>1, <2>2 DEF PinInv, TypeOK, GlobalStep
<1>4. ASSUME NEW u \in Threads PROVE Sound(th'[u]) /\ Waits(th'[u], knobs', roi')
  <2>1. CASE u = t
    BY <1>1, <2>1
  <2>2. CASE u # t
    <3>1. Sound(th[u]) /\ Waits(th[u], knobs, roi) /\ th'[u] = th[u]
      BY <1>1, <2>2 DEF PinInv
    <3>2. QED
      BY <3>1 DEF Waits, GlobalStep
  <2>3. QED
    BY <2>1, <2>2
<1>5. QED
  BY <1>2, <1>3, <1>4 DEF PinInv, GlobalStep

---------------------------------------------------------------------------
(* The functions that work on a ThreadState.                               *)

LEMMA KnobTypes ==
  ASSUME PinInv
  PROVE  /\ knobs \in Knob
         /\ knobs.trace_per_sample > 0
         /\ knobs.offsets # << >> => knobs.sample_limit = Len(knobs.offsets)
         /\ \A i \in 1 .. Len(knobs.offsets) - 1 :
              knobs.offsets[i + 1] - knobs.offsets[i] >= knobs.trace_per_sample
BY PinAssumption DEF PinInv, TypeOK, KnobsAssumption

LEMMA SamplesTypes ==
  ASSUME NEW s \in ThreadState
  PROVE  /\ s.samples \in Seq(Sample) /\ Len(s.samples) \in Nat
         /\ \A i \in 1 .. Len(s.samples) : s.samples[i] \in Sample
         /\ s.samples # << >> => Len(s.samples) \in 1 .. Len(s.samples)
BY DEF ThreadState

LEMMA ForceClose ==
  ASSUME NEW s \in ThreadState
  PROVE  /\ force_close(s) \in ThreadState
         /\ force_close(s) = [s EXCEPT !.samples = force_close(s).samples]
         /\ s.samples # << >> => force_close(s).samples # << >>
<1> DEFINE n == Len(s.samples)
           c == [s.samples[n] EXCEPT !.file = "closed"]
<1>1. CASE s.samples = << >> \/ s.samples[n].file # "open"
  <2>1. force_close(s) = s
    BY <1>1 DEF force_close
  <2>2. s = [s EXCEPT !.samples = s.samples]
    BY DEF ThreadState
  <2>3. QED
    BY <2>1, <2>2
<1>2. CASE ~(s.samples = << >> \/ s.samples[n].file # "open")
  <2>1. n \in 1 .. Len(s.samples) /\ s.samples[n] \in Sample
    BY <1>2, SamplesTypes
  <2>2. c \in Sample
    BY <2>1 DEF Sample
  <2>3. [s.samples EXCEPT ![n] = c] \in Seq(Sample) /\ [s.samples EXCEPT ![n] = c] # << >>
    BY <2>1, <2>2, SamplesTypes
  <2>4. force_close(s) = [s EXCEPT !.samples = [s.samples EXCEPT ![n] = c]]
    BY <1>2 DEF force_close
  <2>5. QED
    BY <2>3, <2>4 DEF ThreadState
<1>3. QED
  BY <1>1, <1>2

LEMMA BegunState ==
  ASSUME PinInv, NEW s \in ThreadState, NEW file \in Opens, NEW q \in Seq(Operations)
  PROVE  /\ Begun(s, file, q) \in ThreadState
         /\ Begun(s, file, q).phase = "TRACING" /\ Begun(s, file, q).todo = q
         /\ Begun(s, file, q).life = s.life /\ Begun(s, file, q).samples # << >>
<1> DEFINE r == [recs |-> << >>, file |-> file]
<1>1. r \in Sample
  BY DEF Opens, Sample
<1>2. Append(s.samples, r) \in Seq(Sample) /\ Append(s.samples, r) # << >>
  <2>1. s.samples \in Seq(Sample)
    BY SamplesTypes
  <2>2. QED
    BY <1>1, <2>1
<1>3. knobs.trace_per_sample \in Nat
  BY KnobTypes DEF Knob
<1>4. Begun(s, file, q) =
        [s EXCEPT !.samples = Append(s.samples, r), !.phase = "TRACING",
                  !.counter = knobs.trace_per_sample, !.todo = q]
  BY DEF Begun, open_next_sample, ThreadState
<1>5. QED
  BY <1>2, <1>3, <1>4 DEF ThreadState, Phases

---------------------------------------------------------------------------
(* The shared operations.                                                  *)

(* An operation leaves the queue, and active_tracing_threads goes with it. *)
LEMMA PopState ==
  ASSUME PinInv, NEW t \in Threads, NEW op, Doing(t, op)
  PROVE  /\ Sound(Next1(t)) /\ ~Adds(Next1(t).todo)
         /\ Next1(t) = [th[t] EXCEPT !.todo = Tail(th[t].todo)]
         /\ Next1(t).life = "alive"
         /\ op \in {"add", "join"} => Weight(Next1(t)) = 1 /\ Weight(th[t]) = 0
         /\ op = "sub" => Weight(Next1(t)) = 0 /\ Weight(th[t]) = 1
         /\ op \notin {"add", "join", "sub"} => Weight(Next1(t)) = Weight(th[t])
<1> DEFINE s == th[t]
           n == Next1(t)
<1>1. Sound(s) /\ s \in ThreadState
  BY DEF PinInv, Sound
<1>2. s.todo \in Seq(Operations) /\ s.todo # << >> /\ Head(s.todo) = op /\ s.life = "alive"
  BY <1>1 DEF Doing, ThreadState
<1>3. /\ Tail(s.todo) \in Seq(Operations) /\ Queue(Tail(s.todo)) /\ ~Adds(Tail(s.todo))
      /\ Adds(s.todo) <=> op \in {"add", "join"}
      /\ op = "sub" => Awaits(s.todo, "sub") /\ ~Awaits(Tail(s.todo), "sub")
      /\ op # "sub" => (Awaits(Tail(s.todo), "sub") <=> Awaits(s.todo, "sub"))
  BY <1>1, <1>2, QueuePop DEF Sound
<1>4. n = [s EXCEPT !.todo = Tail(s.todo)]
  BY DEF Next1
<1>5. n \in ThreadState /\ n.todo = Tail(s.todo) /\ n.phase = s.phase /\ n.life = "alive"
      /\ n.samples = s.samples
  BY <1>1, <1>2, <1>3, <1>4 DEF ThreadState
<1>6. Sound(n)
  BY <1>1, <1>3, <1>5 DEF Sound
<1>7. Counted(s) <=> Awaits(s.todo, "sub") \/ (s.phase = "TRACING" /\ ~Adds(s.todo))
  BY <1>2 DEF Counted, Adds
<1>8. Counted(n) <=> Awaits(n.todo, "sub") \/ n.phase = "TRACING"
  BY <1>3, <1>5 DEF Counted, Adds
<1>9. op \in {"add", "join"} => Counted(n) /\ ~Counted(s)
  BY <1>1, <1>3, <1>5, <1>7, <1>8 DEF Sound
<1>10. op = "sub" => ~Counted(n) /\ Counted(s)
  BY <1>1, <1>3, <1>5, <1>7, <1>8 DEF Sound
<1>11. op \notin {"add", "join", "sub"} => (Counted(n) <=> Counted(s))
  BY <1>3, <1>5, <1>7, <1>8
<1>12. QED
  BY <1>3, <1>4, <1>5, <1>6, <1>9, <1>10, <1>11 DEF Weight

(* What may be done to a thread without touching the count.                *)
LEMMA SameWeight ==
  ASSUME NEW n, Sound(n), ~Adds(n.todo), n.life = "alive",
         NEW s \in ThreadState, s.phase = n.phase, s.life \in {"alive", "exiting"},
         s.samples = n.samples, Queue(s.todo), ~Adds(s.todo),
         Awaits(s.todo, "sub") <=> Awaits(n.todo, "sub")
  PROVE  Sound(s) /\ Weight(s) = Weight(n)
<1>1. Sound(s)
  BY DEF Sound
<1>2. Counted(s) <=> Counted(n)
  BY DEF Counted, Adds
<1>3. QED
  BY <1>1, <1>2 DEF Weight

(* A thread that performs an operation has left the first two phases when  *)
(* it had to, whatever it performs.                                        *)
LEMMA OperationInv ==
  ASSUME PinInv, NEW t \in Threads, Operation(t)
  PROVE  PinInv'
<1> DEFINE n == Next1(t)
<1>1. /\ th[t] \in ThreadState /\ Waits(th[t], knobs, roi) /\ active \in Int
      /\ roi \in [started : BOOLEAN, ended : BOOLEAN] /\ (roi.ended => roi.started)
      /\ counts \in [started : Nat, done : Nat] /\ exit \in {"no", "called", "over"}
      /\ cache \subseteq Modes
  BY DEF PinInv, TypeOK, Sound
<1>2. \A s : s.phase = th[t].phase => Waits(s, knobs, roi)
  BY <1>1 DEF Waits
<1>3. Weight(th[t]) \in {0, 1}
  BY DEF Weight
<1>4. CASE Add(t)
  <2>1. Doing(t, "add") /\ Update(t, n) /\ active' = active + 1 /\ GlobalStep /\ roi' = roi /\ knobs' = knobs
    BY <1>1, <1>4 DEF Add, GlobalStep
  <2>2. Sound(n) /\ n.phase = th[t].phase /\ Weight(n) = 1 /\ Weight(th[t]) = 0
    BY <2>1, <1>1, PopState DEF ThreadState
  <2>3. active' = active + Weight(n) - Weight(th[t])
    BY <1>1, <2>1, <2>2
  <2>4. QED
    BY <1>2, <2>1, <2>2, <2>3, StepInv
<1>5. CASE AddFirst(t)
  <2> DEFINE q == IF active = 0 THEN n.todo \o <<"remove">> ELSE n.todo
             s == [n EXCEPT !.hasty = active # 0 /\ Stale, !.todo = q]
  <2>1. Doing(t, "join") /\ Update(t, s) /\ active' = active + 1 /\ GlobalStep /\ roi' = roi /\ knobs' = knobs
    BY <1>1, <1>5 DEF AddFirst, GlobalStep, Next1, ThreadState
  <2>2. Sound(n) /\ ~Adds(n.todo) /\ n.phase = th[t].phase /\ n.life = "alive" /\ Weight(n) = 1 /\ Weight(th[t]) = 0
    BY <2>1, <1>1, PopState DEF ThreadState
  <2>3. n \in ThreadState /\ n.todo \in Seq(Operations) /\ Queue(n.todo)
    BY <2>2 DEF Sound, ThreadState
  <2>4. q \in Seq(Operations) /\ Queue(q) /\ ~Adds(q) /\ (Awaits(q, "sub") <=> Awaits(n.todo, "sub"))
    BY <2>2, <2>3, QueueRemove
  <2>5. /\ s \in ThreadState /\ s.phase = n.phase /\ s.life = "alive"
        /\ s.samples = n.samples /\ s.todo = q
    BY <2>2, <2>3, <2>4 DEF ThreadState
  <2>6. Sound(s) /\ Weight(s) = Weight(n)
    BY <2>2, <2>4, <2>5, SameWeight
  <2>7. active' = active + Weight(s) - Weight(th[t])
    BY <1>1, <2>1, <2>2, <2>6
  <2>8. QED
    BY <1>2, <2>1, <2>2, <2>5, <2>6, <2>7, StepInv
<1>6. CASE Subtract(t)
  <2>1. Doing(t, "sub") /\ Update(t, n) /\ active' = active - 1 /\ GlobalStep /\ roi' = roi /\ knobs' = knobs
    BY <1>1, <1>6 DEF Subtract, GlobalStep
  <2>2. Sound(n) /\ n.phase = th[t].phase /\ Weight(n) = 0 /\ Weight(th[t]) = 1
    BY <2>1, <1>1, PopState DEF ThreadState
  <2>3. active' = active + Weight(n) - Weight(th[t])
    BY <1>1, <2>1, <2>2
  <2>4. QED
    BY <1>2, <2>1, <2>2, <2>3, StepInv
<1>7. ASSUME NEW op \in {"started", "done", "load", "test", "remove"}, Doing(t, op),
             NEW s \in ThreadState, Update(t, s), GlobalStep, roi' = roi, active' = active,
             s.phase = n.phase, s.samples = n.samples, s.life \in {"alive", "exiting"},
             s.todo = n.todo \/ s.todo = <<"load", "test">> \o n.todo
      PROVE  PinInv'
  <2>1. Sound(n) /\ ~Adds(n.todo) /\ n.phase = th[t].phase /\ n.life = "alive" /\ Weight(n) = Weight(th[t])
    <3>1. /\ Sound(n) /\ ~Adds(n.todo) /\ n.life = "alive"
          /\ n = [th[t] EXCEPT !.todo = Tail(th[t].todo)]
          /\ op \notin {"add", "join", "sub"} => Weight(n) = Weight(th[t])
      BY <1>7, PopState
    <3>2. op \notin {"add", "join", "sub"}
      BY <1>7
    <3>3. n.phase = th[t].phase
      BY <3>1, <1>1 DEF ThreadState
    <3>4. QED
      BY <3>1, <3>2, <3>3
  <2>2. n.todo \in Seq(Operations) /\ Queue(n.todo)
    BY <2>1 DEF Sound, ThreadState
  <2>3. Queue(s.todo) /\ ~Adds(s.todo) /\ (Awaits(s.todo, "sub") <=> Awaits(n.todo, "sub"))
    BY <2>1, <2>2, <1>7, QueuePush
  <2>4. Sound(s) /\ Weight(s) = Weight(n)
    BY <2>1, <2>3, <1>7, SameWeight
  <2>5. active' = active + Weight(s) - Weight(th[t])
    BY <1>1, <1>3, <1>7, <2>1, <2>4
  <2>6. knobs' = knobs
    BY <1>7 DEF GlobalStep
  <2>7. QED
    BY <1>2, <1>7, <2>1, <2>4, <2>5, <2>6, StepInv
<1>8. ASSUME NEW op, Doing(t, op) PROVE n \in ThreadState /\ n.life = "alive"
  BY <1>8, PopState DEF Sound
<1>9. CASE mark_started_tracing(t)
  <2> DEFINE s == [n EXCEPT !.ever_started_tracing = TRUE]
  <2>1. Doing(t, "started") /\ Update(t, s) /\ GlobalStep /\ roi' = roi /\ active' = active
    BY <1>1, <1>9 DEF mark_started_tracing, GlobalStep
  <2>2. /\ s \in ThreadState /\ s.phase = n.phase /\ s.life = "alive"
        /\ s.samples = n.samples /\ s.todo = n.todo
    BY <1>8, <2>1 DEF ThreadState
  <2>3. QED
    BY <1>7, <2>1, <2>2
<1>10. CASE mark_reached_done(t)
  <2>1. Doing(t, "done") /\ GlobalStep /\ roi' = roi /\ active' = active
    BY <1>1, <1>10 DEF mark_reached_done, GlobalStep
  <2>2. CASE Update(t, n)
    BY <1>7, <1>8, <2>1, <2>2
  <2>3. CASE ~Update(t, n)
    <3> DEFINE q == IF knobs.exit_on_done THEN <<"load", "test">> \o n.todo ELSE n.todo
               s == [n EXCEPT !.ever_reached_done = TRUE, !.todo = q]
    <3>1. n \in ThreadState /\ n.life = "alive" /\ Sound(n) /\ ~Adds(n.todo)
      BY <2>1, PopState DEF Sound
    <3>2. Update(t, s)
      BY <1>10, <2>3, <3>1 DEF mark_reached_done, ThreadState
    <3>3. n.todo \in Seq(Operations) /\ q \in Seq(Operations)
      BY <3>1, QueuePush DEF Sound, ThreadState
    <3>4. /\ s \in ThreadState /\ s.phase = n.phase /\ s.life = "alive"
          /\ s.samples = n.samples /\ s.todo = q
      BY <3>1, <3>3 DEF ThreadState
    <3>5. QED
      BY <1>7, <2>1, <3>2, <3>4
  <2>4. QED
    BY <2>2, <2>3
<1>11. CASE LoadStarted(t)
  <2> DEFINE s == [n EXCEPT !.snap = counts.started]
  <2>1. Doing(t, "load") /\ Update(t, s) /\ GlobalStep /\ roi' = roi /\ active' = active
    BY <1>1, <1>11 DEF LoadStarted, GlobalStep, global
  <2>2. /\ s \in ThreadState /\ s.phase = n.phase /\ s.life = "alive"
        /\ s.samples = n.samples /\ s.todo = n.todo
    BY <1>1, <1>8, <2>1 DEF ThreadState
  <2>3. QED
    BY <1>7, <2>1, <2>2
<1>12. CASE maybe_exit_on_done(t)
  <2> DEFINE s == [n EXCEPT !.life = "exiting"]
  <2>1. Doing(t, "test") /\ GlobalStep /\ roi' = roi /\ active' = active
    BY <1>1, <1>12 DEF maybe_exit_on_done, GlobalStep
  <2>2. CASE Update(t, n)
    BY <1>7, <1>8, <2>1, <2>2
  <2>3. CASE Update(t, s)
    <3>1. /\ s \in ThreadState /\ s.phase = n.phase /\ s.life = "exiting"
          /\ s.samples = n.samples /\ s.todo = n.todo
      BY <1>8, <2>1 DEF ThreadState
    <3>2. QED
      BY <1>7, <2>1, <2>3, <3>1
  <2>4. QED
    BY <1>12, <2>2, <2>3 DEF maybe_exit_on_done
<1>13. CASE RemoveInstrumentation(t)
  <2>1. Doing(t, "remove") /\ Update(t, n) /\ GlobalStep /\ roi' = roi /\ active' = active
    BY <1>1, <1>13 DEF RemoveInstrumentation, GlobalStep
  <2>2. QED
    BY <1>7, <1>8, <2>1
<1>14. QED
  BY <1>4, <1>5, <1>6, <1>9, <1>10, <1>11, <1>12, <1>13 DEF Operation

---------------------------------------------------------------------------
(* The steps of the program.                                               *)

(* What a thread without pending operations may become: the count changes  *)
(* later, with the queue that the change of phase leaves behind.           *)
LEMMA Becomes ==
  ASSUME PinInv, NEW t \in Threads, th[t].todo = << >>, th[t].life \in {"alive", "unborn"},
         NEW s \in ThreadState, s.life = "alive", Queue(s.todo),
         s.phase = "TRACING" => s.samples # << >>,
         Adds(s.todo) <=> s.phase = "TRACING" /\ th[t].phase # "TRACING",
         Awaits(s.todo, "sub") <=> s.phase # "TRACING" /\ th[t].phase = "TRACING"
  PROVE  Sound(s) /\ Weight(s) = Weight(th[t])
<1>1. Sound(s)
  BY DEF Sound
<1>2. Sound(th[t]) /\ ~Adds(th[t].todo) /\ ~Awaits(th[t].todo, "sub")
  BY QueueIdle DEF PinInv
<1>3. Counted(th[t]) <=> th[t].phase = "TRACING"
  BY <1>2 DEF Counted, Adds
<1>4. Counted(s) <=> Awaits(s.todo, "sub") \/ (s.phase = "TRACING" /\ ~Adds(s.todo))
  BY DEF Counted, Adds
<1>5. QED
  BY <1>1, <1>3, <1>4 DEF Weight

(* A step of a thread that leaves active_tracing_threads to its queue.     *)
LEMMA QuietStep ==
  ASSUME PinInv, NEW t \in Threads, NEW s, Sound(s), Weight(s) = Weight(th[t]),
         Waits(s, knobs', roi'), GlobalStep, active' = active, Update(t, s)
  PROVE  PinInv'
<1>1. active \in Int /\ Weight(s) \in {0, 1}
  BY DEF PinInv, TypeOK, Weight
<1>2. active' = active + Weight(s) - Weight(th[t])
  BY <1>1
<1>3. QED
  BY <1>2, StepInv

LEMMA Begins ==
  ASSUME PinInv, NEW t \in Threads, th[t].todo = << >>, th[t].life \in {"alive", "unborn"},
         th[t].phase # "TRACING", NEW s \in ThreadState, s.life = "alive", NEW file \in Opens,
         NEW q \in {enter_tracing, <<"join", "started">>},
         knobs.use_markers => roi'.started,
         GlobalStep, active' = active, Update(t, Begun(s, file, q))
  PROVE  PinInv'
<1> DEFINE b == Begun(s, file, q)
<1>1. q \in Seq(Operations) /\ Queue(q) /\ Adds(q) /\ ~Awaits(q, "sub")
  BY QueueBegin DEF enter_tracing
<1>2. b \in ThreadState /\ b.phase = "TRACING" /\ b.todo = q /\ b.life = "alive" /\ b.samples # << >>
  BY <1>1, BegunState
<1> HIDE DEF b
<1>3. Sound(b) /\ Weight(b) = Weight(th[t])
  BY <1>1, <1>2, Becomes
<1>4. Waits(b, knobs', roi')
  BY DEF Waits, GlobalStep
<1>5. QED
  BY <1>3, <1>4, QuietStep DEF b

LEMMA StoppedState ==
  ASSUME NEW s \in ThreadState
  PROVE  /\ Stopped(s) \in ThreadState
         /\ Stopped(s).life = s.life /\ Stopped(s).phase = "DONE"
         /\ Stopped(s).todo = IF s.phase = "TRACING" THEN <<"sub", "done">> ELSE <<"done">>
<1> DEFINE c == force_close(s)
           q == IF s.phase = "TRACING" THEN <<"sub", "done">> ELSE <<"done">>
<1>1. c \in ThreadState /\ c = [s EXCEPT !.samples = c.samples]
  BY ForceClose
<1>2. c.life = s.life
  BY <1>1 DEF ThreadState
<1>3. q \in Seq(Operations)
  BY QueueStop, QueueIdle
<1>4. Stopped(s) = [c EXCEPT !.phase = "DONE", !.todo = q]
  BY DEF Stopped
<1> HIDE DEF c, q
<1>5. Stopped(s) \in ThreadState /\ Stopped(s).life = c.life /\ Stopped(s).phase = "DONE" /\ Stopped(s).todo = q
  BY <1>1, <1>3, <1>4 DEF ThreadState, Phases
<1>6. QED
  BY <1>2, <1>5 DEF q

LEMMA RecordedState ==
  ASSUME NEW s \in ThreadState, s.samples # << >>, s.counter > 0
  PROVE  /\ Recorded(s) \in ThreadState /\ Recorded(s).samples # << >>
         /\ Recorded(s).phase = s.phase /\ Recorded(s).life = s.life
         /\ Recorded(s).todo = s.todo /\ Recorded(s).samples_collected = s.samples_collected
<1> DEFINE n == Len(s.samples)
           recs == IF s.samples[n].file = "open" THEN Append(s.samples[n].recs, s.pos)
                   ELSE s.samples[n].recs
           r == [s.samples[n] EXCEPT !.recs = recs]
<1>1. n \in 1 .. Len(s.samples) /\ s.samples[n] \in Sample /\ s.samples \in Seq(Sample)
  BY SamplesTypes
<1>2. recs \in Seq(Nat)
  BY <1>1 DEF Sample, ThreadState
<1>3. r \in Sample
  BY <1>1, <1>2 DEF Sample
<1>4. [s.samples EXCEPT ![n] = r] \in Seq(Sample) /\ [s.samples EXCEPT ![n] = r] # << >>
  BY <1>1, <1>3
<1>5. Recorded(s) =
        [s EXCEPT !.counter = s.counter - 1, !.samples = [s.samples EXCEPT ![n] = r]]
  BY DEF Recorded, ThreadState
<1>6. s.counter - 1 \in Nat
  BY DEF ThreadState
<1> HIDE DEF n, r
<1>7. QED
  BY <1>4, <1>5, <1>6 DEF ThreadState

(* The distance to the next sample is one, as the regions do not overlap.  *)
LEMMA GapType ==
  ASSUME PinInv, NEW s \in ThreadState, s.samples_collected > 0, ~QuotaReached(s)
  PROVE  Gap(s) \in Int
<1>1. s.samples_collected \in Nat /\ knobs \in Knob
  BY KnobTypes DEF ThreadState
<1>2. knobs.offsets \in Seq(Nat) /\ knobs.inter_sample_skip \in Nat
      /\ knobs.trace_per_sample \in Nat /\ knobs.sample_limit \in Nat
  BY <1>1 DEF Knob
<1>3. CASE knobs.offsets = << >>
  BY <1>2, <1>3 DEF Gap
<1>4. CASE knobs.offsets # << >>
  <2>1. Len(knobs.offsets) > 0 /\ knobs.sample_limit = Len(knobs.offsets)
    BY <1>2, <1>4, KnobTypes
  <2>2. s.samples_collected \in 1 .. Len(knobs.offsets) - 1
    BY <1>1, <1>2, <2>1 DEF QuotaReached
  <2>3. knobs.offsets[s.samples_collected] \in Nat /\ knobs.offsets[s.samples_collected + 1] \in Nat
    <3>1. \A i \in 1 .. Len(knobs.offsets) : knobs.offsets[i] \in Nat
      BY <1>2
    <3>2. s.samples_collected \in 1 .. Len(knobs.offsets)
          /\ s.samples_collected + 1 \in 1 .. Len(knobs.offsets)
      BY <1>2, <2>2
    <3>3. QED
      BY <3>1, <3>2
  <2>4. QED
    BY <1>2, <1>4, <2>3 DEF Gap
<1>5. QED
  BY <1>3, <1>4

LEMMA FinishedState ==
  ASSUME PinInv, NEW s \in ThreadState, s.samples # << >>, s.todo = << >>, NEW file \in Opens
  PROVE  LET f == finish_sample(s, file)
         IN  /\ f \in ThreadState /\ f.life = s.life
             /\ \/ f.phase = "TRACING" /\ f.samples # << >> /\ f.todo = << >>
                \/ /\ f.phase \in {"DONE", "INTER_SKIP"}
                   /\ f.todo \in {<<"done", "sub", "remove">>, <<"sub", "remove">>}
<1> DEFINE c == force_close(s)
           n == Collected(s)
<1>1. c \in ThreadState /\ c = [s EXCEPT !.samples = c.samples] /\ c.samples # << >>
  BY ForceClose
<1>2. c.life = s.life /\ c.todo = << >>
  BY <1>1 DEF ThreadState
<1>3. n = [c EXCEPT !.samples_collected = c.samples_collected + 1]
  BY DEF Collected
<1> HIDE DEF c
<1>4. /\ n \in ThreadState /\ n.life = s.life /\ n.samples # << >> /\ n.todo = << >>
      /\ n.samples_collected > 0
  <2>1. c.samples_collected \in Nat
    BY <1>1 DEF ThreadState
  <2>2. n \in ThreadState /\ n.life = c.life /\ n.samples = c.samples /\ n.todo = c.todo
        /\ n.samples_collected = c.samples_collected + 1
    <3>1. c \in ThreadState /\ c.samples_collected + 1 \in Nat
      BY <1>1, <2>1
    <3> HIDE DEF n
    <3>2. QED
      BY <1>3, <3>1 DEF ThreadState
  <2>3. QED
    BY <1>1, <1>2, <2>1, <2>2
<1> HIDE DEF n
<1>5. CASE QuotaReached(n)
  <2>1. finish_sample(s, file) = [n EXCEPT !.phase = "DONE", !.todo = <<"done", "sub", "remove">>]
    BY <1>5 DEF finish_sample, n
  <2>2. <<"done", "sub", "remove">> \in Seq(Operations)
    BY QueueStop
  <2>3. QED
    BY <1>4, <2>1, <2>2 DEF ThreadState, Phases
<1>6. CASE ~QuotaReached(n) /\ Gap(n) > 0
  <2>1. finish_sample(s, file) =
          [n EXCEPT !.phase = "INTER_SKIP", !.counter = Gap(n), !.todo = <<"sub", "remove">>]
    BY <1>6 DEF finish_sample, n
  <2>2. <<"sub", "remove">> \in Seq(Operations)
    BY QueueStop
  <2>3. Gap(n) \in Nat
    BY <1>4, <1>6, GapType
  <2>4. QED
    BY <1>4, <2>1, <2>2, <2>3 DEF ThreadState, Phases
<1>7. CASE ~QuotaReached(n) /\ ~(Gap(n) > 0)
  <2>1. finish_sample(s, file) = Begun(n, file, << >>)
    BY <1>7 DEF finish_sample, n
  <2>2. << >> \in Seq(Operations)
    OBVIOUS
  <2>3. /\ Begun(n, file, << >>) \in ThreadState
        /\ Begun(n, file, << >>).phase = "TRACING" /\ Begun(n, file, << >>).todo = << >>
        /\ Begun(n, file, << >>).life = n.life /\ Begun(n, file, << >>).samples # << >>
    BY <1>4, <2>2, BegunState
  <2>4. QED
    BY <1>4, <2>1, <2>3
<1>8. QED
  BY <1>5, <1>6, <1>7

(* What the steps of the program share.                                    *)
LEMMA RunningFacts ==
  ASSUME PinInv, NEW t \in Threads
  PROVE  /\ th[t] \in ThreadState /\ Sound(th[t]) /\ Waits(th[t], knobs, roi)
         /\ Running(t) => th[t].todo = << >> /\ th[t].life = "alive"
         /\ roi \in [started : BOOLEAN, ended : BOOLEAN] /\ (roi.ended => roi.started)
         /\ counts \in [started : Nat, done : Nat] /\ exit \in {"no", "called", "over"}
         /\ cache \subseteq Modes
BY DEF PinInv, TypeOK, Sound, Running

(* A step that changes neither the phase nor a queue.                      *)
LEMMA PlainStep ==
  ASSUME PinInv, NEW t \in Threads, Running(t),
         NEW s \in ThreadState, s.life = "alive", s.phase = th[t].phase,
         s.todo = << >>, s.phase = "TRACING" => s.samples # << >>,
         GlobalStep, active' = active, Update(t, s)
  PROVE  PinInv'
<1>1. Queue(s.todo) /\ ~Adds(s.todo) /\ ~Awaits(s.todo, "sub")
  BY QueueIdle
<1>2. th[t].todo = << >> /\ th[t].life \in {"alive", "unborn"} /\ Waits(th[t], knobs, roi)
  BY RunningFacts
<1>3. Sound(s) /\ Weight(s) = Weight(th[t])
  BY <1>1, <1>2, Becomes
<1>4. Waits(s, knobs', roi')
  BY <1>2 DEF Waits, GlobalStep
<1>5. QED
  BY <1>3, <1>4, QuietStep

(* A step at which the thread notices the end of the region.               *)
LEMMA StopStep ==
  ASSUME PinInv, NEW t \in Threads, Running(t), th[t].phase # "UNTRACED", roi.started,
         NEW s \in ThreadState, s.life = "alive", s.phase = "DONE",
         NEW q, q = IF th[t].phase = "TRACING" THEN <<"sub", "done">> ELSE <<"done">>,
         s.todo \in {q, q \o <<"remove">>},
         GlobalStep, active' = active, Update(t, s)
  PROVE  PinInv'
<1>1. q \in Seq(Operations) /\ Queue(q) /\ ~Adds(q) /\ (Awaits(q, "sub") <=> th[t].phase = "TRACING")
  BY QueueStop, QueueIdle
<1>2. Queue(s.todo) /\ ~Adds(s.todo) /\ (Awaits(s.todo, "sub") <=> th[t].phase = "TRACING")
  BY <1>1, QueueRemove
<1>3. th[t].todo = << >> /\ th[t].life \in {"alive", "unborn"}
  BY RunningFacts
<1>4. Sound(s) /\ Weight(s) = Weight(th[t])
  BY <1>2, <1>3, Becomes
<1>5. Waits(s, knobs', roi')
  BY DEF Waits, GlobalStep
<1>6. QED
  BY <1>4, <1>5, QuietStep

LEMMA EnterTraceInv ==
  ASSUME PinInv, NEW t \in Threads, EnterTrace(t)
  PROVE  PinInv'
<1>1. Running(t) /\ UNCHANGED <<knobs, roi, active, counts, exit>>
  BY DEF EnterTrace
<1>2. PICK m \in cache \cup {InstrumentTrace} :
        LET s == [th[t] EXCEPT !.mode = m]
        IN  /\ cache' = cache \cup {m}
            /\ \/ ~Checks(s) /\ Update(t, s)
               \/ Checks(s) /\ roi.ended /\ Update(t, Stopped(s))
               \/ /\ Checks(s) /\ ~roi.ended /\ WakesUp(s)
                  /\ \E file \in Opens : Update(t, Begun(s, file, <<"join", "started">>))
               \/ Checks(s) /\ ~roi.ended /\ ~WakesUp(s) /\ Update(t, s)
  BY DEF EnterTrace
<1> DEFINE s == [th[t] EXCEPT !.mode = m]
<1>3. m \in Modes
  BY RunningFacts DEF InstrumentTrace, Modes
<1>4. GlobalStep /\ roi' = roi /\ active' = active
  BY <1>1, <1>2, <1>3, RunningFacts DEF GlobalStep
<1>5. th[t] \in ThreadState /\ th[t].todo = << >> /\ th[t].life = "alive"
      /\ (th[t].phase = "TRACING" => th[t].samples # << >>)
  BY <1>1, RunningFacts DEF Sound
<1>6. /\ s \in ThreadState /\ s.life = "alive" /\ s.phase = th[t].phase
      /\ s.todo = << >> /\ s.samples = th[t].samples
  BY <1>3, <1>5 DEF ThreadState
<1> HIDE DEF s
<1>7. CASE Update(t, s)
  BY <1>1, <1>4, <1>5, <1>6, <1>7, PlainStep
<1>8. CASE Checks(s) /\ roi.ended /\ Update(t, Stopped(s))
  <2>1. th[t].phase # "UNTRACED" /\ roi.started
    BY <1>6, <1>8, RunningFacts DEF Checks
  <2>2. /\ Stopped(s) \in ThreadState /\ Stopped(s).life = "alive" /\ Stopped(s).phase = "DONE"
        /\ Stopped(s).todo = IF th[t].phase = "TRACING" THEN <<"sub", "done">> ELSE <<"done">>
    BY <1>6, StoppedState
  <2>3. QED
    BY <1>1, <1>4, <1>8, <2>1, <2>2, StopStep
<1>9. CASE /\ Checks(s) /\ ~roi.ended /\ WakesUp(s)
           /\ \E file \in Opens : Update(t, Begun(s, file, <<"join", "started">>))
  <2>1. roi.started /\ th[t].phase # "TRACING"
    BY <1>6, <1>9 DEF WakesUp
  <2>2. PICK file \in Opens : Update(t, Begun(s, file, <<"join", "started">>))
    BY <1>9
  <2>3. QED
    BY <1>4, <1>5, <1>6, <2>1, <2>2, Begins
<1>10. QED
  BY <1>2, <1>7, <1>8, <1>9 DEF s

LEMMA SkipBlockInv ==
  ASSUME PinInv, NEW t \in Threads, SkipBlock(t)
  PROVE  PinInv'
<1>1. Running(t) /\ GlobalStep /\ roi' = roi /\ active' = active
  BY RunningFacts DEF SkipBlock, GlobalStep, global
<1>2. th[t] \in ThreadState /\ th[t].todo = << >> /\ th[t].life = "alive"
      /\ (th[t].phase = "TRACING" => th[t].samples # << >>)
  BY <1>1, RunningFacts DEF Sound
<1>3. PICK n \in Blocks :
        LET s == Executes(t, n)
            skipping == s.phase \in {"INITIAL_SKIP", "INTER_SKIP"}
        IN  \/ Update(t, s)
            \/ /\ skipping /\ s.counter > Charge(n)
               /\ Update(t, [s EXCEPT !.counter = @ - Charge(n)])
            \/ skipping /\ \E file \in Opens : Update(t, Begun(s, file, enter_tracing))
  BY DEF SkipBlock
<1> DEFINE s == Executes(t, n)
<1>4. n \in Nat /\ th[t].pos + n \in Nat
  BY <1>2, PinAssumption DEF ThreadState
<1>5. /\ s \in ThreadState /\ s.life = "alive" /\ s.phase = th[t].phase
      /\ s.todo = << >> /\ s.samples = th[t].samples
  BY <1>2, <1>4 DEF ThreadState, Executes
<1> HIDE DEF s
<1>6. CASE Update(t, s)
  BY <1>1, <1>2, <1>5, <1>6, PlainStep
<1>7. CASE s.counter > Charge(n) /\ Update(t, [s EXCEPT !.counter = @ - Charge(n)])
  <2> DEFINE c == [s EXCEPT !.counter = s.counter - Charge(n)]
  <2>1. s.counter - Charge(n) \in Nat
    BY <1>4, <1>5, <1>7 DEF Charge, ThreadState
  <2>2. /\ c \in ThreadState /\ c.life = "alive" /\ c.phase = th[t].phase
        /\ c.todo = << >> /\ c.samples = th[t].samples
    BY <1>5, <2>1 DEF ThreadState
  <2>3. Update(t, c)
    BY <1>7
  <2> HIDE DEF c
  <2>4. QED
    BY <1>1, <1>2, <2>2, <2>3, PlainStep
<1>8. CASE /\ s.phase \in {"INITIAL_SKIP", "INTER_SKIP"}
           /\ \E file \in Opens : Update(t, Begun(s, file, enter_tracing))
  <2>1. th[t].phase # "TRACING" /\ (knobs.use_markers => roi.started)
    BY <1>5, <1>8, RunningFacts DEF Waits
  <2>2. PICK file \in Opens : Update(t, Begun(s, file, enter_tracing))
    BY <1>8
  <2>3. QED
    BY <1>1, <1>2, <1>5, <2>1, <2>2, Begins
<1>9. QED
  BY <1>3, <1>6, <1>7, <1>8 DEF s

LEMMA RecordInstrCommitInv ==
  ASSUME PinInv, NEW t \in Threads, RecordInstrCommit(t)
  PROVE  PinInv'
<1> DEFINE s == Executes(t, 1)
           r == Recorded(s)
<1>1. Running(t) /\ GlobalStep /\ roi' = roi /\ active' = active
  BY RunningFacts DEF RecordInstrCommit, GlobalStep, global
<1>2. th[t] \in ThreadState /\ th[t].todo = << >> /\ th[t].life = "alive"
      /\ (th[t].phase = "TRACING" => th[t].samples # << >>)
  BY <1>1, RunningFacts DEF Sound
<1>3. \/ s.phase # "TRACING" /\ Update(t, s)
      \/ s.phase = "TRACING" /\ s.counter > 1 /\ Update(t, r)
      \/ /\ s.phase = "TRACING" /\ s.counter = 1
         /\ \E file \in Opens : Update(t, finish_sample(r, file))
  BY DEF RecordInstrCommit
<1>4. th[t].pos + 1 \in Nat
  BY <1>2 DEF ThreadState
<1>5. /\ s \in ThreadState /\ s.life = "alive" /\ s.phase = th[t].phase
      /\ s.todo = << >> /\ s.samples = th[t].samples /\ s.counter \in Nat
  BY <1>2, <1>4 DEF ThreadState, Executes
<1> HIDE DEF s
<1>6. CASE s.phase # "TRACING" /\ Update(t, s)
  BY <1>1, <1>2, <1>5, <1>6, PlainStep
<1>7. ASSUME s.phase = "TRACING", s.counter > 0
      PROVE  /\ r \in ThreadState /\ r.life = "alive" /\ r.phase = "TRACING"
             /\ r.todo = << >> /\ r.samples # << >>
  BY <1>2, <1>5, <1>7, RecordedState
<1>8. CASE s.phase = "TRACING" /\ s.counter > 1 /\ Update(t, r)
  <2>1. /\ r \in ThreadState /\ r.life = "alive" /\ r.phase = "TRACING"
        /\ r.todo = << >> /\ r.samples # << >>
    BY <1>5, <1>7, <1>8
  <2>2. QED
    BY <1>1, <1>5, <1>8, <2>1, PlainStep
<1>9. CASE /\ s.phase = "TRACING" /\ s.counter = 1
           /\ \E file \in Opens : Update(t, finish_sample(r, file))
  <2>1. r \in ThreadState /\ r.life = "alive" /\ r.todo = << >> /\ r.samples # << >>
    BY <1>5, <1>7, <1>9
  <2>2. PICK file \in Opens : Update(t, finish_sample(r, file))
    BY <1>9
  <2> DEFINE f == finish_sample(r, file)
  <2>3. /\ f \in ThreadState /\ f.life = "alive"
        /\ \/ f.phase = "TRACING" /\ f.samples # << >> /\ f.todo = << >>
           \/ /\ f.phase \in {"DONE", "INTER_SKIP"}
              /\ f.todo \in {<<"done", "sub", "remove">>, <<"sub", "remove">>}
    BY <2>1, FinishedState
  <2> HIDE DEF f
  <2>4. CASE f.phase = "TRACING" /\ f.samples # << >> /\ f.todo = << >>
    BY <1>1, <1>5, <1>9, <2>2, <2>3, <2>4, PlainStep DEF f
  <2>5. CASE /\ f.phase \in {"DONE", "INTER_SKIP"}
             /\ f.todo \in {<<"done", "sub", "remove">>, <<"sub", "remove">>}
    <3>1. Queue(f.todo) /\ ~Adds(f.todo) /\ Awaits(f.todo, "sub") /\ f.phase # "TRACING"
      BY <2>5, QueueStop
    <3>2. th[t].phase = "TRACING" /\ Waits(th[t], knobs, roi)
      BY <1>5, <1>9, RunningFacts
    <3>3. Sound(f) /\ Weight(f) = Weight(th[t])
      BY <1>2, <2>3, <3>1, <3>2, Becomes
    <3>4. Waits(f, knobs', roi')
      BY <1>1, <3>2 DEF Waits, GlobalStep
    <3>5. QED
      BY <1>1, <2>2, <3>3, <3>4, QuietStep DEF f
  <2>6. QED
    BY <2>3, <2>4, <2>5
<1>10. QED
  BY <1>3, <1>6, <1>8, <1>9

LEMMA PlainInsnInv ==
  ASSUME PinInv, NEW t \in Threads, PlainInsn(t)
  PROVE  PinInv'
<1> DEFINE s == Executes(t, 1)
<1>1. Running(t) /\ GlobalStep /\ active' = active /\ Update(t, s)
  BY RunningFacts DEF PlainInsn, GlobalStep, global
<1>2. th[t] \in ThreadState /\ th[t].todo = << >> /\ th[t].life = "alive"
      /\ (th[t].phase = "TRACING" => th[t].samples # << >>)
  BY <1>1, RunningFacts DEF Sound
<1>3. th[t].pos + 1 \in Nat
  BY <1>2 DEF ThreadState
<1>4. /\ s \in ThreadState /\ s.life = "alive" /\ s.phase = th[t].phase
      /\ s.todo = << >> /\ s.samples = th[t].samples
  BY <1>2, <1>3 DEF ThreadState, Executes
<1> HIDE DEF s
<1>5. QED
  BY <1>1, <1>2, <1>4, PlainStep

(* Before roi_begin the thread that executes it cannot trace, so being     *)
(* DONE at once leaves nothing to subtract.                                *)
LEMMA RoiBeginInv ==
  ASSUME PinInv, NEW t \in Threads, RoiBegin(t)
  PROVE  PinInv'
<1>1. Running(t) /\ knobs.use_markers /\ ~roi.started
  BY DEF RoiBegin, Marker
<1>2. GlobalStep /\ roi'.started /\ active' = active
  BY RunningFacts DEF RoiBegin, GlobalStep
<1>3. th[t] \in ThreadState /\ th[t].todo = << >> /\ th[t].life = "alive" /\ th[t].phase # "TRACING"
  BY <1>1, RunningFacts DEF Waits
<1>4. CASE UNCHANGED th
  <2>1. /\ th[t].phase = th[t].phase /\ (th[t].phase = "TRACING" => th[t].samples # << >>)
        /\ Update(t, th[t])
    BY <1>3, <1>4 DEF Update, PinInv, TypeOK
  <2>2. QED
    BY <1>1, <1>2, <1>3, <2>1, PlainStep
<1>5. CASE Update(t, [th[t] EXCEPT !.phase = "DONE", !.todo = <<"done">>])
  <2> DEFINE s == [th[t] EXCEPT !.phase = "DONE", !.todo = <<"done">>]
  <2>1. <<"done">> \in Seq(Operations) /\ Queue(<<"done">>) /\ ~Adds(<<"done">>) /\ ~Awaits(<<"done">>, "sub")
    BY QueueIdle
  <2>2. s \in ThreadState /\ s.life = "alive" /\ s.phase = "DONE" /\ s.todo = <<"done">>
    BY <1>3, <2>1 DEF ThreadState, Phases
  <2> HIDE DEF s
  <2>3. Sound(s) /\ Weight(s) = Weight(th[t])
    BY <1>3, <2>1, <2>2, Becomes
  <2>4. Waits(s, knobs', roi')
    BY <1>2 DEF Waits
  <2>5. QED
    BY <1>2, <1>5, <2>3, <2>4, QuietStep DEF s
<1>6. CASE \E file \in Opens : Update(t, Begun(th[t], file, enter_tracing))
  <2>1. PICK file \in Opens : Update(t, Begun(th[t], file, enter_tracing))
    BY <1>6
  <2>2. QED
    BY <1>2, <1>3, <2>1, Begins
<1>7. QED
  BY <1>4, <1>5, <1>6 DEF RoiBegin

LEMMA RegisterWorkerInv ==
  ASSUME PinInv, NEW t \in Threads, RegisterWorker(t)
  PROVE  PinInv'
<1> DEFINE s == [th[t] EXCEPT !.is_registered_worker = TRUE]
<1>1. Running(t) /\ GlobalStep /\ active' = active /\ Update(t, s)
  BY RunningFacts DEF RegisterWorker, Marker, GlobalStep, global
<1>2. th[t] \in ThreadState /\ th[t].todo = << >> /\ th[t].life = "alive"
      /\ (th[t].phase = "TRACING" => th[t].samples # << >>)
  BY <1>1, RunningFacts DEF Sound
<1>3. /\ s \in ThreadState /\ s.life = "alive" /\ s.phase = th[t].phase
      /\ s.todo = << >> /\ s.samples = th[t].samples
  BY <1>2 DEF ThreadState
<1> HIDE DEF s
<1>4. QED
  BY <1>1, <1>2, <1>3, PlainStep

LEMMA RoiEndInv ==
  ASSUME PinInv, NEW t \in Threads, RoiEnd(t)
  PROVE  PinInv'
<1> DEFINE s == Stopped(th[t])
           r == [s EXCEPT !.todo = s.todo \o <<"remove">>]
<1>1. Running(t) /\ roi.started /\ active' = active
  BY DEF RoiEnd, Marker
<1>2. GlobalStep
  BY RunningFacts DEF RoiEnd, GlobalStep
<1>3. th[t] \in ThreadState /\ th[t].todo = << >> /\ th[t].life = "alive"
      /\ (th[t].phase = "TRACING" => th[t].samples # << >>)
  BY <1>1, RunningFacts DEF Sound
<1>4. CASE UNCHANGED th
  <2>1. Update(t, th[t])
    BY <1>4 DEF Update, PinInv, TypeOK
  <2>2. QED
    BY <1>1, <1>2, <1>3, <2>1, PlainStep
<1>5. CASE th[t].phase # "UNTRACED" /\ Update(t, r)
  <2> DEFINE q == IF th[t].phase = "TRACING" THEN <<"sub", "done">> ELSE <<"done">>
  <2>1. s \in ThreadState /\ s.life = "alive" /\ s.phase = "DONE" /\ s.todo = q
    BY <1>3, StoppedState
  <2>2. q \o <<"remove">> \in Seq(Operations)
    BY QueueStop, QueueIdle, QueueRemove
  <2> HIDE DEF s, q
  <2>3. r \in ThreadState /\ r.life = "alive" /\ r.phase = "DONE" /\ r.todo = q \o <<"remove">>
    BY <2>1, <2>2 DEF ThreadState
  <2> HIDE DEF r
  <2>4. QED
    BY <1>1, <1>2, <1>5, <2>3, StopStep DEF q
<1>6. QED
  BY <1>4, <1>5 DEF RoiEnd

---------------------------------------------------------------------------
(* Threads come and go.                                                    *)

LEMMA ThreadStartInv ==
  ASSUME PinInv, NEW t \in Threads, ThreadStart(t)
  PROVE  PinInv'
<1> DEFINE b == [th[t] EXCEPT !.life = "alive"]
<1>1. GlobalStep /\ roi' = roi /\ knobs' = knobs /\ active' = active
  BY RunningFacts DEF ThreadStart, GlobalStep, global
<1>2. th[t] \in ThreadState /\ th[t].life = "unborn" /\ th[t].phase = "UNTRACED" /\ th[t].todo = << >>
  BY RunningFacts DEF ThreadStart, Sound
<1>3. b \in ThreadState /\ b.life = "alive" /\ b.phase = "UNTRACED" /\ b.todo = << >>
  BY <1>2 DEF ThreadState
<1>4. ASSUME NEW s \in ThreadState, s.life = "alive", s.phase # "TRACING", s.todo = << >>,
             Waits(s, knobs, roi), Update(t, s)
      PROVE  PinInv'
  <2>1. Queue(s.todo) /\ ~Adds(s.todo) /\ ~Awaits(s.todo, "sub")
    BY <1>4, QueueIdle
  <2>2. Sound(s) /\ Weight(s) = Weight(th[t])
    BY <1>2, <1>4, <2>1, Becomes
  <2>3. QED
    BY <1>1, <1>4, <2>2, QuietStep
<1>5. CASE Update(t, b)
  <2>1. Waits(b, knobs, roi)
    BY <1>3 DEF Waits
  <2>2. QED
    BY <1>3, <1>4, <1>5, <2>1
<1>6. CASE Update(t, [b EXCEPT !.phase = "WAITING_FOR_ROI"])
  <2> DEFINE s == [b EXCEPT !.phase = "WAITING_FOR_ROI"]
  <2> HIDE DEF b
  <2>1. s \in ThreadState /\ s.life = "alive" /\ s.phase = "WAITING_FOR_ROI" /\ s.todo = << >>
    BY <1>3 DEF ThreadState, Phases
  <2>2. Waits(s, knobs, roi)
    BY <2>1 DEF Waits
  <2>3. QED
    BY <1>4, <1>6, <2>1, <2>2
<1>7. CASE /\ ~knobs.use_markers /\ FirstSkip > 0
           /\ Update(t, [b EXCEPT !.phase = "INITIAL_SKIP", !.counter = FirstSkip])
  <2> DEFINE s == [b EXCEPT !.phase = "INITIAL_SKIP", !.counter = FirstSkip]
  <2>1. FirstSkip \in Nat
    <3>1. knobs.offsets \in Seq(Nat) /\ knobs.initial_skip \in Nat
      BY KnobTypes DEF Knob
    <3>2. knobs.offsets # << >> => knobs.offsets[1] \in Nat
      BY <3>1
    <3>3. QED
      BY <3>1, <3>2 DEF FirstSkip
  <2> HIDE DEF b
  <2>2. s \in ThreadState /\ s.life = "alive" /\ s.phase = "INITIAL_SKIP" /\ s.todo = << >>
    BY <1>3, <2>1 DEF ThreadState, Phases
  <2>3. Waits(s, knobs, roi)
    BY <1>7 DEF Waits
  <2>4. QED
    BY <1>4, <1>7, <2>2, <2>3
<1>8. CASE /\ ~(knobs.use_markers /\ ~roi.started)
           /\ \E file \in Opens : Update(t, Begun(b, file, enter_tracing))
  <2>1. PICK file \in Opens : Update(t, Begun(b, file, enter_tracing))
    BY <1>8
  <2> HIDE DEF b
  <2>2. QED
    BY <1>1, <1>2, <1>3, <1>8, <2>1, Begins
<1>9. QED
  BY <1>5, <1>6, <1>7, <1>8 DEF ThreadStart

(* A thread that ends takes itself out of the count unless an operation of *)
(* its own still will, or never will: then it stays counted.               *)
LEMMA ThreadFiniInv ==
  ASSUME PinInv, NEW t \in Threads, ThreadFini(t)
  PROVE  PinInv'
<1> DEFINE c == force_close(th[t])
           s == [c EXCEPT !.life = "gone"]
<1>1. Sound(th[t]) /\ th[t] \in ThreadState /\ Waits(th[t], knobs, roi) /\ active \in Int
  BY RunningFacts DEF PinInv, TypeOK
<1>2. c \in ThreadState /\ c = [th[t] EXCEPT !.samples = c.samples]
      /\ (th[t].samples # << >> => c.samples # << >>)
  BY <1>1, ForceClose
<1>3. c.phase = th[t].phase /\ c.todo = th[t].todo
  BY <1>1, <1>2 DEF ThreadState
<1> HIDE DEF c
<1>4. /\ s \in ThreadState /\ s.life = "gone" /\ s.phase = th[t].phase /\ s.todo = th[t].todo
      /\ (th[t].samples # << >> => s.samples # << >>)
  BY <1>2, <1>3 DEF ThreadState
<1> HIDE DEF s
<1>5. /\ Leaving(t) /\ Update(t, s) /\ UNCHANGED <<knobs, roi, counts, exit, cache>>
      /\ active' = IF th[t].phase = "TRACING" THEN active - 1 ELSE active
  BY DEF ThreadFini, s, c
<1>6. ~Adds(th[t].todo) /\ th[t].life # "gone"
  BY <1>1, <1>5, QueueIdle DEF Leaving, Sound
<1>7. Sound(s)
  BY <1>1, <1>4, <1>6 DEF Sound
<1>8. active' = active + Weight(s) - Weight(th[t])
  <2>1. Counted(s) <=> Awaits(th[t].todo, "sub")
    BY <1>4 DEF Counted
  <2>2. Counted(th[t]) <=> Awaits(th[t].todo, "sub") \/ th[t].phase = "TRACING"
    BY <1>6 DEF Counted, Adds
  <2>3. QED
    BY <1>1, <1>5, <2>1, <2>2 DEF Weight, Sound
<1>9. GlobalStep /\ Waits(s, knobs', roi')
  BY <1>1, <1>4, <1>5, RunningFacts DEF GlobalStep, Waits
<1>10. QED
  BY <1>5, <1>7, <1>8, <1>9, StepInv

LEMMA FiniInv ==
  ASSUME PinInv, Fini
  PROVE  PinInv'
<1>1. /\ th' = [t \in Threads |-> force_close(th[t])] /\ exit' = "over"
      /\ UNCHANGED <<knobs, roi, active, counts, cache>>
  BY DEF Fini
<1>2. ASSUME NEW t \in Threads
      PROVE  /\ Sound(th'[t]) /\ Waits(th'[t], knobs', roi') /\ th'[t] \in ThreadState
             /\ Counted(th'[t]) <=> Counted(th[t])
  <2> DEFINE c == force_close(th[t])
  <2>1. Sound(th[t]) /\ th[t] \in ThreadState /\ Waits(th[t], knobs, roi)
    BY RunningFacts
  <2>2. c \in ThreadState /\ c = [th[t] EXCEPT !.samples = c.samples]
        /\ (th[t].samples # << >> => c.samples # << >>)
    BY <2>1, ForceClose
  <2>3. th'[t] = c
    BY <1>1
  <2> HIDE DEF c
  <2>4. c.life = th[t].life /\ c.phase = th[t].phase /\ c.todo = th[t].todo
    BY <2>1, <2>2 DEF ThreadState
  <2>5. Sound(c) /\ (Counted(c) <=> Counted(th[t]))
    BY <2>1, <2>2, <2>4 DEF Sound, Counted
  <2>6. Waits(c, knobs', roi')
    BY <1>1, <2>1, <2>4 DEF Waits
  <2>7. QED
    BY <2>2, <2>3, <2>5, <2>6
<1>3. {t \in Threads : Counted(th'[t])} = {t \in Threads : Counted(th[t])}
  BY <1>2
<1>4. ActiveCounted'
  BY <1>1, <1>3 DEF PinInv, ActiveCounted
<1>5. TypeOK' /\ (roi'.ended => roi'.started)
  BY <1>1, <1>2 DEF PinInv, TypeOK
<1>6. QED
  BY <1>2, <1>4, <1>5 DEF PinInv

---------------------------------------------------------------------------
LEMMA PinInit == Init => PinInv
<1> SUFFICES ASSUME Init PROVE PinInv
  OBVIOUS
<1>1. Unborn \in ThreadState
  BY DEF Unborn, ThreadState, Phases, Modes, Operations
<1>2. TypeOK /\ (roi.ended => roi.started)
  BY <1>1 DEF Init, TypeOK
<1>3. /\ Unborn.phase = "UNTRACED" /\ Unborn.todo = << >>
      /\ Queue(Unborn.todo) /\ ~Adds(Unborn.todo) /\ ~Awaits(Unborn.todo, "sub")
  BY QueueIdle DEF Unborn
<1>4. Sound(Unborn) /\ Waits(Unborn, knobs, roi) /\ ~Counted(Unborn)
  BY <1>1, <1>3 DEF Sound, Waits, Counted
<1>5. \A t \in Threads : th[t] = Unborn
  BY DEF Init
<1>6. {t \in Threads : Counted(th[t])} = {}
  BY <1>4, <1>5
<1>7. ActiveCounted
  BY <1>6, FS_EmptySet DEF ActiveCounted, Init
<1>8. QED
  BY <1>2, <1>4, <1>5, <1>7 DEF PinInv

LEMMA PinNext == PinInv /\ [Next]_vars => PinInv'
<1> SUFFICES ASSUME PinInv, [Next]_vars PROVE PinInv'
  OBVIOUS
<1>1. CASE UNCHANGED vars
  BY <1>1 DEF vars, global, PinInv, TypeOK, ActiveCounted
<1>2. ASSUME NEW t \in Threads, Operation(t) \/ Program(t) \/ ThreadStart(t) \/ ThreadFini(t)
      PROVE  PinInv'
  <2>1. CASE Operation(t)
    BY <2>1, OperationInv
  <2>2. CASE Program(t)
    BY <2>2, EnterTraceInv, SkipBlockInv, RecordInstrCommitInv, PlainInsnInv, RoiBeginInv,
       RegisterWorkerInv, RoiEndInv DEF Program
  <2>3. CASE ThreadStart(t)
    BY <2>3, ThreadStartInv
  <2>4. CASE ThreadFini(t)
    BY <2>4, ThreadFiniInv
  <2>5. QED
    BY <1>2, <2>1, <2>2, <2>3, <2>4
<1>3. CASE Fini
  BY <1>3, FiniInv
<1>4. QED
  BY <1>1, <1>2, <1>3 DEF Next

LEMMA PinInvariant == Spec => []PinInv
BY PinInit, PinNext, PTL DEF Spec

(* Every variable keeps its type, whatever the command line: a thread that *)
(* traces has a file to write to, and the skip it is to begin is a number. *)
THEOREM TypeCorrect == Spec => []TypeOK
<1>1. PinInv => TypeOK
  BY DEF PinInv
<1>2. QED
  BY <1>1, PinInvariant, PTL

(* active_tracing_threads is the number of threads that trace, for every   *)
(* number of threads, however the operations of their callbacks interleave *)
(* with thread starts and ends, the markers and the exit of the program.   *)
THEOREM ActiveIsCounted == Spec => []ActiveCounted
<1>1. PinInv => ActiveCounted
  BY DEF PinInv
<1>2. QED
  BY <1>1, PinInvariant, PTL

---------------------------------------------------------------------------
(* The samples of a thread.  Where the thread stands in its schedule is    *)
(* told by its phase: while it traces, all of its samples but the last are *)
(* collected, and what the last one still lacks is the counter.            *)
Lengths(s, k) ==
  \A i \in 1 .. Len(s.samples) :
    /\ Len(s.samples[i].recs) <= k.trace_per_sample
    /\ s.samples[i].file = "failed" => s.samples[i].recs = << >>
    /\ i <= s.samples_collected /\ s.samples[i].file # "failed"
         => Len(s.samples[i].recs) = k.trace_per_sample

Sampled(s, k, e) ==
  LET n == Len(s.samples)
  IN  /\ Lengths(s, k)
      /\ k.sample_limit > 0 => n <= k.sample_limit
      /\ s.phase \in {"UNTRACED", "WAITING_FOR_ROI", "INITIAL_SKIP"}
           => n = 0 /\ s.samples_collected = 0
      /\ s.phase = "INTER_SKIP" =>
           n = s.samples_collected /\ (k.sample_limit > 0 => n < k.sample_limit)
      /\ s.phase = "TRACING" =>
           /\ n = s.samples_collected + 1
           /\ s.counter \in 1 .. k.trace_per_sample
           /\ s.samples[n].file = "open"
                => Len(s.samples[n].recs) + s.counter = k.trace_per_sample
           /\ s.life # "gone" /\ e # "over" => s.samples[n].file # "closed"
      /\ s.phase = "WAITING_FOR_ROI" => k.use_markers
      /\ s.phase = "INITIAL_SKIP" => ~k.use_markers

(* The sample that comes next, and where in the thread it would begin if   *)
(* nothing came first but its skip.                                        *)
Due(s) == IF s.phase = "TRACING" THEN Len(s.samples) ELSE Len(s.samples) + 1

Reach(s, k) ==
  IF s.phase = "TRACING" THEN s.pos + s.counter - k.trace_per_sample ELSE s.pos + s.counter

Scheduled(s) == s.phase \in {"INITIAL_SKIP", "INTER_SKIP", "TRACING"}

Filled(s) == {i \in 1 .. Len(s.samples) : s.samples[i].recs # << >>}

First(s, i) == s.samples[i].recs[1]

Ordered(s) ==
  /\ \A i \in Filled(s) : First(s, i) > Start(i)
  /\ \A i, j \in Filled(s) : i < j => First(s, j) - First(s, i) >= Start(j) - Start(i)

(* A sample that begins after the thread has executed x instructions is in *)
(* time to be the n-th.                                                    *)
InTime(s, x, n) ==
  /\ x >= Start(n)
  /\ \A i \in Filled(s) : x + 1 - First(s, i) >= Start(n) - Start(i)

Placed(s, k) == Ordered(s) /\ (Scheduled(s) => InTime(s, Reach(s, k), Due(s)))

(* While a thread traces, its last record is the instruction it has last   *)
(* executed, unless it has left the code that records for good.            *)
Contiguous(s) ==
  \A i \in 1 .. Len(s.samples) : \A j \in 1 .. Len(s.samples[i].recs) - 1 :
    s.samples[i].recs[j + 1] = s.samples[i].recs[j] + 1

Solid(s, ended) ==
  /\ ~s.hasty =>
       /\ Contiguous(s)
       /\ s.phase = "TRACING" =>
            LET recs == s.samples[Len(s.samples)].recs
            IN  recs # << >> => IF s.mode = "full" THEN recs[Len(recs)] = s.pos ELSE ended
  /\ s.phase = "TRACING" /\ s.todo # << >> => s.samples[Len(s.samples)].recs = << >>
  /\ Awaits(s.todo, "join") => Len(s.samples) = 1
  /\ Awaits(s.todo, "add") => Awaits(s.todo, "remove")

(* A thread that traces with its flush of the code cache behind it finds   *)
(* nothing there but code that records.                                    *)
Recording(s) ==
  /\ s.phase = "TRACING" /\ s.life # "gone" /\ ~s.hasty
  /\ ~Adds(s.todo) /\ ~Awaits(s.todo, "remove")

Clean == ~roi.ended /\ (\E t \in Threads : Recording(th[t])) => cache \subseteq {"full"}

SampleInv ==
  /\ \A t \in Threads :
       Sampled(th[t], knobs, exit) /\ Placed(th[t], knobs) /\ Solid(th[t], roi.ended)
  /\ Clean

(* The same records, with no file opened.                                  *)
Same(s, r) ==
  /\ Len(r.samples) = Len(s.samples)
  /\ \A i \in 1 .. Len(s.samples) :
       /\ r.samples[i].recs = s.samples[i].recs
       /\ r.samples[i].file = "failed" <=> s.samples[i].file = "failed"
       /\ r.samples[i].file = "open" => s.samples[i].file = "open"

LEMMA SampleTypes ==
  ASSUME NEW s \in ThreadState, NEW i \in 1 .. Len(s.samples)
  PROVE  /\ s.samples[i].recs \in Seq(Nat) /\ Len(s.samples[i].recs) \in Nat
         /\ s.samples[i].recs # << >> => First(s, i) \in Nat
         /\ s.samples[i].file \in {"open", "closed", "failed"}
<1>1. s.samples[i] \in Sample
  BY SamplesTypes
<1>2. s.samples[i].recs \in Seq(Nat) /\ s.samples[i].file \in {"open", "closed", "failed"}
  BY <1>1 DEF Sample
<1>3. QED
  BY <1>2 DEF First

(* The command line gives every sample a place.                            *)
LEMMA StartType ==
  ASSUME PinInv, NEW i \in Nat \ {0}, knobs.sample_limit > 0 => i <= knobs.sample_limit
  PROVE  Start(i) \in Int
<1>1. /\ knobs.offsets \in Seq(Nat) /\ knobs.initial_skip \in Nat
      /\ knobs.inter_sample_skip \in Nat /\ knobs.trace_per_sample \in Nat
  BY KnobTypes DEF Knob
<1>2. CASE knobs.offsets # << >>
  <2>1. Len(knobs.offsets) > 0 /\ i \in 1 .. Len(knobs.offsets)
    BY <1>1, <1>2, KnobTypes
  <2>2. knobs.offsets[i] \in Nat
    BY <1>1, <2>1
  <2>3. QED
    BY <1>2, <2>2 DEF Start
<1>3. CASE knobs.offsets = << >>
  <2>1. (i - 1) * (knobs.trace_per_sample + knobs.inter_sample_skip) \in Int
    BY <1>1
  <2>2. QED
    BY <1>1, <1>3, <2>1 DEF Start
<1>4. QED
  BY <1>2, <1>3

LEMMA StartsTypes ==
  ASSUME PinInv, NEW s \in ThreadState, NEW e, Sampled(s, knobs, e)
  PROVE  /\ \A i \in Filled(s) : Start(i) \in Int /\ First(s, i) \in Nat /\ i \in 1 .. Len(s.samples)
         /\ Scheduled(s) => Due(s) \in Nat \ {0} /\ Start(Due(s)) \in Int /\ Reach(s, knobs) \in Int
<1>1. Len(s.samples) \in Nat /\ (knobs.sample_limit > 0 => Len(s.samples) <= knobs.sample_limit)
      /\ knobs.sample_limit \in Nat /\ knobs.trace_per_sample \in Nat
  BY SamplesTypes, KnobTypes DEF Sampled, Knob
<1>2. ASSUME NEW i \in Filled(s)
      PROVE  Start(i) \in Int /\ First(s, i) \in Nat /\ i \in 1 .. Len(s.samples)
  BY <1>1, StartType, SampleTypes DEF Filled
<1>3. ASSUME Scheduled(s)
      PROVE  Due(s) \in Nat \ {0} /\ (knobs.sample_limit > 0 => Due(s) <= knobs.sample_limit)
  <2>1. CASE s.phase = "TRACING"
    <3>1. Len(s.samples) > 0
      BY <1>1, <2>1 DEF Sampled, ThreadState
    <3>2. QED
      BY <1>1, <2>1, <3>1 DEF Due
  <2>2. CASE s.phase = "INTER_SKIP"
    <3>1. knobs.sample_limit > 0 => Len(s.samples) < knobs.sample_limit
      BY <2>2 DEF Sampled
    <3>2. QED
      BY <1>1, <2>2, <3>1 DEF Due
  <2>3. CASE s.phase = "INITIAL_SKIP"
    <3>1. Len(s.samples) = 0
      BY <2>3 DEF Sampled
    <3>2. QED
      BY <1>1, <2>3, <3>1 DEF Due
  <2>4. QED
    BY <1>3, <2>1, <2>2, <2>3 DEF Scheduled
<1>4. s.pos \in Nat /\ s.counter \in Nat
  BY DEF ThreadState
<1>5. Reach(s, knobs) \in Int
  BY <1>1, <1>4 DEF Reach
<1>6. QED
  BY <1>2, <1>3, <1>5, StartType

(* The gap is what the command line puts between two samples.              *)
LEMMA GapIsRight ==
  ASSUME PinInv, NEW s \in ThreadState, s.samples_collected > 0, ~QuotaReached(s)
  PROVE  Start(s.samples_collected + 1)
           = Start(s.samples_collected) + knobs.trace_per_sample + Gap(s)
<1> DEFINE n == s.samples_collected
           a == knobs.trace_per_sample + knobs.inter_sample_skip
           x == IF knobs.use_markers THEN 0 ELSE knobs.initial_skip
<1>1. n \in Nat /\ knobs.offsets \in Seq(Nat) /\ knobs.inter_sample_skip \in Nat
      /\ knobs.trace_per_sample \in Nat /\ knobs.sample_limit \in Nat /\ knobs.initial_skip \in Nat
  BY KnobTypes DEF Knob, ThreadState
<1>2. CASE knobs.offsets = << >>
  <2>1. a \in Nat
    BY <1>1
  <2> HIDE DEF a
  <2> DEFINE u == n * a
             v == (n - 1) * a
  <2>2. u = v + a
    BY <1>1, <2>1
  <2>3. (n + 1) - 1 = n
    BY <1>1
  <2>4. Start(n + 1) = x + u
    BY <1>2, <2>3 DEF Start, a
  <2>5. Start(n) = x + v
    BY <1>2 DEF Start, a
  <2>6. x \in Int /\ u \in Int /\ v \in Int
    BY <1>1, <2>1
  <2>7. a = knobs.trace_per_sample + Gap(s)
    BY <1>2 DEF Gap, a
  <2>8. Gap(s) \in Nat
    BY <1>1, <1>2 DEF Gap
  <2> HIDE DEF u, v, n, x
  <2> DEFINE g == Gap(s)
             l == knobs.trace_per_sample
  <2>11. g \in Nat /\ l \in Nat /\ a = l + g
    BY <1>1, <2>7, <2>8
  <2> HIDE DEF g, l
  <2>12. x + u = (x + v) + l + g
    BY <2>2, <2>6, <2>11
  <2>9. Start(n + 1) = Start(n) + l + g
    BY <2>4, <2>5, <2>12
  <2>10. QED
    BY <2>9 DEF n, g, l
<1>3. CASE knobs.offsets # << >>
  <2>1. Len(knobs.offsets) > 0 /\ knobs.sample_limit = Len(knobs.offsets)
    BY <1>1, <1>3, KnobTypes
  <2>2. n \in 1 .. Len(knobs.offsets) /\ n + 1 \in 1 .. Len(knobs.offsets)
    BY <1>1, <2>1 DEF QuotaReached
  <2>3. knobs.offsets[n] \in Nat /\ knobs.offsets[n + 1] \in Nat
    <3>1. \A i \in 1 .. Len(knobs.offsets) : knobs.offsets[i] \in Nat
      BY <1>1
    <3>2. QED
      BY <2>2, <3>1
  <2>4. /\ Start(n) = knobs.offsets[n] /\ Start(n + 1) = knobs.offsets[n + 1]
        /\ Gap(s) = knobs.offsets[n + 1] - (knobs.offsets[n] + knobs.trace_per_sample)
    BY <1>3 DEF Start, Gap
  <2> DEFINE a2 == knobs.offsets[n + 1]
             b == knobs.offsets[n]
             l == knobs.trace_per_sample
  <2>5. a2 \in Int /\ b \in Int /\ l \in Int
    BY <1>1, <2>3
  <2> HIDE DEF a2, b, l
  <2>6. a2 = b + l + (a2 - (b + l))
    BY <2>5
  <2>7. QED
    BY <2>4, <2>6 DEF a2, b, l
<1>4. QED
  BY <1>2, <1>3

---------------------------------------------------------------------------
(* What keeps the samples in order: a step that leaves them alone, one     *)
(* that begins or ends one, one that records.                              *)

LEMMA SameIsSame == ASSUME NEW s, NEW r, r.samples = s.samples PROVE Same(s, r)
BY DEF Same

LEMMA KeepsSampled ==
  ASSUME NEW s \in ThreadState, NEW r \in ThreadState, Same(s, r),
         r.phase = s.phase, r.counter = s.counter, r.samples_collected = s.samples_collected,
         NEW k, NEW e, NEW f,
         s.phase = "TRACING" /\ r.life # "gone" /\ f # "over" =>
           r.samples = s.samples /\ s.life # "gone" /\ e # "over",
         Sampled(s, k, e)
  PROVE  Sampled(r, k, f)
<1>1. s.phase = "TRACING" => Len(s.samples) \in 1 .. Len(s.samples)
  BY SamplesTypes DEF Sampled, ThreadState
<1>2. QED
  BY <1>1 DEF Sampled, Lengths, Same

(* Becoming DONE, with the last sample closed.                             *)
LEMMA EndsSampled ==
  ASSUME NEW s \in ThreadState, NEW r \in ThreadState, Same(s, r), r.phase = "DONE",
         r.samples_collected = s.samples_collected,
         NEW k, NEW e, NEW f, Sampled(s, k, e)
  PROVE  Sampled(r, k, f)
BY DEF Sampled, Lengths, Same

(* To be late is to be in time.                                            *)
LEMMA LaterInTime ==
  ASSUME NEW s, \A i \in Filled(s) : Start(i) \in Int /\ First(s, i) \in Int,
         NEW x \in Int, NEW y \in Int, y >= x, NEW n, Start(n) \in Int, InTime(s, x, n)
  PROVE  InTime(s, y, n)
<1> DEFINE d == Start(n)
<1>1. x >= d /\ d \in Int
  BY DEF InTime
<1>2. ASSUME NEW i \in Filled(s) PROVE y + 1 - First(s, i) >= d - Start(i)
  <2> DEFINE a == First(s, i)
             b == Start(i)
  <2>1. x + 1 - a >= d - b /\ a \in Int /\ b \in Int
    BY <1>2 DEF InTime
  <2> HIDE DEF a, b, d
  <2>2. y + 1 - a >= d - b
    BY <1>1, <2>1
  <2>3. QED
    BY <2>2 DEF a, b
<1>3. y >= d
  <2> HIDE DEF d
  <2>1. QED
    BY <1>1
<1>4. QED
  BY <1>2, <1>3 DEF InTime

(* The thread runs on: its next sample only begins later.                  *)
LEMMA KeepsPlaced ==
  ASSUME PinInv, NEW s \in ThreadState, NEW r \in ThreadState, Same(s, r),
         NEW e, Sampled(s, knobs, e), Placed(s, knobs),
         \/ r.phase = s.phase /\ r.counter = s.counter /\ r.pos >= s.pos
         \/ ~Scheduled(r)
  PROVE  Placed(r, knobs)
<1>1. Filled(r) = Filled(s) /\ \A i \in Filled(s) : First(r, i) = First(s, i)
  BY DEF Filled, First, Same
<1>2. /\ \A i \in Filled(s) : Start(i) \in Int /\ First(s, i) \in Nat
      /\ Scheduled(s) => Start(Due(s)) \in Int /\ Reach(s, knobs) \in Int
  BY StartsTypes
<1>3. CASE ~Scheduled(r)
  BY <1>1, <1>3 DEF Placed, Ordered, InTime
<1>4. CASE Scheduled(r) /\ r.phase = s.phase /\ r.counter = s.counter /\ r.pos >= s.pos
  <2>1. Scheduled(s) /\ Due(r) = Due(s)
    BY <1>4 DEF Scheduled, Due, Same
  <2>2. s.pos \in Nat /\ r.pos \in Nat /\ s.counter \in Nat /\ knobs.trace_per_sample \in Nat
    BY KnobTypes DEF ThreadState, Knob
  <2>3. Reach(r, knobs) \in Int /\ Reach(r, knobs) >= Reach(s, knobs)
    BY <1>4, <2>2 DEF Reach
  <2>4. InTime(s, Reach(r, knobs), Due(s))
    BY <1>2, <2>1, <2>3, LaterInTime DEF Placed
  <2>5. QED
    BY <1>1, <2>1, <2>4 DEF Placed, Ordered, InTime
<1>5. QED
  BY <1>3, <1>4

LEMMA KeepsSolid ==
  ASSUME NEW s \in ThreadState, NEW r \in ThreadState, Same(s, r), NEW x, NEW y, Solid(s, x),
         r.hasty = s.hasty,
         r.phase = "TRACING" => s.phase = "TRACING",
         r.phase = "TRACING" /\ ~s.hasty /\ s.samples[Len(s.samples)].recs # << >> =>
           IF r.mode = "full" THEN s.mode = "full" /\ r.pos = s.pos ELSE y,
         r.phase = "TRACING" /\ r.todo # << >> => s.todo # << >>,
         Awaits(r.todo, "join") => Awaits(s.todo, "join"),
         Awaits(r.todo, "add") => Awaits(r.todo, "remove"),
         s.phase = "TRACING" => s.samples # << >>
  PROVE  Solid(r, y)
<1>1. s.phase = "TRACING" => Len(s.samples) \in 1 .. Len(s.samples)
  BY SamplesTypes
<1>2. Len(r.samples) = Len(s.samples) /\ \A i \in 1 .. Len(s.samples) : r.samples[i].recs = s.samples[i].recs
  BY DEF Same
<1>3. r.phase = "TRACING" => r.samples[Len(r.samples)].recs = s.samples[Len(s.samples)].recs
  BY <1>1, <1>2
<1>4. ~r.hasty => Contiguous(r)
  BY <1>2 DEF Solid, Contiguous
<1>5. QED
  BY <1>1, <1>2, <1>3, <1>4 DEF Solid

(* Nothing but the queue, the files or the life of the thread changes.     *)
LEMMA UnmovedSolid ==
  ASSUME NEW s \in ThreadState, NEW r \in ThreadState, Same(s, r), NEW x, NEW y, Solid(s, x),
         x => y, r.hasty = s.hasty, r.mode = s.mode, r.pos = s.pos,
         r.phase = "TRACING" => s.phase = "TRACING",
         r.phase = "TRACING" /\ r.todo # << >> => s.todo # << >>,
         Awaits(r.todo, "join") => Awaits(s.todo, "join"),
         Awaits(r.todo, "add") => Awaits(r.todo, "remove"),
         s.phase = "TRACING" => s.samples # << >>
  PROVE  Solid(r, y)
<1>1. r.phase = "TRACING" /\ ~s.hasty /\ s.samples[Len(s.samples)].recs # << >> =>
        IF r.mode = "full" THEN s.mode = "full" /\ r.pos = s.pos ELSE y
  BY DEF Solid
<1>2. QED
  BY <1>1, KeepsSolid

LEMMA CloseSame ==
  ASSUME NEW s \in ThreadState
  PROVE  Same(s, force_close(s))
<1> DEFINE n == Len(s.samples)
           c == [s.samples[n] EXCEPT !.file = "closed"]
<1>1. CASE s.samples = << >> \/ s.samples[n].file # "open"
  <2>1. force_close(s) = s
    BY <1>1 DEF force_close
  <2>2. QED
    BY <2>1, SameIsSame
<1>2. CASE ~(s.samples = << >> \/ s.samples[n].file # "open")
  <2>1. n \in 1 .. Len(s.samples) /\ s.samples[n] \in Sample /\ s.samples \in Seq(Sample)
    BY <1>2, SamplesTypes
  <2>2. force_close(s).samples = [s.samples EXCEPT ![n] = c]
    <3>1. force_close(s) = [s EXCEPT !.samples = [s.samples EXCEPT ![n] = c]]
      BY <1>2 DEF force_close
    <3>2. QED
      BY <3>1 DEF ThreadState
  <2>3. c.recs = s.samples[n].recs /\ c.file = "closed" /\ s.samples[n].file = "open"
    BY <1>2, <2>1 DEF Sample
  <2> HIDE DEF c
  <2>4. Len(force_close(s).samples) = Len(s.samples)
    BY <2>1, <2>2
  <2>5. \A i \in 1 .. Len(s.samples) :
          force_close(s).samples[i] = IF i = n THEN c ELSE s.samples[i]
    BY <2>1, <2>2
  <2>6. QED
    BY <2>3, <2>4, <2>5 DEF Same
<1>3. QED
  BY <1>1, <1>2

(* A new sample comes last, and is empty.                                  *)
LEMMA BegunShape ==
  ASSUME PinInv, NEW s \in ThreadState, NEW file \in Opens, NEW q \in Seq(Operations)
  PROVE  LET b == Begun(s, file, q)
         IN  /\ b \in ThreadState /\ b.phase = "TRACING" /\ b.todo = q
             /\ b.counter = knobs.trace_per_sample
             /\ b.samples_collected = s.samples_collected /\ b.pos = s.pos
             /\ b.hasty = s.hasty /\ b.mode = s.mode /\ b.life = s.life
             /\ Len(b.samples) = Len(s.samples) + 1
             /\ \A i \in 1 .. Len(s.samples) : b.samples[i] = s.samples[i]
             /\ b.samples[Len(s.samples) + 1].recs = << >>
             /\ b.samples[Len(s.samples) + 1].file \in {"open", "failed"}
<1> DEFINE b == Begun(s, file, q)
           r == [recs |-> << >>, file |-> file]
<1>1. b = [s EXCEPT !.samples = Append(s.samples, r), !.phase = "TRACING",
                    !.counter = knobs.trace_per_sample, !.todo = q]
  BY DEF Begun, open_next_sample, ThreadState
<1>2. s.samples \in Seq(Sample) /\ r \in Sample
  BY SamplesTypes DEF Opens, Sample
<1>3. r.recs = << >> /\ r.file \in {"open", "failed"}
  BY DEF Opens
<1>4. /\ b.phase = "TRACING" /\ b.todo = q /\ b.counter = knobs.trace_per_sample
      /\ b.samples_collected = s.samples_collected /\ b.pos = s.pos
      /\ b.hasty = s.hasty /\ b.mode = s.mode /\ b.life = s.life
      /\ b.samples = Append(s.samples, r)
  BY <1>1 DEF ThreadState
<1>5. b \in ThreadState
  BY BegunState
<1> HIDE DEF b, r
<1>6. Len(b.samples) = Len(s.samples) + 1 /\ b.samples[Len(s.samples) + 1] = r
      /\ \A i \in 1 .. Len(s.samples) : b.samples[i] = s.samples[i]
  BY <1>2, <1>4
<1>7. QED
  BY <1>3, <1>4, <1>5, <1>6 DEF b

LEMMA BegunFilled ==
  ASSUME PinInv, NEW s \in ThreadState, NEW file \in Opens, NEW q \in Seq(Operations)
  PROVE  LET b == Begun(s, file, q)
         IN  /\ Filled(b) = Filled(s)
             /\ \A i \in Filled(s) : First(b, i) = First(s, i)
<1> DEFINE b == Begun(s, file, q)
<1>1. /\ Len(b.samples) = Len(s.samples) + 1
      /\ \A i \in 1 .. Len(s.samples) : b.samples[i] = s.samples[i]
      /\ b.samples[Len(s.samples) + 1].recs = << >>
  BY BegunShape
<1>2. Len(s.samples) \in Nat
  BY SamplesTypes
<1> HIDE DEF b
<1>3. \A i \in 1 .. Len(b.samples) : i \in 1 .. Len(s.samples) \/ i = Len(s.samples) + 1
  BY <1>2, <1>1
<1>4. \A i \in 1 .. Len(s.samples) : i \in 1 .. Len(b.samples)
  BY <1>2, <1>1
<1>5. QED
  BY <1>1, <1>3, <1>4 DEF Filled, First, b

LEMMA BegunSampled ==
  ASSUME PinInv, NEW s \in ThreadState, NEW file \in Opens, NEW q \in Seq(Operations),
         Lengths(s, knobs), Len(s.samples) = s.samples_collected,
         knobs.sample_limit > 0 => Len(s.samples) < knobs.sample_limit, NEW e
  PROVE  Sampled(Begun(s, file, q), knobs, e)
<1> DEFINE b == Begun(s, file, q)
           n == Len(s.samples)
<1>1. /\ Len(b.samples) = n + 1 /\ n \in Nat
      /\ \A i \in 1 .. n : b.samples[i] = s.samples[i]
      /\ b.samples[n + 1].recs = << >> /\ b.samples[n + 1].file \in {"open", "failed"}
      /\ b.samples_collected = n /\ b.phase = "TRACING" /\ b.counter = knobs.trace_per_sample
      /\ b.todo = q
  BY BegunShape, SamplesTypes
<1>2. knobs.trace_per_sample \in Nat /\ knobs.trace_per_sample > 0 /\ knobs.sample_limit \in Nat
  BY KnobTypes DEF Knob
<1> HIDE DEF b, n
<1>3. \A i \in 1 .. n + 1 : i \in 1 .. n \/ (i = n + 1 /\ ~(i <= n))
  BY <1>1
<1>4. Len(<< >>) = 0
  OBVIOUS
<1>5. Lengths(b, knobs)
  <2>1. ASSUME NEW i \in 1 .. n
        PROVE  /\ Len(b.samples[i].recs) <= knobs.trace_per_sample
               /\ b.samples[i].file = "failed" => b.samples[i].recs = << >>
               /\ b.samples[i].file # "failed" => Len(b.samples[i].recs) = knobs.trace_per_sample
    <3>1. b.samples[i] = s.samples[i] /\ i <= s.samples_collected
      BY <1>1, <2>1 DEF n
    <3>2. QED
      BY <2>1, <3>1 DEF Lengths, n
  <2>2. /\ Len(b.samples[n + 1].recs) <= knobs.trace_per_sample
        /\ b.samples[n + 1].file = "failed" => b.samples[n + 1].recs = << >>
        /\ ~(n + 1 <= b.samples_collected)
    BY <1>1, <1>2, <1>4
  <2>3. QED
    BY <1>1, <1>3, <2>1, <2>2 DEF Lengths
<1>6. knobs.sample_limit > 0 => n + 1 <= knobs.sample_limit
  BY <1>1, <1>2 DEF n
<1>7. Sampled(b, knobs, e)
  BY <1>1, <1>2, <1>4, <1>5, <1>6 DEF Sampled
<1>8. QED
  BY <1>7 DEF b

LEMMA BegunPlaced ==
  ASSUME PinInv, NEW s \in ThreadState, NEW file \in Opens, NEW q \in Seq(Operations),
         Ordered(s), InTime(s, s.pos, Len(s.samples) + 1)
  PROVE  Placed(Begun(s, file, q), knobs)
<1> DEFINE b == Begun(s, file, q)
<1>1. Filled(b) = Filled(s) /\ \A i \in Filled(s) : First(b, i) = First(s, i)
  BY BegunFilled
<1>2. /\ b.phase = "TRACING" /\ b.pos = s.pos /\ b.counter = knobs.trace_per_sample
      /\ Len(b.samples) = Len(s.samples) + 1
  BY BegunShape
<1>3. s.pos \in Nat /\ knobs.trace_per_sample \in Nat
  BY KnobTypes DEF Knob, ThreadState
<1> HIDE DEF b
<1>4. Reach(b, knobs) = s.pos /\ Due(b) = Len(s.samples) + 1
  BY <1>2, <1>3 DEF Reach, Due
<1>5. Placed(b, knobs)
  BY <1>1, <1>4 DEF Placed, Ordered, InTime
<1>6. QED
  BY <1>5 DEF b

LEMMA BegunSolid ==
  ASSUME PinInv, NEW s \in ThreadState, NEW file \in Opens, NEW q \in Seq(Operations),
         ~s.hasty => Contiguous(s), Awaits(q, "join") => Len(s.samples) = 0,
         Awaits(q, "add") => Awaits(q, "remove"), NEW y
  PROVE  Solid(Begun(s, file, q), y)
<1> DEFINE b == Begun(s, file, q)
           n == Len(s.samples)
<1>1. /\ Len(b.samples) = n + 1 /\ n \in Nat
      /\ \A i \in 1 .. n : b.samples[i] = s.samples[i]
      /\ b.samples[n + 1].recs = << >> /\ b.hasty = s.hasty /\ b.todo = q
  BY BegunShape, SamplesTypes
<1> HIDE DEF b, n
<1>2. \A i \in 1 .. n + 1 : i \in 1 .. n \/ i = n + 1
  BY <1>1
<1>3. Len(<< >>) = 0 /\ 1 .. 0 - 1 = {}
  OBVIOUS
<1>4. ASSUME Contiguous(s) PROVE Contiguous(b)
  <2>1. ASSUME NEW i \in 1 .. n
        PROVE  \A j \in 1 .. Len(b.samples[i].recs) - 1 :
                 b.samples[i].recs[j + 1] = b.samples[i].recs[j] + 1
    <3>1. b.samples[i] = s.samples[i]
      BY <1>1, <2>1
    <3>2. QED
      BY <1>4, <2>1, <3>1 DEF Contiguous, n
  <2>2. \A j \in 1 .. Len(b.samples[n + 1].recs) - 1 : FALSE
    BY <1>1, <1>3
  <2>3. QED
    BY <1>1, <1>2, <2>1, <2>2 DEF Contiguous
<1>5. Solid(b, y)
  BY <1>1, <1>4 DEF Solid, n
<1>6. QED
  BY <1>5 DEF b

LEMMA RecordedShape ==
  ASSUME NEW s \in ThreadState, s.samples # << >>, s.counter > 0
  PROVE  LET r == Recorded(s)
             n == Len(s.samples)
         IN  /\ r \in ThreadState /\ n \in 1 .. n /\ n \in Nat
             /\ Len(r.samples) = n
             /\ \A i \in 1 .. n : r.samples[i].file = s.samples[i].file
             /\ \A i \in 1 .. n - 1 : r.samples[i] = s.samples[i]
             /\ r.samples[n].recs = IF s.samples[n].file = "open"
                                    THEN Append(s.samples[n].recs, s.pos)
                                    ELSE s.samples[n].recs
             /\ r.counter = s.counter - 1 /\ r.pos = s.pos /\ r.mode = s.mode
             /\ r.hasty = s.hasty /\ r.life = s.life /\ r.phase = s.phase /\ r.todo = s.todo
             /\ r.samples_collected = s.samples_collected
<1> DEFINE n == Len(s.samples)
           recs == IF s.samples[n].file = "open" THEN Append(s.samples[n].recs, s.pos)
                   ELSE s.samples[n].recs
           x == [s.samples[n] EXCEPT !.recs = recs]
           r == Recorded(s)
<1>1. n \in 1 .. Len(s.samples) /\ s.samples[n] \in Sample /\ s.samples \in Seq(Sample) /\ n \in Nat
  BY SamplesTypes
<1>2. x.recs = recs /\ x.file = s.samples[n].file
  BY <1>1 DEF Sample
<1>3. r = [s EXCEPT !.counter = s.counter - 1, !.samples = [s.samples EXCEPT ![n] = x]]
  BY DEF Recorded, ThreadState
<1>4. r \in ThreadState
  BY RecordedState
<1> HIDE DEF x, recs
<1>5. /\ r.counter = s.counter - 1 /\ r.pos = s.pos /\ r.mode = s.mode
      /\ r.hasty = s.hasty /\ r.life = s.life /\ r.phase = s.phase /\ r.todo = s.todo
      /\ r.samples_collected = s.samples_collected
      /\ r.samples = [s.samples EXCEPT ![n] = x]
  BY <1>3 DEF ThreadState
<1> HIDE DEF r
<1>6. Len(r.samples) = n /\ \A i \in 1 .. n : r.samples[i] = IF i = n THEN x ELSE s.samples[i]
  BY <1>1, <1>5
<1>7. r.samples[n].recs = recs
  BY <1>1, <1>2, <1>6
<1>8. \A i \in 1 .. n - 1 : r.samples[i] = s.samples[i]
  BY <1>1, <1>6
<1>9. \A i \in 1 .. n : r.samples[i].file = s.samples[i].file
  BY <1>2, <1>6
<1>10. QED
  BY <1>1, <1>4, <1>5, <1>6, <1>7, <1>8, <1>9 DEF r, recs

LEMMA RecordedSampled ==
  ASSUME PinInv, NEW s \in ThreadState, NEW e, Sampled(s, knobs, e),
         s.phase = "TRACING", s.life # "gone", e # "over"
  PROVE  LET r == Recorded(s)
             n == Len(r.samples)
         IN  /\ Lengths(r, knobs) /\ n = r.samples_collected + 1
             /\ knobs.sample_limit > 0 => n <= knobs.sample_limit
             /\ r.counter = s.counter - 1
             /\ r.samples[n].file # "closed"
             /\ r.samples[n].file = "open"
                  => Len(r.samples[n].recs) + r.counter = knobs.trace_per_sample
<1> DEFINE r == Recorded(s)
           n == Len(s.samples)
           T == knobs.trace_per_sample
<1>1. /\ n = s.samples_collected + 1 /\ n \in Nat \ {0} /\ s.counter \in 1 .. T
      /\ Lengths(s, knobs) /\ s.samples[n].file # "closed"
      /\ s.samples[n].file = "open" => Len(s.samples[n].recs) + s.counter = T
      /\ knobs.sample_limit > 0 => n <= knobs.sample_limit
  BY SamplesTypes DEF Sampled, ThreadState
<1>2. T \in Nat /\ s.samples # << >> /\ s.counter > 0
  BY <1>1, KnobTypes DEF Knob
<1>3. /\ Len(r.samples) = n /\ r.counter = s.counter - 1 /\ r.samples_collected = s.samples_collected
      /\ \A i \in 1 .. n : r.samples[i].file = s.samples[i].file
      /\ \A i \in 1 .. n - 1 : r.samples[i] = s.samples[i]
      /\ r.samples[n].recs = IF s.samples[n].file = "open"
                             THEN Append(s.samples[n].recs, s.pos) ELSE s.samples[n].recs
  BY <1>2, RecordedShape
<1>4. s.samples[n].recs \in Seq(Nat) /\ s.pos \in Nat /\ n \in 1 .. Len(s.samples)
      /\ s.samples[n].file \in {"open", "closed", "failed"}
  <2>1. n \in 1 .. Len(s.samples) /\ s.pos \in Nat
    BY <1>1 DEF ThreadState
  <2>2. QED
    BY <2>1, SampleTypes
<1> DEFINE a == s.samples[n].recs
<1>5. Len(Append(a, s.pos)) = Len(a) + 1 /\ Len(a) \in Nat
  BY <1>4
<1> HIDE DEF r, a, T, n
<1>6. r.samples[n].file = "open" => Len(r.samples[n].recs) + r.counter = T
  <2> DEFINE c == s.counter
             l == Len(a)
  <2>1. c \in Nat /\ l \in Nat /\ (s.samples[n].file = "open" => l + c = T)
    BY <1>1, <1>2, <1>5 DEF a
  <2>2. r.samples[n].file = "open" => Len(r.samples[n].recs) = l + 1 /\ r.counter = c - 1
    BY <1>3, <1>4, <1>5 DEF a
  <2>3. r.samples[n].file = "open" => s.samples[n].file = "open"
    BY <1>3, <1>4 DEF n
  <2> HIDE DEF c, l
  <2>4. QED
    BY <1>2, <2>1, <2>2, <2>3
<1>7. r.samples[n].file = "open" => Len(r.samples[n].recs) <= T
  <2> DEFINE c == r.counter
             l == Len(r.samples[n].recs)
  <2>1. c \in Nat
    BY <1>1, <1>2, <1>3
  <2>2. r.samples[n].recs = Append(a, s.pos) \/ r.samples[n].recs = a
    BY <1>3 DEF a
  <2>3. l \in Nat
    BY <1>5, <2>2
  <2>4. r.samples[n].file = "open" => l + c = T
    BY <1>6
  <2> HIDE DEF c, l
  <2>5. r.samples[n].file = "open" => l <= T
    BY <1>2, <2>1, <2>3, <2>4
  <2>6. QED
    BY <2>5 DEF l
<1>8. r.samples[n].file = "failed" => r.samples[n].recs = << >>
  BY <1>1, <1>3, <1>4 DEF Lengths, n
<1>9. Lengths(r, knobs)
  <2>1. ASSUME NEW i \in 1 .. n
        PROVE  /\ Len(r.samples[i].recs) <= T
               /\ r.samples[i].file = "failed" => r.samples[i].recs = << >>
               /\ i <= r.samples_collected /\ r.samples[i].file # "failed"
                    => Len(r.samples[i].recs) = T
    <3>1. CASE i = n
      <4>1. ~(i <= r.samples_collected)
        BY <1>1, <1>3, <3>1 DEF ThreadState
      <4>2. r.samples[i].file \in {"open", "failed"}
        BY <1>1, <1>3, <1>4, <3>1
      <4>3. QED
        BY <1>2, <1>7, <1>8, <3>1, <4>1, <4>2
    <3>2. CASE i # n
      <4>1. i \in 1 .. n - 1 /\ i \in 1 .. Len(s.samples)
        BY <1>1, <3>2 DEF n
      <4>2. QED
        BY <1>1, <1>3, <4>1 DEF Lengths, T
    <3>3. QED
      BY <3>1, <3>2
  <2>2. QED
    BY <1>3, <2>1 DEF Lengths, T
<1>10. QED
  BY <1>1, <1>3, <1>4, <1>6, <1>9 DEF r, T, n

(* The first record of a sample is the instruction that comes next.        *)
LEMMA RecordedPlaced ==
  ASSUME PinInv, NEW s \in ThreadState, NEW e, Sampled(s, knobs, e), Ordered(s),
         s.phase = "TRACING", s.life # "gone", e # "over",
         InTime(s, Reach(s, knobs) - 1, Len(s.samples))
  PROVE  LET r == Recorded(s)
         IN  /\ Ordered(r) /\ Reach(r, knobs) = Reach(s, knobs) - 1 /\ Due(r) = Len(s.samples)
             /\ InTime(r, Reach(r, knobs), Len(s.samples))
<1> DEFINE r == Recorded(s)
           n == Len(s.samples)
           T == knobs.trace_per_sample
           a == s.samples[n].recs
           x == Reach(s, knobs) - 1
<1>1. /\ n = s.samples_collected + 1 /\ n \in Nat \ {0} /\ s.counter \in 1 .. T
      /\ s.samples[n].file = "open" => Len(a) + s.counter = T
  BY SamplesTypes DEF Sampled, ThreadState
<1>2. T \in Nat /\ s.samples # << >> /\ s.counter > 0 /\ s.counter \in Nat /\ s.pos \in Nat
  BY <1>1, KnobTypes DEF Knob, ThreadState
<1>3. /\ Len(r.samples) = n /\ r.counter = s.counter - 1 /\ r.pos = s.pos /\ r.phase = "TRACING"
      /\ \A i \in 1 .. n - 1 : r.samples[i] = s.samples[i]
      /\ r.samples[n].recs = IF s.samples[n].file = "open" THEN Append(a, s.pos) ELSE a
  BY <1>2, RecordedShape
<1>4. a \in Seq(Nat) /\ n \in 1 .. Len(s.samples)
  BY <1>1, SampleTypes
<1>5. /\ \A i \in Filled(s) : Start(i) \in Int /\ First(s, i) \in Nat /\ i \in 1 .. n
      /\ Start(n) \in Int /\ Reach(s, knobs) \in Int
  BY StartsTypes DEF Due, Scheduled
<1>6. x = s.pos + s.counter - T - 1 /\ Reach(r, knobs) = x /\ Due(r) = n
  BY <1>1, <1>2, <1>3 DEF Reach, Due
<1> HIDE DEF r, T, n, x
<1>7. CASE r.samples[n].recs = a
  <2>1. Filled(r) = Filled(s) /\ \A i \in Filled(s) : First(r, i) = First(s, i)
    <3>1. \A i \in 1 .. n : r.samples[i].recs = s.samples[i].recs
      <4>1. \A i \in 1 .. n : i = n \/ i \in 1 .. n - 1
        BY <1>1
      <4>2. QED
        BY <1>3, <1>7, <4>1
    <3>2. QED
      BY <1>3, <3>1 DEF Filled, First, n
  <2>2. InTime(r, x, n) /\ Ordered(r)
    BY <2>1 DEF InTime, Ordered, x, n
  <2>3. QED
    BY <1>6, <2>2 DEF r, n, x
<1>8. CASE s.samples[n].file = "open" /\ a # << >>
  <2>1. Append(a, s.pos) # << >> /\ Append(a, s.pos)[1] = a[1]
    BY <1>2, <1>4, <1>8
  <2>2. Filled(r) = Filled(s) /\ \A i \in Filled(s) : First(r, i) = First(s, i)
    <3>1. \A i \in 1 .. n : i = n \/ i \in 1 .. n - 1
      BY <1>1
    <3>2. \A i \in 1 .. n : (r.samples[i].recs # << >> <=> s.samples[i].recs # << >>)
                            /\ r.samples[i].recs[1] = s.samples[i].recs[1]
      BY <1>3, <1>8, <2>1, <3>1
    <3>3. QED
      BY <1>3, <3>2 DEF Filled, First, n
  <2>3. InTime(r, x, n) /\ Ordered(r)
    BY <2>2 DEF InTime, Ordered, x, n
  <2>4. QED
    BY <1>6, <2>3 DEF r, n, x
<1>9. CASE s.samples[n].file = "open" /\ a = << >>
  <2>1. Append(a, s.pos) # << >> /\ Append(a, s.pos)[1] = s.pos /\ Len(a) = 0
    BY <1>2, <1>4, <1>9
  <2>2. x = s.pos - 1
    <3> DEFINE c == s.counter
               p == s.pos
    <3>1. c \in Nat /\ p \in Nat /\ T \in Nat /\ c = T /\ x = p + c - T - 1
      BY <1>1, <1>2, <1>6, <1>9, <2>1
    <3> HIDE DEF c, p
    <3>2. x = p - 1
      BY <3>1
    <3>3. QED
      BY <3>2 DEF p
  <2>3. n \notin Filled(s) /\ n \in Filled(r) /\ First(r, n) = s.pos
    BY <1>1, <1>3, <1>4, <1>9, <2>1 DEF Filled, First, a, n
  <2>4. /\ Filled(r) = Filled(s) \cup {n}
        /\ \A i \in Filled(s) : First(r, i) = First(s, i) /\ i < n /\ ~(n < i)
    <3>1. \A i \in 1 .. n : i = n \/ i \in 1 .. n - 1
      BY <1>1
    <3>2. \A i \in 1 .. n - 1 : i < n /\ ~(n < i) /\ i \in 1 .. n
      BY <1>1
    <3>3. QED
      BY <1>1, <1>3, <1>5, <2>3, <3>1, <3>2 DEF Filled, First, n
  <2>5. s.pos > Start(n) /\ s.pos + 0 - First(r, n) = 0 /\ Start(n) - Start(n) = 0
    <3>1. x >= Start(n)
      BY DEF InTime, n, x
    <3>2. QED
      BY <1>2, <1>5, <2>2, <2>3, <3>1
  <2>6. ASSUME NEW i \in Filled(s) PROVE s.pos - First(s, i) >= Start(n) - Start(i)
    <3>1. x + 1 - First(s, i) >= Start(n) - Start(i)
      BY <2>6 DEF InTime, n, x
    <3> DEFINE p == s.pos
               f == First(s, i)
               d == Start(n)
               b == Start(i)
    <3>2. x = p - 1 /\ p \in Int /\ f \in Int /\ d \in Int /\ b \in Int
      BY <1>2, <1>5, <2>2, <2>6
    <3> HIDE DEF p, f, d, b
    <3>3. x + 1 - f >= d - b
      BY <3>1 DEF f, d, b
    <3>4. p - f >= d - b
      BY <3>2, <3>3
    <3>5. QED
      BY <3>4 DEF p, f, d, b
  <2>7. Ordered(r)
    <3>1. \A i \in Filled(r) : First(r, i) > Start(i)
      BY <2>3, <2>4, <2>5 DEF Ordered
    <3>2. ASSUME NEW i \in Filled(r), NEW j \in Filled(r), i < j
          PROVE  First(r, j) - First(r, i) >= Start(j) - Start(i)
      <4>1. CASE j \in Filled(s)
        <5>1. i \in Filled(s)
          BY <1>1, <2>4, <3>2, <4>1
        <5>2. QED
          BY <2>4, <3>2, <4>1, <5>1 DEF Ordered
      <4>2. CASE j = n
        <5>1. i \in Filled(s)
          BY <1>1, <2>4, <3>2, <4>2
        <5>2. QED
          BY <2>3, <2>4, <2>6, <4>2, <5>1
      <4>3. QED
        BY <2>4, <4>1, <4>2
    <3>3. QED
      BY <3>1, <3>2 DEF Ordered
  <2>8. InTime(r, x, n)
    <3>1. x >= Start(n)
      BY DEF InTime, n, x
    <3>2. x + 1 = s.pos
      BY <1>2, <2>2
    <3>3. s.pos - First(r, n) >= Start(n) - Start(n)
      BY <1>2, <1>5, <2>3
    <3>4. ASSUME NEW i \in Filled(r) PROVE x + 1 - First(r, i) >= Start(n) - Start(i)
      <4> DEFINE p == s.pos
                 f == First(r, i)
                 d == Start(n)
                 b == Start(i)
      <4>1. p - f >= d - b
        <5>1. CASE i = n
          BY <3>3, <5>1
        <5>2. CASE i \in Filled(s)
          BY <2>4, <2>6, <5>2
        <5>3. QED
          BY <2>4, <3>4, <5>1, <5>2
      <4>2. x = p - 1 /\ p \in Int /\ f \in Int /\ d \in Int /\ b \in Int
        BY <1>2, <1>5, <2>2, <2>3, <2>4, <3>4
      <4> HIDE DEF p, f, d, b
      <4>3. x + 1 - f >= d - b
        BY <4>1, <4>2
      <4>4. QED
        BY <4>3 DEF f, d, b
    <3>5. QED
      BY <3>1, <3>4 DEF InTime
  <2>9. QED
    BY <1>6, <2>7, <2>8 DEF r, n, x
<1>10. QED
  BY <1>3, <1>7, <1>8, <1>9

(* A record that follows the last one leaves no hole.                      *)
LEMMA RecordedContiguous ==
  ASSUME NEW s \in ThreadState, s.samples # << >>, s.counter > 0, Contiguous(s),
         LET recs == s.samples[Len(s.samples)].recs
         IN  recs # << >> => s.pos = recs[Len(recs)] + 1
  PROVE  LET r == Recorded(s)
             recs == r.samples[Len(r.samples)].recs
         IN  /\ Contiguous(r)
             /\ r.samples[Len(r.samples)].file = "open" => recs # << >> /\ recs[Len(recs)] = s.pos
<1> DEFINE r == Recorded(s)
           n == Len(s.samples)
           a == s.samples[n].recs
           b == r.samples[n].recs
<1>1. /\ Len(r.samples) = n /\ n \in Nat /\ n \in 1 .. n
      /\ \A i \in 1 .. n - 1 : r.samples[i] = s.samples[i]
      /\ b = IF s.samples[n].file = "open" THEN Append(a, s.pos) ELSE a
      /\ r.samples[n].file = s.samples[n].file
  BY RecordedShape
<1>2. a \in Seq(Nat) /\ s.pos \in Nat /\ Len(a) \in Nat /\ n \in 1 .. Len(s.samples)
  BY <1>1, SampleTypes DEF ThreadState
<1>3. \A j \in 1 .. Len(a) - 1 : a[j + 1] = a[j] + 1
  BY <1>2 DEF Contiguous
<1>4. a # << >> => s.pos = a[Len(a)] + 1
  OBVIOUS
<1> HIDE DEF r, n, a, b
<1>5. \A j \in 1 .. Len(b) - 1 : b[j + 1] = b[j] + 1
  <2>1. CASE b = a
    BY <1>3, <2>1
  <2>2. CASE b = Append(a, s.pos)
    <3>1. Len(b) = Len(a) + 1 /\ b[Len(a) + 1] = s.pos /\ \A j \in 1 .. Len(a) : b[j] = a[j]
      BY <1>2, <2>2
    <3>2. \A j \in 1 .. Len(a) : (j \in 1 .. Len(a) - 1 /\ j + 1 \in 1 .. Len(a)) \/ j = Len(a)
      BY <1>2
    <3>3. Len(a) \in 1 .. Len(a) => a # << >>
      BY <1>2
    <3>4. ASSUME NEW j \in 1 .. Len(a) PROVE b[j + 1] = b[j] + 1
      <4>1. CASE j = Len(a)
        BY <1>2, <1>4, <3>1, <3>3, <4>1
      <4>2. CASE j \in 1 .. Len(a) - 1 /\ j + 1 \in 1 .. Len(a)
        <5>1. b[j + 1] = a[j + 1] /\ b[j] = a[j] /\ a[j + 1] = a[j] + 1
          BY <1>3, <3>1, <4>2
        <5>2. QED
          BY <5>1
      <4>3. QED
        BY <3>2, <3>4, <4>1, <4>2
    <3>5. Len(b) - 1 = Len(a)
      BY <1>2, <3>1
    <3>6. QED
      BY <3>4, <3>5
  <2>3. QED
    BY <1>1, <2>1, <2>2
<1>6. s.samples[n].file = "open" => b # << >> /\ b[Len(b)] = s.pos
  BY <1>1, <1>2
<1>7. \A i \in 1 .. n : i = n \/ (i \in 1 .. n - 1 /\ i \in 1 .. Len(s.samples))
  BY <1>1 DEF n
<1>8. Contiguous(r)
  <2>1. ASSUME NEW i \in 1 .. n - 1, i \in 1 .. Len(s.samples)
        PROVE  \A j \in 1 .. Len(r.samples[i].recs) - 1 :
                 r.samples[i].recs[j + 1] = r.samples[i].recs[j] + 1
    <3>1. r.samples[i] = s.samples[i]
      BY <1>1, <2>1
    <3>2. QED
      BY <2>1, <3>1 DEF Contiguous
  <2>2. QED
    BY <1>1, <1>5, <1>7, <2>1 DEF Contiguous, b
<1>9. QED
  BY <1>1, <1>6, <1>8 DEF r, b, n

(* What a finished sample leaves behind, whatever follows it.              *)
LEMMA CollectedShape ==
  ASSUME NEW s \in ThreadState
  PROVE  LET c == Collected(s)
         IN  /\ c \in ThreadState /\ Same(s, c)
             /\ c.samples_collected = s.samples_collected + 1
             /\ c.pos = s.pos /\ c.mode = s.mode /\ c.hasty = s.hasty /\ c.life = s.life
             /\ c.phase = s.phase /\ c.todo = s.todo /\ c.counter = s.counter
<1> DEFINE f == force_close(s)
           c == Collected(s)
<1>1. f \in ThreadState /\ f = [s EXCEPT !.samples = f.samples] /\ Same(s, f)
  BY ForceClose, CloseSame
<1>2. c = [f EXCEPT !.samples_collected = f.samples_collected + 1]
  BY DEF Collected
<1>3. f.samples_collected \in Nat /\ f.samples_collected + 1 \in Nat
  BY <1>1 DEF ThreadState
<1> HIDE DEF f, c
<1>4. /\ f.samples_collected = s.samples_collected /\ f.pos = s.pos /\ f.mode = s.mode
      /\ f.hasty = s.hasty /\ f.life = s.life /\ f.phase = s.phase /\ f.todo = s.todo
      /\ f.counter = s.counter
  BY <1>1 DEF ThreadState
<1>5. /\ c \in ThreadState /\ c.samples = f.samples
      /\ c.samples_collected = f.samples_collected + 1
      /\ c.pos = f.pos /\ c.mode = f.mode /\ c.hasty = f.hasty /\ c.life = f.life
      /\ c.phase = f.phase /\ c.todo = f.todo /\ c.counter = f.counter
  BY <1>1, <1>2, <1>3 DEF ThreadState
<1>6. Same(s, c)
  BY <1>1, <1>5 DEF Same
<1>7. QED
  BY <1>4, <1>5, <1>6 DEF c

(* A sample is over when its counter is at zero.                           *)
Full(s) ==
  LET n == Len(s.samples)
  IN  /\ s.phase = "TRACING" /\ s.todo = << >> /\ s.counter = 0
      /\ n = s.samples_collected + 1
      /\ knobs.sample_limit > 0 => n <= knobs.sample_limit
      /\ Lengths(s, knobs)
      /\ s.samples[n].file # "closed"
      /\ s.samples[n].file = "open" => Len(s.samples[n].recs) = knobs.trace_per_sample
      /\ Ordered(s) /\ InTime(s, Reach(s, knobs), n)
      /\ ~s.hasty => Contiguous(s)

LEMMA CollectedIsRight ==
  ASSUME PinInv, NEW s \in ThreadState, Full(s)
  PROVE  LET c == Collected(s)
         IN  /\ Lengths(c, knobs) /\ Ordered(c) /\ (~c.hasty => Contiguous(c))
             /\ Len(c.samples) = c.samples_collected /\ c.samples_collected > 0
             /\ knobs.sample_limit > 0 => c.samples_collected <= knobs.sample_limit
             /\ ~QuotaReached(c) =>
                  /\ knobs.sample_limit > 0 => Len(c.samples) < knobs.sample_limit
                  /\ \A g \in Nat : g >= Gap(c) => InTime(c, c.pos + g, Len(c.samples) + 1)
<1> DEFINE c == Collected(s)
           n == Len(s.samples)
           T == knobs.trace_per_sample
<1>1. /\ c \in ThreadState /\ Same(s, c) /\ c.samples_collected = s.samples_collected + 1
      /\ c.pos = s.pos /\ c.hasty = s.hasty
  BY CollectedShape
<1>2. /\ n \in Nat \ {0} /\ n = s.samples_collected + 1 /\ s.samples_collected \in Nat
      /\ T \in Nat /\ s.pos \in Nat /\ knobs.sample_limit \in Nat
  BY SamplesTypes, KnobTypes DEF Full, ThreadState, Knob
<1> HIDE DEF c, n, T
<1>3. Len(c.samples) = n /\ c.samples_collected = n
  BY <1>1, <1>2 DEF Same, n
<1>4. Lengths(c, knobs)
  <2>1. ASSUME NEW i \in 1 .. n
        PROVE  /\ Len(c.samples[i].recs) <= T
               /\ c.samples[i].file = "failed" => c.samples[i].recs = << >>
               /\ c.samples[i].file # "failed" => Len(c.samples[i].recs) = T
    <3>1. /\ c.samples[i].recs = s.samples[i].recs
          /\ c.samples[i].file = "failed" <=> s.samples[i].file = "failed"
      BY <1>1, <2>1 DEF Same, n
    <3>2. CASE i = n
      <4>1. s.samples[i].file \in {"open", "closed", "failed"}
        BY <2>1, SampleTypes DEF n
      <4>2. QED
        BY <2>1, <3>1, <3>2, <4>1 DEF Full, Lengths, n, T
    <3>3. CASE i # n
      <4>1. i <= s.samples_collected
        BY <1>2, <2>1, <3>3
      <4>2. QED
        BY <2>1, <3>1, <4>1 DEF Full, Lengths, n, T
    <3>4. QED
      BY <3>2, <3>3
  <2>2. QED
    BY <1>3, <2>1 DEF Lengths, T
<1>5. Filled(c) = Filled(s) /\ \A i \in Filled(s) : First(c, i) = First(s, i)
  BY <1>1 DEF Filled, First, Same
<1>6. Ordered(c) /\ (~c.hasty => Contiguous(c))
  <2>1. Ordered(c)
    BY <1>5 DEF Full, Ordered
  <2>2. ~c.hasty => Contiguous(c)
    <3>1. ~c.hasty => Contiguous(s)
      BY <1>1 DEF Full
    <3>2. \A i \in 1 .. Len(c.samples) : i \in 1 .. Len(s.samples) /\ c.samples[i].recs = s.samples[i].recs
      BY <1>1 DEF Same
    <3>3. QED
      BY <3>1, <3>2 DEF Contiguous
  <2>3. QED
    BY <2>1, <2>2
<1>7. ASSUME ~QuotaReached(c)
      PROVE  knobs.sample_limit > 0 => n < knobs.sample_limit
  BY <1>2, <1>3, <1>7 DEF QuotaReached
<1>8. ASSUME ~QuotaReached(c), NEW g \in Nat, g >= Gap(c)
      PROVE  InTime(c, c.pos + g, n + 1)
  <2> DEFINE d == Start(n)
             b == Start(n + 1)
             h == Gap(c)
             p == s.pos
             x == Reach(s, knobs)
  <2>1. b = d + T + h
    BY <1>1, <1>2, <1>3, <1>8, GapIsRight DEF T
  <2>2. h \in Int
    BY <1>1, <1>2, <1>3, <1>8, GapType
  <2>3. knobs.sample_limit > 0 => n <= knobs.sample_limit
    BY DEF Full, n
  <2>4. d \in Int
    BY <1>2, <2>3, StartType
  <2>5. x = p - T /\ p \in Int
    BY <1>2 DEF Full, Reach, T
  <2>6. x >= d
    BY DEF Full, InTime, n
  <2>7. \A i \in Filled(s) : Start(i) \in Int /\ First(s, i) \in Int
    <3>1. \A i \in Filled(s) : i \in Nat \ {0} /\ i <= n /\ i \in 1 .. Len(s.samples)
                               /\ s.samples[i].recs # << >>
      BY <1>2 DEF Filled, n
    <3>2. \A i \in Filled(s) : knobs.sample_limit > 0 => i <= knobs.sample_limit
      BY <1>2, <2>3, <3>1
    <3>3. QED
      BY <3>1, <3>2, StartType, SampleTypes
  <2>8. ASSUME NEW i \in Filled(c) PROVE p + g + 1 - First(c, i) >= b - Start(i)
    <3> DEFINE f == First(c, i)
               a == Start(i)
    <3>1. i \in Filled(s) /\ f = First(s, i) /\ f \in Int /\ a \in Int
      BY <1>5, <2>7, <2>8
    <3>2. x + 1 - f >= d - a
      BY <3>1 DEF Full, InTime, n
    <3> HIDE DEF f, a, d, b, h, p, x
    <3>3. p + g + 1 - f >= b - a
      BY <1>2, <1>8, <2>1, <2>2, <2>4, <2>5, <3>1, <3>2 DEF h
    <3>4. QED
      BY <3>3 DEF f, a
  <2>9. p + g >= b
    <3>1. g >= h
      BY <1>8
    <3> HIDE DEF d, b, h, p, x
    <3>2. QED
      BY <1>2, <2>1, <2>2, <2>4, <2>5, <2>6, <3>1
  <2>10. QED
    BY <1>1, <2>8, <2>9 DEF InTime
<1>9. QED
  BY <1>2, <1>3, <1>4, <1>6, <1>7, <1>8 DEF c, Full, n

LEMMA FinishedIsRight ==
  ASSUME PinInv, NEW s \in ThreadState, Full(s), NEW file \in Opens, NEW e, NEW y
  PROVE  LET f == finish_sample(s, file)
         IN  Sampled(f, knobs, e) /\ Placed(f, knobs) /\ Solid(f, y)
<1> DEFINE c == Collected(s)
           f == finish_sample(s, file)
<1>1. /\ c \in ThreadState /\ c.phase = "TRACING" /\ c.todo = << >> /\ c.counter = 0
  BY CollectedShape DEF Full
<1>2. /\ Lengths(c, knobs) /\ Ordered(c) /\ (~c.hasty => Contiguous(c))
      /\ Len(c.samples) = c.samples_collected /\ c.samples_collected > 0
      /\ knobs.sample_limit > 0 => c.samples_collected <= knobs.sample_limit
      /\ ~QuotaReached(c) =>
           /\ knobs.sample_limit > 0 => Len(c.samples) < knobs.sample_limit
           /\ \A g \in Nat : g >= Gap(c) => InTime(c, c.pos + g, Len(c.samples) + 1)
  BY CollectedIsRight
<1>3. c.pos \in Nat
  BY <1>1 DEF ThreadState
<1>4. CASE QuotaReached(c)
  <2> DEFINE q == <<"done", "sub", "remove">>
  <2>1. f = [c EXCEPT !.phase = "DONE", !.todo = q]
    BY <1>4 DEF finish_sample
  <2>2. q \in Seq(Operations) /\ ~Awaits(q, "join") /\ ~Awaits(q, "add")
    BY QueueStop DEF Adds
  <2> HIDE DEF c, q, f
  <2>3. /\ f.phase = "DONE" /\ f.todo = q /\ f.samples = c.samples
        /\ f.samples_collected = c.samples_collected /\ f.hasty = c.hasty
    BY <1>1, <2>1 DEF ThreadState
  <2>4. Filled(f) = Filled(c) /\ \A i \in Filled(c) : First(f, i) = First(c, i)
    BY <2>3 DEF Filled, First
  <2>5. Sampled(f, knobs, e)
    BY <1>2, <2>3 DEF Sampled, Lengths
  <2>6. Placed(f, knobs)
    BY <1>2, <2>3, <2>4 DEF Placed, Ordered, Scheduled
  <2>7. Solid(f, y)
    BY <1>2, <2>2, <2>3 DEF Solid, Contiguous
  <2>8. QED
    BY <2>5, <2>6, <2>7 DEF f
<1>5. CASE ~QuotaReached(c) /\ Gap(c) > 0
  <2> DEFINE q == <<"sub", "remove">>
             g == Gap(c)
  <2>1. f = [c EXCEPT !.phase = "INTER_SKIP", !.counter = g, !.todo = q]
    BY <1>5 DEF finish_sample
  <2>2. q \in Seq(Operations) /\ ~Awaits(q, "join") /\ ~Awaits(q, "add")
    BY QueueStop DEF Adds
  <2>3. g \in Nat
    BY <1>1, <1>2, <1>5, GapType
  <2>4. InTime(c, c.pos + g, Len(c.samples) + 1)
    BY <1>2, <1>5, <2>3
  <2> HIDE DEF c, q, f, g
  <2>5. /\ f.phase = "INTER_SKIP" /\ f.todo = q /\ f.samples = c.samples /\ f.counter = g
        /\ f.samples_collected = c.samples_collected /\ f.hasty = c.hasty /\ f.pos = c.pos
    BY <1>1, <2>1 DEF ThreadState
  <2>6. Filled(f) = Filled(c) /\ \A i \in Filled(c) : First(f, i) = First(c, i)
    BY <2>5 DEF Filled, First
  <2>7. Sampled(f, knobs, e)
    BY <1>2, <1>5, <2>5 DEF Sampled, Lengths
  <2>8. Reach(f, knobs) = c.pos + g /\ Due(f) = Len(c.samples) + 1
    BY <2>5 DEF Reach, Due
  <2>9. Placed(f, knobs)
    BY <1>2, <2>4, <2>6, <2>8 DEF Placed, Ordered, InTime
  <2>10. Solid(f, y)
    BY <1>2, <2>2, <2>5 DEF Solid, Contiguous
  <2>11. QED
    BY <2>7, <2>9, <2>10 DEF f
<1>6. CASE ~QuotaReached(c) /\ ~(Gap(c) > 0)
  <2>1. f = Begun(c, file, << >>)
    BY <1>6 DEF finish_sample
  <2>2. << >> \in Seq(Operations) /\ ~Awaits(<< >>, "join") /\ ~Awaits(<< >>, "add")
    BY QueueIdle DEF Adds
  <2>3. InTime(c, c.pos, Len(c.samples) + 1)
    <3>1. Gap(c) \in Int
      BY <1>1, <1>2, <1>6, GapType
    <3>2. InTime(c, c.pos + 0, Len(c.samples) + 1)
      BY <1>2, <1>6, <3>1
    <3>3. c.pos + 0 = c.pos
      BY <1>3
    <3>4. QED
      BY <3>2, <3>3
  <2> HIDE DEF c, f
  <2>4. Sampled(Begun(c, file, << >>), knobs, e)
    BY <1>1, <1>2, <1>6, <2>2, BegunSampled
  <2>5. Placed(Begun(c, file, << >>), knobs)
    BY <1>1, <1>2, <2>2, <2>3, BegunPlaced
  <2>6. Solid(Begun(c, file, << >>), y)
    BY <1>1, <1>2, <2>2, BegunSolid
  <2>7. QED
    BY <2>1, <2>4, <2>5, <2>6 DEF f
<1>7. QED
  BY <1>4, <1>5, <1>6

---------------------------------------------------------------------------
(* What the steps share.                                                   *)

LEMMA SampleFacts ==
  ASSUME PinInv, SampleInv, NEW t \in Threads
  PROVE  /\ th[t] \in ThreadState
         /\ Sampled(th[t], knobs, exit) /\ Placed(th[t], knobs) /\ Solid(th[t], roi.ended)
         /\ th[t].phase = "TRACING" => th[t].samples # << >>
         /\ Lengths(th[t], knobs) /\ Ordered(th[t]) /\ (~th[t].hasty => Contiguous(th[t]))
BY RunningFacts DEF SampleInv, Sound, Sampled, Placed, Solid

(* The command line does not change.                                       *)
LEMMA PlacedStays ==
  ASSUME NEW s, knobs' = knobs, Placed(s, knobs)
  PROVE  Placed(s, knobs)'
BY DEF Placed, Ordered, InTime, Start, Reach, Due, Scheduled, Filled, First

(* A step of one thread.                                                   *)
LEMMA SampleStep ==
  ASSUME PinInv, SampleInv, NEW t \in Threads, NEW s \in ThreadState, Update(t, s), knobs' = knobs,
         exit = "over" => exit' = "over", roi.ended => roi'.ended,
         Sampled(s, knobs, exit'), Placed(s, knobs), Solid(s, roi'.ended), Clean'
  PROVE  SampleInv'
<1>1. th'[t] = s /\ \A u \in Threads \ {t} : th'[u] = th[u]
  BY DEF PinInv, TypeOK, Update
<1>2. ASSUME NEW u \in Threads
      PROVE  /\ Sampled(th'[u], knobs', exit') /\ Placed(th[u], knobs)'
             /\ Solid(th'[u], roi'.ended)
  <2>1. CASE u = t
    <3>1. Placed(s, knobs)' /\ th'[u] = s
      BY <1>1, <2>1, PlacedStays
    <3>2. Placed(th[u], knobs)'
      BY <3>1 DEF Placed, Ordered, InTime, Start, Reach, Due, Scheduled, Filled, First
    <3>3. QED
      BY <3>1, <3>2
  <2>2. CASE u # t
    <3> PICK v \in ThreadState : v = th[u]
      BY SampleFacts
    <3>1. Sampled(v, knobs, exit) /\ Placed(v, knobs) /\ Solid(v, roi.ended) /\ th'[u] = v
      BY <1>1, <2>2, SampleFacts
    <3>2. Sampled(v, knobs, exit')
      BY <3>1, SameIsSame, KeepsSampled
    <3>3. Placed(v, knobs)'
      BY <3>1, PlacedStays
    <3>4. Solid(v, roi'.ended)
      BY <3>1 DEF Solid
    <3>5. Placed(th[u], knobs)'
      BY <3>1, <3>3 DEF Placed, Ordered, InTime, Start, Reach, Due, Scheduled, Filled, First
    <3>6. QED
      BY <3>1, <3>2, <3>4, <3>5
  <2>3. QED
    BY <2>1, <2>2
<1>3. QED
  BY <1>2 DEF SampleInv

(* While a thread records, code is compiled for recording.                 *)
LEMMA RecordingCompiles ==
  ASSUME PinInv, NEW u \in Threads, Recording(th[u]), ~roi.ended
  PROVE  InstrumentTrace = "full"
<1>1. Counted(th[u])
  BY DEF Recording, Counted, Adds
<1>2. active # 0 /\ active \in Nat
  <2> DEFINE C == {t \in Threads : Counted(th[t])}
  <2>1. IsFiniteSet(C) /\ u \in C
    BY <1>1, PinAssumption, FS_Subset
  <2>2. Cardinality(C) # 0
    BY <2>1, FS_EmptySet
  <2>3. QED
    BY <2>2 DEF PinInv, ActiveCounted, TypeOK
<1>3. ~(knobs.use_markers /\ ~roi.started)
  BY DEF PinInv, Waits, Recording
<1>4. QED
  BY <1>2, <1>3 DEF InstrumentTrace

(* The code cache gets nothing new, or what is compiled at the moment.     *)
LEMMA CleanStep ==
  ASSUME PinInv, Clean, NEW t \in Threads, NEW s, Update(t, s),
         roi.ended => roi'.ended,
         Recording(s) => Recording(th[t]) \/ cache' \subseteq {"full"},
         cache' \subseteq cache \cup {InstrumentTrace}
  PROVE  Clean'
<1>1. th'[t] = s /\ \A u \in Threads \ {t} : th'[u] = th[u]
  BY DEF PinInv, TypeOK, Update
<1> SUFFICES ASSUME ~roi'.ended, NEW u \in Threads, Recording(th'[u])
             PROVE  cache' \subseteq {"full"}
  BY DEF Clean
<1>2. CASE Recording(th[u])
  <2>1. InstrumentTrace = "full" /\ cache \subseteq {"full"}
    BY <1>2, RecordingCompiles DEF Clean
  <2>2. QED
    BY <2>1
<1>3. CASE ~Recording(th[u])
  BY <1>1, <1>3
<1>4. QED
  BY <1>2, <1>3

---------------------------------------------------------------------------
(* The shared operations leave the samples alone.                          *)
LEMMA PopAwaits ==
  ASSUME NEW q \in Seq(Operations), q # << >>, NEW op, Head(q) # op
  PROVE  Awaits(Tail(q), op) <=> Awaits(q, op)
<1>1. Len(q) \in Nat \ {0} /\ Len(Tail(q)) = Len(q) - 1
  OBVIOUS
<1>2. \A i \in 1 .. Len(q) - 1 : Tail(q)[i] = q[i + 1]
  OBVIOUS
<1>3. DOMAIN q = 1 .. Len(q) /\ DOMAIN Tail(q) = 1 .. Len(q) - 1 /\ Head(q) = q[1]
  BY <1>1
<1>4. ASSUME NEW i \in DOMAIN Tail(q), Tail(q)[i] = op PROVE Awaits(q, op)
  BY <1>4, <1>1, <1>2, <1>3 DEF Awaits
<1>5. ASSUME NEW i \in DOMAIN q, q[i] = op PROVE Awaits(Tail(q), op)
  <2>1. i - 1 \in DOMAIN Tail(q) /\ Tail(q)[i - 1] = op
    BY <1>5, <1>1, <1>2, <1>3
  <2>2. QED
    BY <2>1 DEF Awaits
<1>6. QED
  BY <1>4, <1>5 DEF Awaits

LEMMA PushAwaits ==
  ASSUME NEW q \in Seq(Operations), NEW op
  PROVE  /\ Awaits(q, op) => Awaits(<<"load", "test">> \o q, op)
         /\ Awaits(q \o <<"remove">>, "remove")
         /\ q \o <<"remove">> # << >>
<1>1. Len(q) \in Nat /\ DOMAIN q = 1 .. Len(q)
  OBVIOUS
<1>2. DOMAIN (<<"load", "test">> \o q) = 1 .. Len(q) + 2
      /\ \A i \in 1 .. Len(q) : (<<"load", "test">> \o q)[i + 2] = q[i]
  OBVIOUS
<1>3. DOMAIN (q \o <<"remove">>) = 1 .. Len(q) + 1
      /\ (q \o <<"remove">>)[Len(q) + 1] = "remove"
  OBVIOUS
<1>4. ASSUME NEW i \in DOMAIN q, q[i] = op PROVE Awaits(<<"load", "test">> \o q, op)
  <2>1. i + 2 \in 1 .. Len(q) + 2
    BY <1>1, <1>4
  <2>2. QED
    BY <1>1, <1>2, <1>4, <2>1 DEF Awaits
<1>5. Awaits(q \o <<"remove">>, "remove") /\ q \o <<"remove">> # << >>
  BY <1>1, <1>3 DEF Awaits
<1>6. QED
  BY <1>4, <1>5 DEF Awaits

LEMMA OpStep ==
  ASSUME PinInv, SampleInv, NEW t \in Threads, NEW op, Doing(t, op),
         NEW s \in ThreadState, Update(t, s), s.samples = th[t].samples, s.phase = th[t].phase,
         s.counter = th[t].counter, s.samples_collected = th[t].samples_collected,
         s.pos = th[t].pos, s.mode = th[t].mode, ~Adds(s.todo),
         \/ s.hasty = th[t].hasty
         \/ op = "join",
         knobs' = knobs, roi' = roi, cache' \subseteq cache,
         Recording(s) => Recording(th[t]) \/ cache' \subseteq {"full"}
  PROVE  SampleInv'
<1> PICK o \in ThreadState : o = th[t]
  BY SampleFacts
<1>1. /\ Sampled(o, knobs, exit) /\ Placed(o, knobs) /\ Solid(o, roi.ended) /\ Sound(o)
      /\ o.phase = "TRACING" => o.samples # << >>
      /\ o.todo # << >> /\ o.life = "alive" /\ exit # "over" /\ Head(o.todo) = op
      /\ o.todo \in Seq(Operations)
  BY SampleFacts, RunningFacts DEF Doing, ThreadState
<1>2. Same(o, s)
  BY SameIsSame
<1>3. Sampled(s, knobs, exit')
  BY <1>1, <1>2, KeepsSampled
<1>4. o.pos \in Nat
  BY DEF ThreadState
<1>5. Placed(s, knobs)
  BY <1>1, <1>2, <1>4, KeepsPlaced
<1>6. Solid(s, roi'.ended)
  <2>1. CASE s.hasty = o.hasty
    BY <1>1, <1>2, <2>1, UnmovedSolid DEF Adds
  <2>2. CASE op = "join"
    <3>1. Adds(o.todo) /\ Awaits(o.todo, "join")
      <4>1. 1 \in DOMAIN o.todo /\ o.todo[1] = "join"
        BY <1>1, <2>2
      <4>2. QED
        BY <4>1 DEF Adds, Awaits
    <3>2. Len(o.samples) = 1 /\ o.phase = "TRACING" /\ o.samples[1].recs = << >>
      BY <1>1, <3>1 DEF Solid, Sound
    <3>3. \A j \in 1 .. Len(o.samples[1].recs) - 1 : FALSE
      BY <3>2
    <3>4. \A i \in 1 .. 1 : i = 1
      OBVIOUS
    <3>5. Contiguous(s)
      BY <3>2, <3>3, <3>4 DEF Contiguous
    <3>6. QED
      BY <3>2, <3>5 DEF Solid, Adds
  <2>3. QED
    BY <2>1, <2>2
<1>7. Clean'
  BY CleanStep DEF SampleInv
<1>8. exit = "over" => exit' = "over"
  BY <1>1
<1>9. QED
  BY <1>3, <1>5, <1>6, <1>7, <1>8, SampleStep

LEMMA OperationSamples ==
  ASSUME PinInv, SampleInv, NEW t \in Threads, Operation(t)
  PROVE  SampleInv'
<1> PICK o \in ThreadState : o = th[t]
  BY SampleFacts
<1> DEFINE n == Next1(t)
<1>1. Sound(o) /\ Solid(o, roi.ended) /\ o.todo \in Seq(Operations)
  BY SampleFacts, RunningFacts DEF ThreadState
<1>2. ASSUME NEW op, Doing(t, op)
      PROVE  /\ n \in ThreadState /\ n = [o EXCEPT !.todo = Tail(o.todo)] /\ ~Adds(n.todo)
             /\ n.samples = o.samples /\ n.phase = o.phase /\ n.counter = o.counter
             /\ n.samples_collected = o.samples_collected /\ n.pos = o.pos /\ n.mode = o.mode
             /\ n.hasty = o.hasty /\ n.life = "alive" /\ n.todo = Tail(o.todo)
             /\ n.todo \in Seq(Operations) /\ o.todo # << >> /\ Head(o.todo) = op /\ o.life = "alive"
  <2>1. n = [o EXCEPT !.todo = Tail(o.todo)] /\ Sound(n) /\ ~Adds(n.todo)
        /\ o.todo # << >> /\ Head(o.todo) = op /\ o.life = "alive"
    BY <1>2, PopState DEF Doing
  <2>2. n \in ThreadState
    BY <2>1 DEF Sound
  <2> HIDE DEF n
  <2>3. QED
    BY <2>1, <2>2 DEF ThreadState
(* An operation other than "remove" and than a first one leaves the queue  *)
(* no nearer to recording.                                                 *)
<1>3. ASSUME NEW op \in {"started", "done", "load", "test", "sub"}, Doing(t, op),
             NEW s \in ThreadState, s.phase = o.phase, s.hasty = o.hasty, Recording(s),
             s.todo = n.todo \/ s.todo = <<"load", "test">> \o n.todo
      PROVE  Recording(th[t])
  <2>1. ~Awaits(n.todo, "remove")
    <3>1. ~Awaits(s.todo, "remove")
      BY <1>3 DEF Recording
    <3>2. n.todo \in Seq(Operations)
      BY <1>2, <1>3
    <3> HIDE DEF n
    <3>3. QED
      BY <1>3, <3>1, <3>2, PushAwaits
  <2>2. ~Awaits(o.todo, "remove") /\ ~Adds(o.todo)
    <3>1. Head(o.todo) = op /\ o.todo # << >> /\ n.todo = Tail(o.todo)
      BY <1>2, <1>3
    <3>2. ~Awaits(o.todo, "remove")
      BY <1>1, <1>3, <2>1, <3>1, PopAwaits
    <3>3. Adds(o.todo) <=> op \in {"add", "join"}
      BY <1>1, <3>1, QueuePop DEF Sound
    <3>4. QED
      BY <1>3, <3>2, <3>3
  <2>3. o.life = "alive"
    BY <1>2, <1>3
  <2>4. QED
    BY <1>3, <2>2, <2>3 DEF Recording
<1>4. CASE Add(t)
  <2>1. Doing(t, "add") /\ Update(t, n) /\ UNCHANGED <<knobs, roi, cache>>
    BY <1>4 DEF Add
  <2>2. Awaits(n.todo, "remove")
    <3>1. Head(o.todo) = "add" /\ o.todo # << >> /\ n.todo = Tail(o.todo)
      BY <1>2, <2>1
    <3>2. Awaits(o.todo, "add")
      <4>1. 1 \in DOMAIN o.todo /\ o.todo[1] = "add"
        BY <1>1, <3>1
      <4>2. QED
        BY <4>1 DEF Awaits
    <3>3. QED
      BY <1>1, <3>1, <3>2, PopAwaits DEF Solid
  <2>3. ~Recording(n)
    BY <2>2 DEF Recording
  <2>4. /\ n \in ThreadState /\ ~Adds(n.todo)
        /\ n.samples = o.samples /\ n.phase = o.phase /\ n.counter = o.counter
        /\ n.samples_collected = o.samples_collected /\ n.pos = o.pos /\ n.mode = o.mode
        /\ n.hasty = o.hasty
    BY <1>2, <2>1
  <2> HIDE DEF n
  <2>5. QED
    BY <2>1, <2>3, <2>4, OpStep
<1>5. CASE AddFirst(t)
  <2> DEFINE q == IF active = 0 THEN n.todo \o <<"remove">> ELSE n.todo
             h == active # 0 /\ Stale
             s == [n EXCEPT !.hasty = h, !.todo = q]
  <2>1. Doing(t, "join") /\ UNCHANGED <<knobs, roi, cache>>
    BY <1>5 DEF AddFirst
  <2>2. /\ n \in ThreadState /\ ~Adds(n.todo)
        /\ n.samples = o.samples /\ n.phase = o.phase /\ n.counter = o.counter
        /\ n.samples_collected = o.samples_collected /\ n.pos = o.pos /\ n.mode = o.mode
        /\ n.todo \in Seq(Operations) /\ Queue(n.todo)
    BY <1>2, <2>1, PopState DEF Sound
  <2>3. Update(t, s)
    BY <1>5, <2>2 DEF AddFirst, ThreadState
  <2>4. q \in Seq(Operations) /\ ~Adds(q) /\ (active = 0 => Awaits(q, "remove"))
    BY <2>2, QueueRemove, PushAwaits
  <2>5. h \in BOOLEAN /\ (~h => active = 0 \/ cache \subseteq {"full"})
    BY DEF Stale
  <2> HIDE DEF n, q, h
  <2>6. /\ s \in ThreadState /\ s.todo = q /\ s.hasty = h
        /\ s.samples = n.samples /\ s.phase = n.phase /\ s.counter = n.counter
        /\ s.samples_collected = n.samples_collected /\ s.pos = n.pos /\ s.mode = n.mode
    BY <2>2, <2>4, <2>5 DEF ThreadState
  <2>7. Recording(s) => cache' \subseteq {"full"}
    BY <2>1, <2>4, <2>5, <2>6 DEF Recording
  <2> HIDE DEF s
  <2>8. QED
    BY <2>1, <2>2, <2>3, <2>4, <2>6, <2>7, OpStep
<1>6. CASE Subtract(t)
  <2>1. Doing(t, "sub") /\ Update(t, n) /\ UNCHANGED <<knobs, roi, cache>>
    BY <1>6 DEF Subtract
  <2>2. QED
    BY <1>2, <1>3, <2>1, OpStep
<1>7. CASE mark_started_tracing(t)
  <2> DEFINE s == [n EXCEPT !.ever_started_tracing = TRUE]
  <2>1. Doing(t, "started") /\ Update(t, s) /\ UNCHANGED <<knobs, roi, cache>>
    BY <1>7 DEF mark_started_tracing
  <2>2. /\ s \in ThreadState /\ s.todo = n.todo /\ s.hasty = n.hasty
        /\ s.samples = n.samples /\ s.phase = n.phase /\ s.counter = n.counter
        /\ s.samples_collected = n.samples_collected /\ s.pos = n.pos /\ s.mode = n.mode
    BY <1>2, <2>1 DEF ThreadState
  <2> HIDE DEF s
  <2>3. QED
    BY <1>2, <1>3, <2>1, <2>2, OpStep
<1>8. CASE mark_reached_done(t)
  <2>1. Doing(t, "done") /\ UNCHANGED <<knobs, roi, cache>>
    BY <1>8 DEF mark_reached_done
  <2>2. CASE Update(t, n)
    BY <1>2, <1>3, <2>1, <2>2, OpStep
  <2>3. CASE ~Update(t, n)
    <3> DEFINE q == IF knobs.exit_on_done THEN <<"load", "test">> \o n.todo ELSE n.todo
               s == [n EXCEPT !.ever_reached_done = TRUE, !.todo = q]
    <3>1. Update(t, s)
      BY <1>2, <1>8, <2>1, <2>3 DEF mark_reached_done, ThreadState
    <3>2. n.todo \in Seq(Operations) /\ ~Adds(n.todo) /\ Queue(n.todo)
      BY <1>2, <2>1, PopState DEF Sound
    <3>3. q \in Seq(Operations) /\ ~Adds(q)
      BY <3>2, QueuePush
    <3>4. /\ s \in ThreadState /\ s.todo = q /\ s.hasty = n.hasty
          /\ s.samples = n.samples /\ s.phase = n.phase /\ s.counter = n.counter
          /\ s.samples_collected = n.samples_collected /\ s.pos = n.pos /\ s.mode = n.mode
      BY <1>2, <2>1, <3>3 DEF ThreadState
    <3>5. s.todo = n.todo \/ s.todo = <<"load", "test">> \o n.todo
      BY <3>4
    <3> HIDE DEF s, q
    <3>6. QED
      BY <1>2, <1>3, <2>1, <3>1, <3>3, <3>4, <3>5, OpStep
  <2>4. QED
    BY <2>2, <2>3
<1>9. CASE LoadStarted(t)
  <2> DEFINE s == [n EXCEPT !.snap = counts.started]
  <2>1. Doing(t, "load") /\ Update(t, s) /\ UNCHANGED <<knobs, roi, cache>>
    BY <1>9 DEF LoadStarted, global
  <2>2. counts.started \in Nat
    BY RunningFacts
  <2>3. /\ s \in ThreadState /\ s.todo = n.todo /\ s.hasty = n.hasty
        /\ s.samples = n.samples /\ s.phase = n.phase /\ s.counter = n.counter
        /\ s.samples_collected = n.samples_collected /\ s.pos = n.pos /\ s.mode = n.mode
    BY <1>2, <2>1, <2>2 DEF ThreadState
  <2> HIDE DEF s
  <2>4. QED
    BY <1>2, <1>3, <2>1, <2>3, OpStep
<1>10. CASE maybe_exit_on_done(t)
  <2> DEFINE s == [n EXCEPT !.life = "exiting"]
  <2>1. Doing(t, "test") /\ UNCHANGED <<knobs, roi, cache>> /\ (Update(t, n) \/ Update(t, s))
    BY <1>10 DEF maybe_exit_on_done
  <2>2. CASE Update(t, n)
    BY <1>2, <1>3, <2>1, <2>2, OpStep
  <2>3. CASE Update(t, s)
    <3>1. /\ s \in ThreadState /\ s.todo = n.todo /\ s.hasty = n.hasty
          /\ s.samples = n.samples /\ s.phase = n.phase /\ s.counter = n.counter
          /\ s.samples_collected = n.samples_collected /\ s.pos = n.pos /\ s.mode = n.mode
      BY <1>2, <2>1 DEF ThreadState
    <3> HIDE DEF s
    <3>2. QED
      BY <1>2, <1>3, <2>1, <2>3, <3>1, OpStep
  <2>4. QED
    BY <2>1, <2>2, <2>3
<1>11. CASE RemoveInstrumentation(t)
  <2>1. Doing(t, "remove") /\ Update(t, n) /\ UNCHANGED <<knobs, roi>> /\ cache' = {}
    BY <1>11 DEF RemoveInstrumentation
  <2>2. QED
    BY <1>2, <2>1, OpStep
<1>12. QED
  BY <1>4, <1>5, <1>6, <1>7, <1>8, <1>9, <1>10, <1>11 DEF Operation

---------------------------------------------------------------------------
(* The steps of the program and the samples.                               *)

LEMMA KnobMarkers ==
  ASSUME PinInv, knobs.use_markers
  PROVE  knobs.offsets = << >> /\ Start(1) = 0
<1>1. knobs.offsets = << >>
  BY PinAssumption DEF PinInv, TypeOK, KnobsAssumption
<1>2. knobs.trace_per_sample \in Nat /\ knobs.inter_sample_skip \in Nat
  BY KnobTypes DEF Knob
<1>3. QED
  BY <1>1, <1>2 DEF Start

LEMMA FirstStart ==
  ASSUME PinInv, ~knobs.use_markers
  PROVE  Start(1) = FirstSkip /\ FirstSkip \in Nat
<1>1. /\ knobs.trace_per_sample \in Nat /\ knobs.inter_sample_skip \in Nat
      /\ knobs.initial_skip \in Nat /\ knobs.offsets \in Seq(Nat)
  BY KnobTypes DEF Knob
<1>2. CASE knobs.offsets = << >>
  BY <1>1, <1>2 DEF Start, FirstSkip
<1>3. CASE knobs.offsets # << >>
  <2>1. knobs.offsets[1] \in Nat
    BY <1>1, <1>3
  <2>2. QED
    BY <1>3, <2>1 DEF Start, FirstSkip
<1>4. QED
  BY <1>2, <1>3

(* A thread that has no sample yet has no record that could be too late.   *)
LEMMA NothingFilled ==
  ASSUME NEW s, Len(s.samples) = 0
  PROVE  Filled(s) = {} /\ Contiguous(s) /\ Ordered(s)
BY DEF Filled, Contiguous, Ordered

(* The thread begins to trace.                                             *)
LEMMA BeginSamples ==
  ASSUME PinInv, SampleInv, NEW t \in Threads,
         NEW s \in ThreadState, NEW file \in Opens,
         NEW q \in {enter_tracing, <<"join", "started">>},
         Update(t, Begun(s, file, q)),
         Lengths(s, knobs), Len(s.samples) = s.samples_collected,
         knobs.sample_limit > 0 => Len(s.samples) < knobs.sample_limit,
         Ordered(s), InTime(s, s.pos, Len(s.samples) + 1),
         ~s.hasty => Contiguous(s), q # enter_tracing => Len(s.samples) = 0,
         knobs' = knobs, roi.ended => roi'.ended, exit = "no",
         cache' \subseteq cache \cup {InstrumentTrace}
  PROVE  SampleInv'
<1> DEFINE b == Begun(s, file, q)
<1>1. /\ q \in Seq(Operations) /\ Adds(q)
      /\ Awaits(q, "join") => Len(s.samples) = 0
      /\ Awaits(q, "add") => Awaits(q, "remove")
  <2>1. q \in Seq(Operations) /\ Adds(q)
    BY QueueBegin DEF enter_tracing
  <2>2. CASE q = enter_tracing
    <3>1. ~Awaits(q, "join") /\ Awaits(q, "remove")
      BY <2>2 DEF Awaits, enter_tracing
    <3>2. QED
      BY <2>1, <3>1
  <2>3. CASE q = <<"join", "started">>
    <3>1. ~Awaits(q, "add") /\ q # enter_tracing
      BY <2>3 DEF Awaits, enter_tracing
    <3>2. QED
      BY <2>1, <3>1
  <2>4. QED
    BY <2>2, <2>3
<1>2. b \in ThreadState /\ b.todo = q
  BY <1>1, BegunShape
<1>3. Sampled(b, knobs, exit')
  BY <1>1, BegunSampled
<1>4. Placed(b, knobs)
  BY <1>1, BegunPlaced
<1>5. Solid(b, roi'.ended)
  BY <1>1, BegunSolid
<1> HIDE DEF b
<1>6. Clean'
  BY <1>1, <1>2, CleanStep DEF SampleInv, Recording, b
<1>7. QED
  BY <1>2, <1>3, <1>4, <1>5, <1>6, SampleStep DEF b

(* The thread runs on without a change of phase, counter or queue.         *)
LEMMA PlainSamples ==
  ASSUME PinInv, SampleInv, NEW t \in Threads, Running(t),
         NEW s \in ThreadState, Update(t, s), s.samples = th[t].samples, s.phase = th[t].phase,
         s.counter = th[t].counter, s.samples_collected = th[t].samples_collected,
         s.pos >= th[t].pos, s.hasty = th[t].hasty, s.todo = << >>, s.life = "alive",
         LET recs == th[t].samples[Len(th[t].samples)].recs
         IN  s.phase = "TRACING" /\ ~s.hasty /\ recs # << >> =>
               IF s.mode = "full" THEN th[t].mode = "full" /\ s.pos = th[t].pos
               ELSE roi.ended,
         knobs' = knobs, roi' = roi, exit' = exit,
         cache' \subseteq cache \cup {InstrumentTrace}
  PROVE  SampleInv'
<1> PICK o \in ThreadState : o = th[t]
  BY SampleFacts
<1>1. /\ Sampled(o, knobs, exit) /\ Placed(o, knobs) /\ Solid(o, roi.ended)
      /\ o.phase = "TRACING" => o.samples # << >>
      /\ o.todo = << >> /\ o.life = "alive" /\ exit = "no"
  BY SampleFacts, RunningFacts DEF Running
<1>2. Same(o, s)
  BY SameIsSame
<1>3. Sampled(s, knobs, exit')
  BY <1>1, <1>2, KeepsSampled
<1>4. Placed(s, knobs)
  BY <1>1, <1>2, KeepsPlaced
<1>5. ~Awaits(s.todo, "join") /\ ~Awaits(s.todo, "add") /\ ~Adds(s.todo) /\ ~Awaits(s.todo, "remove")
  BY DEF Awaits, Adds
<1>6. Solid(s, roi'.ended)
  BY <1>1, <1>2, <1>5, KeepsSolid
<1>7. Recording(s) => Recording(o)
  BY <1>1, <1>5 DEF Recording
<1>8. Clean'
  BY <1>7, CleanStep DEF SampleInv
<1>9. QED
  BY <1>1, <1>3, <1>4, <1>6, <1>8, SampleStep

(* The thread is done with tracing.                                        *)
LEMMA DoneSamples ==
  ASSUME PinInv, SampleInv, NEW t \in Threads, exit = "no",
         NEW s \in ThreadState, Update(t, s), Same(th[t], s), s.phase = "DONE",
         s.samples_collected = th[t].samples_collected, s.hasty = th[t].hasty,
         ~Adds(s.todo), knobs' = knobs, roi.ended => roi'.ended,
         cache' \subseteq cache \cup {InstrumentTrace}
  PROVE  SampleInv'
<1> PICK o \in ThreadState : o = th[t]
  BY SampleFacts
<1>1. /\ Sampled(o, knobs, exit) /\ Placed(o, knobs) /\ Solid(o, roi.ended)
      /\ o.phase = "TRACING" => o.samples # << >>
  BY SampleFacts
<1>2. Sampled(s, knobs, exit')
  BY <1>1, EndsSampled
<1>3. Placed(s, knobs)
  BY <1>1, KeepsPlaced DEF Scheduled
<1>4. Solid(s, roi'.ended)
  BY <1>1, KeepsSolid DEF Adds
<1>5. ~Recording(s)
  BY DEF Recording
<1>6. Clean'
  BY <1>5, CleanStep DEF SampleInv
<1>7. QED
  BY <1>2, <1>3, <1>4, <1>6, SampleStep

(* Entering a trace that does not record ends a sample's run of records    *)
(* only when the region has ended.                                         *)
LEMMA EnterTraceSamples ==
  ASSUME PinInv, SampleInv, NEW t \in Threads, EnterTrace(t)
  PROVE  SampleInv'
<1>1. Running(t) /\ UNCHANGED <<knobs, roi, active, counts, exit>> /\ exit = "no"
  BY DEF EnterTrace, Running
<1>2. PICK m \in cache \cup {InstrumentTrace} :
        LET s == [th[t] EXCEPT !.mode = m]
        IN  /\ cache' = cache \cup {m}
            /\ \/ ~Checks(s) /\ Update(t, s)
               \/ Checks(s) /\ roi.ended /\ Update(t, Stopped(s))
               \/ /\ Checks(s) /\ ~roi.ended /\ WakesUp(s)
                  /\ \E file \in Opens : Update(t, Begun(s, file, <<"join", "started">>))
               \/ Checks(s) /\ ~roi.ended /\ ~WakesUp(s) /\ Update(t, s)
  BY DEF EnterTrace
<1> PICK o \in ThreadState : o = th[t]
  BY SampleFacts
<1> DEFINE s == [o EXCEPT !.mode = m]
<1>3. m \in Modes /\ cache' \subseteq cache \cup {InstrumentTrace}
  BY <1>2, RunningFacts DEF InstrumentTrace, Modes
<1>4. /\ Sampled(o, knobs, exit) /\ Placed(o, knobs) /\ Solid(o, roi.ended)
      /\ o.phase = "TRACING" => o.samples # << >>
      /\ o.todo = << >> /\ o.life = "alive"
  BY <1>1, SampleFacts, RunningFacts
<1>5. /\ s \in ThreadState /\ s.life = "alive" /\ s.phase = o.phase /\ s.todo = << >>
      /\ s.samples = o.samples /\ s.counter = o.counter /\ s.pos = o.pos /\ s.mode = m
      /\ s.samples_collected = o.samples_collected /\ s.hasty = o.hasty
  BY <1>3, <1>4 DEF ThreadState
<1>6. \/ Update(t, s) /\ (Checks(s) => ~roi.ended)
      \/ Checks(s) /\ roi.ended /\ Update(t, Stopped(s))
      \/ /\ Checks(s) /\ ~roi.ended /\ WakesUp(s)
         /\ \E file \in Opens : Update(t, Begun(s, file, <<"join", "started">>))
  BY <1>2
<1> HIDE DEF s
<1>7. CASE Update(t, s) /\ (Checks(s) => ~roi.ended)
  <2>1. ASSUME s.phase = "TRACING", ~s.hasty, o.samples[Len(o.samples)].recs # << >>
        PROVE  IF s.mode = "full" THEN o.mode = "full" ELSE roi.ended
    <3>1. CASE m = "full"
      <4>1. ~roi.ended
        BY <1>5, <1>7, <2>1, <3>1 DEF Checks
      <4>2. QED
        BY <1>4, <1>5, <2>1, <3>1, <4>1 DEF Solid
    <3>2. CASE m # "full"
      <4>1. SUFFICES ASSUME ~roi.ended PROVE FALSE
        BY <1>5, <3>2
      <4>2. Recording(o)
        BY <1>4, <1>5, <2>1 DEF Recording, Adds, Awaits
      <4>3. InstrumentTrace = "full" /\ cache \subseteq {"full"}
        BY <4>1, <4>2, RecordingCompiles DEF SampleInv, Clean
      <4>4. QED
        BY <3>2, <4>3
    <3>3. QED
      BY <3>1, <3>2
  <2>2. s.pos >= o.pos
    BY <1>5 DEF ThreadState
  <2>3. QED
    BY <1>1, <1>3, <1>5, <1>7, <2>1, <2>2, PlainSamples
<1>8. CASE Checks(s) /\ roi.ended /\ Update(t, Stopped(s))
  <2> DEFINE f == force_close(s)
             x == Stopped(s)
             q == IF s.phase = "TRACING" THEN <<"sub", "done">> ELSE <<"done">>
  <2>1. x \in ThreadState /\ x.phase = "DONE" /\ ~Adds(x.todo)
    BY <1>5, StoppedState, QueueStop, QueueIdle
  <2>2. f \in ThreadState /\ f = [s EXCEPT !.samples = f.samples] /\ Same(s, f)
    BY <1>5, ForceClose, CloseSame
  <2>3. x = [f EXCEPT !.phase = "DONE", !.todo = q]
    BY DEF Stopped
  <2> HIDE DEF f, q, x
  <2>4. f.samples_collected = s.samples_collected /\ f.hasty = s.hasty
    BY <1>5, <2>2 DEF ThreadState
  <2>5. x.samples = f.samples /\ x.samples_collected = f.samples_collected /\ x.hasty = f.hasty
    BY <2>2, <2>3 DEF ThreadState
  <2>6. Same(o, x)
    BY <1>5, <2>2, <2>5 DEF Same
  <2>7. QED
    BY <1>1, <1>3, <1>5, <1>8, <2>1, <2>4, <2>5, <2>6, DoneSamples DEF x
<1>9. CASE /\ Checks(s) /\ ~roi.ended /\ WakesUp(s)
           /\ \E file \in Opens : Update(t, Begun(s, file, <<"join", "started">>))
  <2>1. o.phase = "WAITING_FOR_ROI"
    BY <1>5, <1>9 DEF WakesUp
  <2>2. Len(s.samples) = 0 /\ s.samples_collected = 0 /\ knobs.use_markers
    BY <1>4, <1>5, <2>1 DEF Sampled
  <2>3. Filled(s) = {} /\ Contiguous(s) /\ Ordered(s) /\ Start(1) = 0
    BY <2>2, NothingFilled, KnobMarkers
  <2>4. s.pos \in Nat /\ knobs.sample_limit \in Nat
    BY <1>5, KnobTypes DEF ThreadState, Knob
  <2>5. InTime(s, s.pos, Len(s.samples) + 1)
    BY <2>2, <2>3, <2>4 DEF InTime
  <2>6. Lengths(s, knobs)
    BY <2>2 DEF Lengths
  <2>7. PICK file \in Opens : Update(t, Begun(s, file, <<"join", "started">>))
    BY <1>9
  <2>8. QED
    BY <1>1, <1>3, <1>5, <2>2, <2>3, <2>4, <2>5, <2>6, <2>7, BeginSamples
<1>10. QED
  BY <1>6, <1>7, <1>8, <1>9

(* A skip that is over leads to a sample that is in time.                  *)
LEMMA SkipBlockSamples ==
  ASSUME PinInv, SampleInv, NEW t \in Threads, SkipBlock(t)
  PROVE  SampleInv'
<1>1. Running(t) /\ UNCHANGED <<knobs, roi, active, counts, exit, cache>> /\ exit = "no"
      /\ th[t].mode = "skip"
  BY DEF SkipBlock, Running, global
<1> PICK o \in ThreadState : o = th[t]
  BY SampleFacts
<1>2. PICK n \in Blocks :
        LET s == Executes(t, n)
            skipping == s.phase \in {"INITIAL_SKIP", "INTER_SKIP"}
        IN  \/ ~skipping /\ Update(t, s)
            \/ /\ skipping /\ s.counter > Charge(n)
               /\ Update(t, [s EXCEPT !.counter = @ - Charge(n)])
            \/ /\ skipping /\ s.counter <= Charge(n)
               /\ \E file \in Opens : Update(t, Begun(s, file, enter_tracing))
  BY DEF SkipBlock
<1> DEFINE s == Executes(t, n)
<1>3. n \in Nat /\ o.pos \in Nat /\ o.pos + n \in Nat /\ o.counter \in Nat
  BY PinAssumption DEF ThreadState
<1>4. /\ Sampled(o, knobs, exit) /\ Placed(o, knobs) /\ Solid(o, roi.ended)
      /\ o.phase = "TRACING" => o.samples # << >>
      /\ o.todo = << >> /\ o.life = "alive"
      /\ Lengths(o, knobs) /\ Ordered(o) /\ (~o.hasty => Contiguous(o))
  BY <1>1, SampleFacts, RunningFacts
<1>5. /\ s \in ThreadState /\ s.life = "alive" /\ s.phase = o.phase /\ s.todo = << >>
      /\ s.samples = o.samples /\ s.counter = o.counter /\ s.pos = o.pos + n /\ s.mode = "skip"
      /\ s.samples_collected = o.samples_collected /\ s.hasty = o.hasty
  BY <1>1, <1>3, <1>4 DEF ThreadState, Executes
<1> HIDE DEF s
<1>6. CASE Update(t, s)
  <2>1. ASSUME s.phase = "TRACING", ~s.hasty, o.samples[Len(o.samples)].recs # << >>
        PROVE  roi.ended
    BY <1>1, <1>4, <1>5, <2>1 DEF Solid
  <2>2. s.pos >= o.pos
    BY <1>3, <1>5
  <2>3. QED
    BY <1>1, <1>5, <1>6, <2>1, <2>2, PlainSamples
<1>7. /\ Filled(s) = Filled(o) /\ \A i \in Filled(o) : First(s, i) = First(o, i)
      /\ Ordered(s) /\ Lengths(s, knobs) /\ (~s.hasty => Contiguous(s))
  <2>1. Filled(s) = Filled(o) /\ \A i \in Filled(o) : First(s, i) = First(o, i)
    BY <1>5 DEF Filled, First
  <2>2. Ordered(s)
    BY <1>4, <2>1 DEF Ordered
  <2>3. Lengths(s, knobs) /\ (~s.hasty => Contiguous(s))
    BY <1>4, <1>5 DEF Lengths, Contiguous
  <2>4. QED
    BY <2>1, <2>2, <2>3
<1>8. CASE /\ s.phase \in {"INITIAL_SKIP", "INTER_SKIP"} /\ s.counter > Charge(n)
           /\ Update(t, [s EXCEPT !.counter = @ - Charge(n)])
  <2> DEFINE c == [s EXCEPT !.counter = s.counter - n]
  <2>1. Update(t, c)
    BY <1>8 DEF Charge
  <2>2. s.counter - n \in Nat
    BY <1>3, <1>5, <1>8 DEF Charge
  <2>3. /\ c \in ThreadState /\ c.life = "alive" /\ c.phase = o.phase /\ c.todo = << >>
        /\ c.samples = o.samples /\ c.counter = o.counter - n /\ c.pos = o.pos + n
        /\ c.samples_collected = o.samples_collected /\ c.hasty = o.hasty
    BY <1>5, <2>2 DEF ThreadState
  <2> HIDE DEF c
  <2>4. Sampled(c, knobs, exit')
    BY <1>4, <1>5, <1>8, <2>3 DEF Sampled, Lengths
  <2>5. Filled(c) = Filled(o) /\ \A i \in Filled(o) : First(c, i) = First(o, i)
    BY <2>3 DEF Filled, First
  <2>6. Reach(c, knobs) = Reach(o, knobs) /\ Due(c) = Due(o) /\ Scheduled(o)
    <3>1. o.phase # "TRACING" /\ Scheduled(o)
      BY <1>5, <1>8 DEF Scheduled
    <3>2. (o.pos + n) + (o.counter - n) = o.pos + o.counter
      BY <1>3
    <3>3. Reach(c, knobs) = Reach(o, knobs)
      BY <2>3, <3>1, <3>2 DEF Reach
    <3>4. Due(c) = Due(o)
      BY <2>3 DEF Due
    <3>5. QED
      BY <3>1, <3>3, <3>4
  <2>7. Placed(c, knobs)
    BY <1>4, <2>5, <2>6 DEF Placed, Ordered, InTime
  <2>8. ~Awaits(c.todo, "join") /\ ~Awaits(c.todo, "add")
    BY <2>3 DEF Awaits
  <2>9. Solid(c, roi'.ended)
    BY <1>4, <1>5, <1>8, <2>3, <2>8 DEF Solid, Contiguous
  <2>10. ~Recording(c)
    BY <1>5, <1>8, <2>3 DEF Recording
  <2>11. Clean'
    BY <1>1, <2>1, <2>10, CleanStep DEF SampleInv
  <2>12. QED
    BY <1>1, <2>1, <2>3, <2>4, <2>7, <2>9, <2>11, SampleStep
<1>9. CASE /\ s.phase \in {"INITIAL_SKIP", "INTER_SKIP"} /\ s.counter <= Charge(n)
           /\ \E file \in Opens : Update(t, Begun(s, file, enter_tracing))
  <2>1. Len(s.samples) = s.samples_collected
        /\ (knobs.sample_limit > 0 => Len(s.samples) < knobs.sample_limit)
    <3>1. knobs.sample_limit \in Nat
      BY KnobTypes DEF Knob
    <3>2. QED
      BY <1>4, <1>5, <1>9, <3>1 DEF Sampled
  <2>2. InTime(s, s.pos, Len(s.samples) + 1)
    <3>1. InTime(o, Reach(o, knobs), Due(o)) /\ Scheduled(o)
      BY <1>4, <1>5, <1>9 DEF Placed, Scheduled
    <3>2. Due(o) = Len(s.samples) + 1 /\ Reach(o, knobs) = o.pos + o.counter
      BY <1>5, <1>9 DEF Due, Reach
    <3>3. o.pos + n >= o.pos + o.counter
      BY <1>3, <1>5, <1>9 DEF Charge
    <3>4. /\ \A i \in Filled(o) : Start(i) \in Int /\ First(o, i) \in Int
          /\ Start(Due(o)) \in Int
      BY <1>4, <3>1, StartsTypes
    <3>5. InTime(o, o.pos + n, Due(o))
      <4> DEFINE x == o.pos + o.counter
                 y == o.pos + n
                 d == Due(o)
      <4>1. x \in Int /\ y \in Int /\ y >= x
        BY <1>3, <3>3
      <4>2. InTime(o, x, d) /\ Start(d) \in Int
        BY <3>1, <3>2, <3>4
      <4> HIDE DEF x, y, d
      <4>3. InTime(o, y, d)
        BY <3>4, <4>1, <4>2, LaterInTime
      <4>4. QED
        BY <4>3 DEF y, d
    <3>6. QED
      BY <1>5, <1>7, <3>2, <3>5 DEF InTime
  <2>3. PICK file \in Opens : Update(t, Begun(s, file, enter_tracing))
    BY <1>9
  <2>4. QED
    BY <1>1, <1>5, <1>7, <2>1, <2>2, <2>3, BeginSamples
<1>10. QED
  BY <1>2, <1>6, <1>8, <1>9 DEF s

LEMMA FinishedHasty ==
  ASSUME PinInv, NEW s \in ThreadState, NEW file \in Opens
  PROVE  finish_sample(s, file).hasty = s.hasty
<1> DEFINE c == Collected(s)
           f == finish_sample(s, file)
<1>1. c \in ThreadState /\ c.hasty = s.hasty
  BY CollectedShape
<1> DEFINE x == Append(c.samples, [recs |-> << >>, file |-> file])
<1>2. Begun(c, file, << >>)
        = [c EXCEPT !.samples = x, !.phase = "TRACING", !.counter = knobs.trace_per_sample, !.todo = << >>]
  BY <1>1 DEF Begun, open_next_sample, ThreadState
<1>3. Begun(c, file, << >>).hasty = c.hasty
  <2> HIDE DEF c, x
  <2>1. QED
    BY <1>1, <1>2 DEF ThreadState
<1>4. \/ f = [c EXCEPT !.phase = "DONE", !.todo = <<"done", "sub", "remove">>]
      \/ f = [c EXCEPT !.phase = "INTER_SKIP", !.counter = Gap(c), !.todo = <<"sub", "remove">>]
      \/ f = Begun(c, file, << >>)
  BY DEF finish_sample
<1> HIDE DEF c, f
<1>5. f.hasty = c.hasty
  BY <1>1, <1>3, <1>4 DEF ThreadState
<1>6. QED
  BY <1>1, <1>5 DEF f

(* An instruction that is recorded follows the one recorded before it.     *)
LEMMA RecordInstrCommitSamples ==
  ASSUME PinInv, SampleInv, NEW t \in Threads, RecordInstrCommit(t)
  PROVE  SampleInv'
<1>1. Running(t) /\ UNCHANGED <<knobs, roi, active, counts, exit, cache>> /\ exit = "no"
      /\ th[t].mode = "full"
  BY DEF RecordInstrCommit, Running, global
<1> PICK o \in ThreadState : o = th[t]
  BY SampleFacts
<1> DEFINE s == [o EXCEPT !.pos = o.pos + 1]
           r == Recorded(s)
           n == Len(o.samples)
           T == knobs.trace_per_sample
<1>2. \/ s.phase # "TRACING" /\ Update(t, s)
      \/ s.phase = "TRACING" /\ s.counter > 1 /\ Update(t, r)
      \/ /\ s.phase = "TRACING" /\ s.counter = 1
         /\ \E file \in Opens : Update(t, finish_sample(r, file))
  BY DEF RecordInstrCommit, Executes
<1>3. o.pos \in Nat /\ o.pos + 1 \in Nat /\ o.counter \in Nat /\ T \in Nat
  BY KnobTypes DEF ThreadState, Knob
<1>4. /\ Sampled(o, knobs, exit) /\ Placed(o, knobs) /\ Solid(o, roi.ended)
      /\ o.phase = "TRACING" => o.samples # << >>
      /\ o.todo = << >> /\ o.life = "alive"
      /\ Lengths(o, knobs) /\ Ordered(o) /\ (~o.hasty => Contiguous(o))
  BY <1>1, SampleFacts, RunningFacts
<1>5. /\ s \in ThreadState /\ s.life = "alive" /\ s.phase = o.phase /\ s.todo = << >>
      /\ s.samples = o.samples /\ s.counter = o.counter /\ s.pos = o.pos + 1 /\ s.mode = "full"
      /\ s.samples_collected = o.samples_collected /\ s.hasty = o.hasty
  BY <1>1, <1>3, <1>4 DEF ThreadState
<1> HIDE DEF s
<1>6. CASE s.phase # "TRACING" /\ Update(t, s)
  <2>1. s.pos >= o.pos
    BY <1>3, <1>5
  <2>2. QED
    BY <1>1, <1>5, <1>6, <2>1, PlainSamples
<1>7. ASSUME s.phase = "TRACING"
      PROVE  /\ Sampled(s, knobs, exit) /\ Ordered(s) /\ s.counter \in 1 .. T
             /\ InTime(s, Reach(s, knobs) - 1, n)
             /\ ~s.hasty => /\ Contiguous(s)
                            /\ LET recs == s.samples[n].recs
                               IN  recs # << >> => s.pos = recs[Len(recs)] + 1
             /\ ~s.hasty => Recording(o)
  <2>1. Same(o, s)
    BY <1>5, SameIsSame
  <2>2. Sampled(s, knobs, exit)
    BY <1>1, <1>4, <1>5, <2>1, KeepsSampled
  <2>3. Filled(s) = Filled(o) /\ \A i \in Filled(o) : First(s, i) = First(o, i)
    BY <1>5 DEF Filled, First
  <2>4. Ordered(s)
    BY <1>4, <2>3 DEF Ordered
  <2>5. Reach(s, knobs) - 1 = Reach(o, knobs) /\ Due(o) = n
    BY <1>3, <1>5, <1>7 DEF Reach, Due
  <2>6. InTime(o, Reach(o, knobs), n)
    BY <1>4, <1>5, <1>7, <2>5 DEF Placed, Scheduled
  <2>7. InTime(s, Reach(s, knobs) - 1, n)
    BY <2>3, <2>5, <2>6 DEF InTime
  <2>8. ~s.hasty => Contiguous(s)
    BY <1>4, <1>5 DEF Contiguous
  <2>9. ~s.hasty /\ s.samples[n].recs # << >> =>
          s.pos = s.samples[n].recs[Len(s.samples[n].recs)] + 1
    BY <1>1, <1>4, <1>5, <1>7 DEF Solid
  <2>10. ~s.hasty => Recording(o)
    BY <1>4, <1>5, <1>7 DEF Recording, Adds, Awaits
  <2>11. s.counter \in 1 .. T
    BY <1>7, <2>2 DEF Sampled
  <2>12. QED
    BY <2>2, <2>4, <2>7, <2>8, <2>9, <2>10, <2>11
<1>8. ASSUME s.phase = "TRACING"
      PROVE  /\ r \in ThreadState /\ Len(r.samples) = n /\ r.counter = s.counter - 1
             /\ r.samples_collected = s.samples_collected /\ r.hasty = s.hasty
             /\ r.pos = s.pos /\ r.mode = "full" /\ r.life = "alive"
             /\ r.phase = "TRACING" /\ r.todo = << >>
             /\ Lengths(r, knobs) /\ n = r.samples_collected + 1
             /\ knobs.sample_limit > 0 => n <= knobs.sample_limit
             /\ r.samples[n].file # "closed"
             /\ r.samples[n].file = "open" => Len(r.samples[n].recs) + r.counter = T
             /\ Ordered(r) /\ InTime(r, Reach(r, knobs), n) /\ Due(r) = n
             /\ ~r.hasty => /\ Contiguous(r)
                            /\ LET recs == r.samples[n].recs
                               IN  recs # << >> => recs[Len(recs)] = s.pos
  <2>1. s.samples # << >> /\ s.counter > 0
    BY <1>3, <1>4, <1>5, <1>7, <1>8
  <2>2. /\ r \in ThreadState /\ Len(r.samples) = n /\ r.counter = s.counter - 1
        /\ r.samples_collected = s.samples_collected /\ r.hasty = s.hasty
        /\ r.pos = s.pos /\ r.mode = "full" /\ r.life = "alive"
        /\ r.phase = "TRACING" /\ r.todo = << >> /\ n \in 1 .. n
    BY <1>5, <1>8, <2>1, RecordedShape
  <2>3. /\ Lengths(r, knobs) /\ Len(r.samples) = r.samples_collected + 1
        /\ knobs.sample_limit > 0 => Len(r.samples) <= knobs.sample_limit
        /\ r.samples[Len(r.samples)].file # "closed"
        /\ r.samples[Len(r.samples)].file = "open"
             => Len(r.samples[Len(r.samples)].recs) + r.counter = T
    BY <1>1, <1>5, <1>7, <1>8, RecordedSampled
  <2>4. Ordered(r) /\ InTime(r, Reach(r, knobs), Len(s.samples)) /\ Due(r) = Len(s.samples)
    BY <1>1, <1>5, <1>7, <1>8, RecordedPlaced
  <2>5. ASSUME ~r.hasty
        PROVE  /\ Contiguous(r)
               /\ r.samples[n].file = "open" => r.samples[n].recs[Len(r.samples[n].recs)] = s.pos
    BY <1>5, <1>7, <1>8, <2>1, <2>2, <2>5, RecordedContiguous
  <2> HIDE DEF r
  <2>6. r.samples[n].file \in {"open", "failed"}
    BY <2>2, <2>3, SampleTypes
  <2>7. r.samples[n].file = "failed" => r.samples[n].recs = << >>
    BY <2>2, <2>3 DEF Lengths
  <2>8. ~r.hasty => LET recs == r.samples[n].recs
                    IN  recs # << >> => recs[Len(recs)] = s.pos
    BY <2>5, <2>6, <2>7
  <2>9. QED
    BY <1>5, <2>2, <2>3, <2>4, <2>5, <2>8
<1> HIDE DEF r
<1>9. CASE s.phase = "TRACING" /\ s.counter > 1 /\ Update(t, r)
  <2>1. r.counter \in 1 .. T
    BY <1>3, <1>5, <1>7, <1>8, <1>9
  <2>2. Sampled(r, knobs, exit')
    BY <1>8, <1>9, <2>1 DEF Sampled
  <2>3. Placed(r, knobs)
    BY <1>8, <1>9 DEF Placed
  <2>4. Solid(r, roi'.ended)
    BY <1>8, <1>9 DEF Solid, Awaits
  <2>5. Recording(r) => Recording(o)
    BY <1>7, <1>8, <1>9 DEF Recording
  <2>6. Clean'
    BY <1>1, <1>9, <2>5, CleanStep DEF SampleInv
  <2>7. QED
    BY <1>1, <1>8, <1>9, <2>2, <2>3, <2>4, <2>6, SampleStep
<1>10. CASE /\ s.phase = "TRACING" /\ s.counter = 1
            /\ \E file \in Opens : Update(t, finish_sample(r, file))
  <2>1. PICK file \in Opens : Update(t, finish_sample(r, file))
    BY <1>10
  <2> DEFINE f == finish_sample(r, file)
  <2>2. r.counter = 0
    BY <1>8, <1>10
  <2>3. Full(r)
    <3>1. r.samples[n].file = "open" => Len(r.samples[n].recs) = T
      <4>1. n \in 1 .. Len(r.samples)
        BY <1>4, <1>5, <1>8, <1>10, SamplesTypes
      <4>2. Len(r.samples[n].recs) \in Nat
        BY <1>8, <1>10, <4>1, SampleTypes
      <4>3. QED
        BY <1>8, <1>10, <2>2, <4>2
    <3>2. QED
      BY <1>8, <1>10, <2>2, <3>1 DEF Full
  <2>4. r \in ThreadState /\ r.samples # << >> /\ r.todo = << >> /\ r.hasty = o.hasty
    <3>1. Len(r.samples) # 0
      BY <1>4, <1>5, <1>8, <1>10, SamplesTypes
    <3>2. QED
      BY <1>5, <1>8, <1>10, <3>1
  <2>5. Sampled(f, knobs, exit') /\ Placed(f, knobs) /\ Solid(f, roi'.ended)
    BY <2>3, <2>4, FinishedIsRight
  <2>6. f \in ThreadState
    BY <2>4, FinishedState
  <2>7. f.hasty = o.hasty
    BY <2>4, FinishedHasty
  <2> HIDE DEF f
  <2>8. Recording(f) => Recording(o)
    BY <1>5, <1>7, <1>10, <2>7 DEF Recording
  <2>9. Update(t, f)
    BY <2>1 DEF f
  <2>10. Clean'
    BY <1>1, <2>8, <2>9, CleanStep DEF SampleInv
  <2>11. QED
    BY <1>1, <2>5, <2>6, <2>9, <2>10, SampleStep
<1>11. QED
  BY <1>2, <1>6, <1>9, <1>10

LEMMA PlainInsnSamples ==
  ASSUME PinInv, SampleInv, NEW t \in Threads, PlainInsn(t)
  PROVE  SampleInv'
<1> PICK o \in ThreadState : o = th[t]
  BY SampleFacts
<1> DEFINE s == [o EXCEPT !.pos = o.pos + 1]
<1>1. Running(t) /\ UNCHANGED <<knobs, roi, active, counts, exit, cache>> /\ Update(t, s)
      /\ o.mode # "full"
  BY DEF PlainInsn, global, Executes
<1>2. o.pos + 1 \in Nat /\ o.pos + 1 >= o.pos
  BY DEF ThreadState
<1>3. /\ Solid(o, roi.ended) /\ o.todo = << >> /\ o.life = "alive"
  BY <1>1, SampleFacts, RunningFacts
<1>4. /\ s \in ThreadState /\ s.life = "alive" /\ s.phase = o.phase /\ s.todo = << >>
      /\ s.samples = o.samples /\ s.counter = o.counter /\ s.pos = o.pos + 1 /\ s.mode = o.mode
      /\ s.samples_collected = o.samples_collected /\ s.hasty = o.hasty
  BY <1>2, <1>3 DEF ThreadState
<1> HIDE DEF s
<1>5. ASSUME s.phase = "TRACING", ~s.hasty, o.samples[Len(o.samples)].recs # << >>
      PROVE  roi.ended
  BY <1>1, <1>3, <1>4, <1>5 DEF Solid
<1>6. QED
  BY <1>1, <1>2, <1>4, <1>5, PlainSamples

LEMMA RegisterWorkerSamples ==
  ASSUME PinInv, SampleInv, NEW t \in Threads, RegisterWorker(t)
  PROVE  SampleInv'
<1> PICK o \in ThreadState : o = th[t]
  BY SampleFacts
<1> DEFINE s == [o EXCEPT !.is_registered_worker = TRUE]
<1>1. Running(t) /\ UNCHANGED <<knobs, roi, active, counts, exit, cache>> /\ Update(t, s)
  BY DEF RegisterWorker, Marker, global
<1>2. /\ Solid(o, roi.ended) /\ o.todo = << >> /\ o.life = "alive" /\ o.pos >= o.pos
  BY <1>1, SampleFacts, RunningFacts DEF ThreadState
<1>3. /\ s \in ThreadState /\ s.life = "alive" /\ s.phase = o.phase /\ s.todo = << >>
      /\ s.samples = o.samples /\ s.counter = o.counter /\ s.pos = o.pos /\ s.mode = o.mode
      /\ s.samples_collected = o.samples_collected /\ s.hasty = o.hasty
  BY <1>2 DEF ThreadState
<1> HIDE DEF s
<1>4. ASSUME s.phase = "TRACING", ~s.hasty, o.samples[Len(o.samples)].recs # << >>, s.mode # "full"
      PROVE  roi.ended
  BY <1>2, <1>3, <1>4 DEF Solid
<1>5. QED
  BY <1>1, <1>2, <1>3, <1>4, PlainSamples

(* A marker that the thread does not follow itself.                        *)
LEMMA MarkedSamples ==
  ASSUME PinInv, SampleInv, NEW t \in Threads, UNCHANGED <<knobs, exit, cache, th>>,
         roi.ended => roi'.ended
  PROVE  SampleInv'
<1> PICK o \in ThreadState : o = th[t]
  BY SampleFacts
<1>1. /\ Sampled(o, knobs, exit) /\ Placed(o, knobs) /\ Solid(o, roi.ended)
      /\ o.phase = "TRACING" => o.samples # << >>
  BY SampleFacts
<1>2. Update(t, o)
  BY DEF Update, PinInv, TypeOK
<1>3. Awaits(o.todo, "add") => Awaits(o.todo, "remove")
  BY <1>1 DEF Solid
<1>4. Solid(o, roi'.ended)
  BY <1>1, <1>3, SameIsSame, UnmovedSolid
<1>5. Clean'
  BY <1>2, CleanStep DEF SampleInv
<1>6. QED
  BY <1>1, <1>2, <1>4, <1>5, SampleStep

LEMMA RoiBeginSamples ==
  ASSUME PinInv, SampleInv, NEW t \in Threads, RoiBegin(t)
  PROVE  SampleInv'
<1> PICK o \in ThreadState : o = th[t]
  BY SampleFacts
<1>1. /\ Running(t) /\ UNCHANGED <<knobs, active, counts, exit, cache>> /\ exit = "no"
      /\ (roi.ended => roi'.ended) /\ knobs.use_markers
  BY RunningFacts DEF RoiBegin, Marker, Running
<1>2. /\ Sampled(o, knobs, exit) /\ Placed(o, knobs) /\ Solid(o, roi.ended)
      /\ Lengths(o, knobs) /\ o.todo = << >> /\ o.life = "alive"
  BY <1>1, SampleFacts, RunningFacts
<1>3. CASE UNCHANGED th
  BY <1>1, <1>3, MarkedSamples
<1>4. CASE Update(t, [o EXCEPT !.phase = "DONE", !.todo = <<"done">>])
  <2> DEFINE s == [o EXCEPT !.phase = "DONE", !.todo = <<"done">>]
  <2>1. <<"done">> \in Seq(Operations) /\ ~Adds(<<"done">>)
    BY QueueIdle
  <2>2. /\ s \in ThreadState /\ s.phase = "DONE" /\ s.todo = <<"done">> /\ s.samples = o.samples
        /\ s.samples_collected = o.samples_collected /\ s.hasty = o.hasty
    BY <2>1 DEF ThreadState, Phases
  <2> HIDE DEF s
  <2>3. Same(o, s)
    BY <2>2, SameIsSame
  <2>4. QED
    BY <1>1, <1>4, <2>1, <2>2, <2>3, DoneSamples DEF s
<1>5. CASE /\ o.phase = "WAITING_FOR_ROI"
           /\ \E file \in Opens : Update(t, Begun(o, file, enter_tracing))
  <2>1. Len(o.samples) = 0 /\ o.samples_collected = 0
    BY <1>2, <1>5 DEF Sampled
  <2>2. Filled(o) = {} /\ Contiguous(o) /\ Ordered(o) /\ Start(1) = 0
    BY <1>1, <2>1, NothingFilled, KnobMarkers
  <2>3. o.pos \in Nat /\ knobs.sample_limit \in Nat
    BY KnobTypes DEF ThreadState, Knob
  <2>4. InTime(o, o.pos, Len(o.samples) + 1)
    BY <2>1, <2>2, <2>3 DEF InTime
  <2>5. PICK file \in Opens : Update(t, Begun(o, file, enter_tracing))
    BY <1>5
  <2>6. QED
    BY <1>1, <1>2, <2>1, <2>2, <2>3, <2>4, <2>5, BeginSamples
<1>6. QED
  BY <1>3, <1>4, <1>5 DEF RoiBegin

LEMMA RoiEndSamples ==
  ASSUME PinInv, SampleInv, NEW t \in Threads, RoiEnd(t)
  PROVE  SampleInv'
<1> PICK o \in ThreadState : o = th[t]
  BY SampleFacts
<1> DEFINE x == Stopped(o)
           f == force_close(o)
           r == [x EXCEPT !.todo = x.todo \o <<"remove">>]
<1>1. /\ Running(t) /\ UNCHANGED <<knobs, active, counts, exit, cache>> /\ exit = "no"
      /\ roi'.ended
  BY RunningFacts DEF RoiEnd, Marker, Running
<1>2. CASE UNCHANGED th
  BY <1>1, <1>2, MarkedSamples
<1>3. CASE Update(t, r)
  <2> DEFINE q == IF o.phase = "TRACING" THEN <<"sub", "done">> ELSE <<"done">>
  <2>1. x \in ThreadState /\ x.phase = "DONE" /\ x.todo = q
    BY StoppedState
  <2>2. q \in Seq(Operations) /\ Queue(q) /\ ~Adds(q)
    BY QueueStop, QueueIdle
  <2>3. q \o <<"remove">> \in Seq(Operations) /\ ~Adds(q \o <<"remove">>)
    BY <2>2, QueueRemove
  <2>4. f \in ThreadState /\ f = [o EXCEPT !.samples = f.samples] /\ Same(o, f)
    BY ForceClose, CloseSame
  <2>5. x = [f EXCEPT !.phase = "DONE", !.todo = q]
    BY DEF Stopped
  <2> HIDE DEF f, q, x
  <2>6. f.samples_collected = o.samples_collected /\ f.hasty = o.hasty
    BY <2>4 DEF ThreadState
  <2>7. x.samples = f.samples /\ x.samples_collected = f.samples_collected /\ x.hasty = f.hasty
    BY <2>4, <2>5 DEF ThreadState
  <2>8. /\ r \in ThreadState /\ r.phase = "DONE" /\ r.todo = q \o <<"remove">>
        /\ r.samples = f.samples /\ r.samples_collected = o.samples_collected /\ r.hasty = o.hasty
    BY <2>1, <2>3, <2>6, <2>7 DEF ThreadState
  <2> HIDE DEF r
  <2>9. Same(o, r)
    BY <2>4, <2>8 DEF Same
  <2>10. QED
    BY <1>1, <1>3, <2>3, <2>8, <2>9, DoneSamples
<1>4. QED
  BY <1>2, <1>3 DEF RoiEnd

LEMMA ThreadStartSamples ==
  ASSUME PinInv, SampleInv, NEW t \in Threads, ThreadStart(t)
  PROVE  SampleInv'
<1> PICK o \in ThreadState : o = th[t]
  BY SampleFacts
<1> DEFINE b == [o EXCEPT !.life = "alive"]
<1>1. UNCHANGED <<knobs, roi, active, counts, exit, cache>> /\ exit = "no" /\ o.life = "unborn"
  BY DEF ThreadStart, global
<1>2. /\ Sampled(o, knobs, exit) /\ Lengths(o, knobs)
      /\ o.phase = "UNTRACED" /\ o.todo = << >>
  BY <1>1, SampleFacts, RunningFacts DEF Sound
<1>3. Len(o.samples) = 0 /\ o.samples_collected = 0 /\ o.pos \in Nat
      /\ knobs.sample_limit \in Nat /\ knobs.trace_per_sample \in Nat
  BY <1>2, KnobTypes DEF Sampled, ThreadState, Knob
<1>4. /\ b \in ThreadState /\ b.phase = "UNTRACED" /\ b.todo = << >> /\ b.samples = o.samples
      /\ b.samples_collected = 0 /\ b.pos = o.pos
  BY <1>2, <1>3 DEF ThreadState
<1> HIDE DEF b
<1>5. ASSUME NEW s \in ThreadState, s.samples = o.samples, s.samples_collected = 0, s.todo = << >>,
             s.pos = o.pos,
             \/ s.phase = "UNTRACED"
             \/ s.phase = "WAITING_FOR_ROI" /\ knobs.use_markers
             \/ s.phase = "INITIAL_SKIP" /\ ~knobs.use_markers /\ s.counter = FirstSkip,
             Update(t, s)
      PROVE  SampleInv'
  <2>1. Filled(s) = {} /\ Contiguous(s) /\ Ordered(s) /\ Len(s.samples) = 0
    BY <1>3, <1>5, NothingFilled
  <2>2. Sampled(s, knobs, exit')
    BY <1>3, <1>5, <2>1 DEF Sampled, Lengths
  <2>3. ASSUME Scheduled(s) PROVE InTime(s, Reach(s, knobs), Due(s))
    <3>1. s.phase = "INITIAL_SKIP" /\ ~knobs.use_markers /\ s.counter = FirstSkip
      BY <1>5, <2>3 DEF Scheduled
    <3>2. Start(1) = FirstSkip /\ FirstSkip \in Nat
      BY <3>1, FirstStart
    <3>3. Due(s) = 1 /\ Reach(s, knobs) = o.pos + FirstSkip
      BY <1>5, <2>1, <3>1 DEF Due, Reach
    <3>4. o.pos + FirstSkip >= FirstSkip
      BY <1>3, <3>2
    <3>5. QED
      BY <2>1, <3>2, <3>3, <3>4 DEF InTime
  <2>4. Placed(s, knobs)
    BY <2>1, <2>3 DEF Placed
  <2>5. Solid(s, roi'.ended)
    BY <1>5, <2>1 DEF Solid, Awaits
  <2>6. ~Recording(s)
    BY <1>5 DEF Recording
  <2>7. Clean'
    BY <1>1, <1>5, <2>6, CleanStep DEF SampleInv
  <2>8. QED
    BY <1>1, <1>5, <2>2, <2>4, <2>5, <2>7, SampleStep
<1>6. CASE Update(t, b)
  BY <1>4, <1>5, <1>6
<1>7. CASE knobs.use_markers /\ Update(t, [b EXCEPT !.phase = "WAITING_FOR_ROI"])
  <2> DEFINE s == [b EXCEPT !.phase = "WAITING_FOR_ROI"]
  <2>1. /\ s \in ThreadState /\ s.phase = "WAITING_FOR_ROI" /\ s.todo = << >>
        /\ s.samples = o.samples /\ s.samples_collected = 0 /\ s.pos = o.pos
    BY <1>4 DEF ThreadState, Phases
  <2> HIDE DEF s
  <2>2. QED
    BY <1>5, <1>7, <2>1 DEF s
<1>8. CASE /\ ~knobs.use_markers
           /\ Update(t, [b EXCEPT !.phase = "INITIAL_SKIP", !.counter = FirstSkip])
  <2> DEFINE s == [b EXCEPT !.phase = "INITIAL_SKIP", !.counter = FirstSkip]
  <2>1. FirstSkip \in Nat
    BY <1>8, FirstStart
  <2>2. /\ s \in ThreadState /\ s.phase = "INITIAL_SKIP" /\ s.todo = << >> /\ s.counter = FirstSkip
        /\ s.samples = o.samples /\ s.samples_collected = 0 /\ s.pos = o.pos
    BY <1>4, <2>1 DEF ThreadState, Phases
  <2> HIDE DEF s
  <2>3. QED
    BY <1>5, <1>8, <2>2 DEF s
<1>9. CASE /\ ~(~knobs.use_markers /\ FirstSkip > 0)
           /\ \E file \in Opens : Update(t, Begun(b, file, enter_tracing))
  <2>1. Filled(b) = {} /\ Contiguous(b) /\ Ordered(b) /\ Len(b.samples) = 0
    BY <1>3, <1>4, NothingFilled
  <2>2. Start(1) = 0
    BY <1>9, KnobMarkers, FirstStart
  <2>3. InTime(b, b.pos, Len(b.samples) + 1)
    BY <1>3, <1>4, <2>1, <2>2 DEF InTime
  <2>4. Lengths(b, knobs)
    BY <2>1 DEF Lengths
  <2>5. PICK file \in Opens : Update(t, Begun(b, file, enter_tracing))
    BY <1>9
  <2>6. QED
    BY <1>1, <1>3, <1>4, <2>1, <2>3, <2>4, <2>5, BeginSamples
<1>10. QED
  BY <1>6, <1>7, <1>8, <1>9 DEF ThreadStart, b

(* A thread that is closed keeps its records.                              *)
LEMMA ClosedKeeps ==
  ASSUME PinInv, SampleInv, NEW t \in Threads, NEW r \in ThreadState, Same(th[t], r),
         r.phase = th[t].phase, r.counter = th[t].counter, r.pos = th[t].pos, r.mode = th[t].mode,
         r.samples_collected = th[t].samples_collected, r.hasty = th[t].hasty,
         r.todo = th[t].todo, NEW f, r.life = "gone" \/ f = "over"
  PROVE  Sampled(r, knobs, f) /\ Placed(r, knobs) /\ Solid(r, roi.ended)
<1> PICK o \in ThreadState : o = th[t]
  BY SampleFacts
<1>1. /\ Sampled(o, knobs, exit) /\ Placed(o, knobs) /\ Solid(o, roi.ended)
      /\ o.phase = "TRACING" => o.samples # << >>
  BY SampleFacts
<1>2. Sampled(r, knobs, f)
  BY <1>1, KeepsSampled
<1>3. r.pos >= o.pos
  BY DEF ThreadState
<1>4. Placed(r, knobs)
  BY <1>1, <1>3, KeepsPlaced
<1>5. Awaits(r.todo, "add") => Awaits(r.todo, "remove")
  BY <1>1 DEF Solid
<1>6. Solid(r, roi.ended)
  BY <1>1, <1>5, UnmovedSolid
<1>7. QED
  BY <1>2, <1>4, <1>6

LEMMA ThreadFiniSamples ==
  ASSUME PinInv, SampleInv, NEW t \in Threads, ThreadFini(t)
  PROVE  SampleInv'
<1> PICK o \in ThreadState : o = th[t]
  BY SampleFacts
<1> DEFINE c == force_close(o)
           s == [c EXCEPT !.life = "gone"]
<1>1. UNCHANGED <<knobs, roi, exit, cache>> /\ Update(t, s)
  BY DEF ThreadFini
<1>2. c \in ThreadState /\ c = [o EXCEPT !.samples = c.samples] /\ Same(o, c)
  BY ForceClose, CloseSame
<1> HIDE DEF c
<1>3. /\ c.phase = o.phase /\ c.todo = o.todo /\ c.counter = o.counter /\ c.pos = o.pos
      /\ c.mode = o.mode /\ c.samples_collected = o.samples_collected /\ c.hasty = o.hasty
  BY <1>2 DEF ThreadState
<1>4. /\ s \in ThreadState /\ s.life = "gone" /\ s.samples = c.samples
      /\ s.phase = c.phase /\ s.todo = c.todo /\ s.counter = c.counter /\ s.pos = c.pos
      /\ s.mode = c.mode /\ s.samples_collected = c.samples_collected /\ s.hasty = c.hasty
  BY <1>2 DEF ThreadState
<1> HIDE DEF s
<1>5. Same(o, s)
  BY <1>2, <1>4 DEF Same
<1>6. Sampled(s, knobs, exit') /\ Placed(s, knobs) /\ Solid(s, roi.ended)
  BY <1>3, <1>4, <1>5, ClosedKeeps
<1>7. ~Recording(s)
  BY <1>4 DEF Recording
<1>8. Clean'
  BY <1>1, <1>7, CleanStep DEF SampleInv
<1>9. QED
  BY <1>1, <1>4, <1>6, <1>8, SampleStep

LEMMA FiniSamples ==
  ASSUME PinInv, SampleInv, Fini
  PROVE  SampleInv'
<1>1. /\ th' = [t \in Threads |-> force_close(th[t])] /\ exit' = "over"
      /\ UNCHANGED <<knobs, roi, active, counts, cache>>
  BY DEF Fini
<1>2. ASSUME NEW t \in Threads
      PROVE  /\ Sampled(th'[t], knobs', exit') /\ Placed(th[t], knobs)' /\ Solid(th'[t], roi'.ended)
             /\ Recording(th'[t]) => Recording(th[t])
  <2> PICK o \in ThreadState : o = th[t]
    BY SampleFacts
  <2> PICK c \in ThreadState : c = force_close(o)
    BY ForceClose
  <2>1. c = [o EXCEPT !.samples = c.samples] /\ Same(o, c)
    BY ForceClose, CloseSame
  <2>2. /\ c.phase = o.phase /\ c.todo = o.todo /\ c.counter = o.counter /\ c.pos = o.pos
        /\ c.mode = o.mode /\ c.samples_collected = o.samples_collected /\ c.hasty = o.hasty
        /\ c.life = o.life
    BY <2>1 DEF ThreadState
  <2>3. th'[t] = c
    BY <1>1
  <2>4. Sampled(c, knobs, "over") /\ Placed(c, knobs) /\ Solid(c, roi.ended)
    BY <2>1, <2>2, ClosedKeeps
  <2>5. Recording(c) => Recording(th[t])
    BY <2>2 DEF Recording
  <2>6. Placed(c, knobs)'
    BY <1>1, <2>4, PlacedStays
  <2>7. Placed(th[t], knobs)'
    BY <2>3, <2>6 DEF Placed, Ordered, InTime, Start, Reach, Due, Scheduled, Filled, First
  <2>8. QED
    BY <1>1, <2>3, <2>4, <2>5, <2>7
<1>3. Clean'
  BY <1>1, <1>2 DEF SampleInv, Clean
<1>4. \A t \in Threads :
        Sampled(th'[t], knobs', exit') /\ Placed(th[t], knobs)' /\ Solid(th'[t], roi'.ended)
  BY <1>2
<1>5. QED
  BY <1>3, <1>4 DEF SampleInv, Sampled, Lengths, Solid, Contiguous, Awaits

---------------------------------------------------------------------------
LEMMA SampleInit == Init => SampleInv
<1> SUFFICES ASSUME Init PROVE SampleInv
  OBVIOUS
<1>1. /\ Unborn.phase = "UNTRACED" /\ Unborn.todo = << >> /\ Unborn.samples = << >>
      /\ Unborn.samples_collected = 0 /\ Len(Unborn.samples) = 0
  BY DEF Unborn
<1>2. knobs.sample_limit \in Nat
  BY PinInit, KnobTypes DEF Knob
<1>3. Sampled(Unborn, knobs, exit)
  BY <1>1, <1>2 DEF Sampled, Lengths
<1>4. Filled(Unborn) = {} /\ Contiguous(Unborn) /\ Ordered(Unborn)
  BY <1>1, NothingFilled
<1>5. Placed(Unborn, knobs)
  BY <1>1, <1>4 DEF Placed, Scheduled
<1>6. Solid(Unborn, roi.ended)
  BY <1>1, <1>4 DEF Solid, Awaits
<1>7. \A t \in Threads : th[t] = Unborn
  BY DEF Init
<1>8. Clean
  BY DEF Clean, Init
<1>9. QED
  BY <1>3, <1>5, <1>6, <1>7, <1>8 DEF SampleInv

LEMMA SampleNext == PinInv /\ SampleInv /\ [Next]_vars => SampleInv'
<1> SUFFICES ASSUME PinInv, SampleInv, [Next]_vars PROVE SampleInv'
  OBVIOUS
<1>1. CASE UNCHANGED vars
  <2>1. UNCHANGED <<knobs, roi, exit, cache, th>>
    BY <1>1 DEF vars, global
  <2>2. (\A t \in Threads : Sampled(th[t], knobs, exit))'
    BY <2>1 DEF SampleInv, Sampled, Lengths
  <2>3. (\A t \in Threads : Placed(th[t], knobs))'
    BY <2>1 DEF SampleInv, Placed, Ordered, InTime, Start, Reach, Due, Scheduled, Filled, First
  <2>4. (\A t \in Threads : Solid(th[t], roi.ended))'
    BY <2>1 DEF SampleInv, Solid, Contiguous, Awaits
  <2>5. Clean'
    BY <2>1 DEF SampleInv, Clean, Recording, Adds, Awaits
  <2>6. QED
    BY <2>2, <2>3, <2>4, <2>5 DEF SampleInv
<1>2. ASSUME NEW t \in Threads, Operation(t) \/ Program(t) \/ ThreadStart(t) \/ ThreadFini(t)
      PROVE  SampleInv'
  <2>1. CASE Operation(t)
    BY <2>1, OperationSamples
  <2>2. CASE Program(t)
    BY <2>2, EnterTraceSamples, SkipBlockSamples, RecordInstrCommitSamples, PlainInsnSamples,
       RoiBeginSamples, RegisterWorkerSamples, RoiEndSamples DEF Program
  <2>3. CASE ThreadStart(t)
    BY <2>3, ThreadStartSamples
  <2>4. CASE ThreadFini(t)
    BY <2>4, ThreadFiniSamples
  <2>5. QED
    BY <1>2, <2>1, <2>2, <2>3, <2>4
<1>3. CASE Fini
  BY <1>3, FiniSamples
<1>4. QED
  BY <1>1, <1>2, <1>3 DEF Next

LEMMA SampleInvariant == Spec => [](PinInv /\ SampleInv)
<1>1. Init => PinInv /\ SampleInv
  BY PinInit, SampleInit
<1>2. (PinInv /\ SampleInv) /\ [Next]_vars => (PinInv /\ SampleInv)'
  BY PinNext, SampleNext
<1>3. QED
  BY <1>1, <1>2, PTL DEF Spec

(* A thread never opens more samples than it was asked for, and a sample   *)
(* it has collected is complete, whatever -t, -n, -s and -offsets are and  *)
(* whatever the threads do to one another.                                 *)
THEOREM SamplesAreExact == Spec => []SampleExact
<1>1. ASSUME PinInv, SampleInv PROVE SampleExact
  <2> SUFFICES ASSUME NEW t \in Threads
               PROVE  /\ knobs.sample_limit > 0 => Len(th[t].samples) <= knobs.sample_limit
                      /\ \A i \in DOMAIN th[t].samples :
                           LET s == th[t].samples[i]
                           IN  /\ Len(s.recs) <= knobs.trace_per_sample
                               /\ i <= th[t].samples_collected /\ s.file # "failed"
                                    => Len(s.recs) = knobs.trace_per_sample
    BY DEF SampleExact
  <2>1. th[t] \in ThreadState /\ Sampled(th[t], knobs, exit) /\ Lengths(th[t], knobs)
    BY <1>1, SampleFacts
  <2>2. DOMAIN th[t].samples = 1 .. Len(th[t].samples)
    BY <2>1, SamplesTypes
  <2>3. QED
    BY <2>1, <2>2 DEF Sampled, Lengths
<1>2. QED
  BY <1>1, SampleInvariant, PTL

(* No sample begins before its place, nor closer to another than the       *)
(* command line puts them: skips are never shortened, by whatever blocks   *)
(* the thread executes.                                                    *)
THEOREM SamplesAreInPlace == Spec => []NeverEarly
<1>1. ASSUME PinInv, SampleInv PROVE NeverEarly
  <2>1. ASSUME NEW t \in Threads
        PROVE  LET recs(i) == th[t].samples[i].recs
                   Places == {i \in DOMAIN th[t].samples : recs(i) # << >>}
               IN  /\ \A i \in Places : Head(recs(i)) > Start(i)
                   /\ \A i, j \in Places :
                        i < j => Head(recs(j)) - Head(recs(i)) >= Start(j) - Start(i)
    <3>1. th[t] \in ThreadState /\ Ordered(th[t])
      BY <1>1, SampleFacts
    <3>2. DOMAIN th[t].samples = 1 .. Len(th[t].samples)
      BY <3>1, SamplesTypes
    <3>3. \A i \in DOMAIN th[t].samples : Head(th[t].samples[i].recs) = First(th[t], i)
      BY DEF First
    <3>4. {i \in DOMAIN th[t].samples : th[t].samples[i].recs # << >>} = Filled(th[t])
      BY <3>2 DEF Filled
    <3>5. Filled(th[t]) \subseteq DOMAIN th[t].samples
      BY <3>2 DEF Filled
    <3>6. QED
      BY <3>1, <3>3, <3>4, <3>5 DEF Ordered
  <2>2. QED
    BY <2>1 DEF NeverEarly
<1>2. QED
  BY <1>1, SampleInvariant, PTL

(* The records of a sample are consecutive instructions, unless its thread *)
(* joined the tracing threads past code that does not record: no other     *)
(* thread's flush or compilation can open a hole.                          *)
THEOREM SamplesHaveNoHoles == Spec => []NoHoles
<1>1. ASSUME PinInv, SampleInv PROVE NoHoles
  <2> SUFFICES ASSUME NEW t \in Threads, ~th[t].hasty, NEW i \in DOMAIN th[t].samples,
                      NEW j \in 1 .. Len(th[t].samples[i].recs) - 1
               PROVE  th[t].samples[i].recs[j + 1] = th[t].samples[i].recs[j] + 1
    BY DEF NoHoles
  <2>1. th[t] \in ThreadState /\ Contiguous(th[t])
    BY <1>1, SampleFacts
  <2>2. DOMAIN th[t].samples = 1 .. Len(th[t].samples)
    BY <2>1, SamplesTypes
  <2>3. QED
    BY <2>1, <2>2 DEF Contiguous
<1>2. QED
  BY <1>1, SampleInvariant, PTL

---------------------------------------------------------------------------
(* The exit of -exit_on_done.  Once every thread that has started to trace *)
(* is done, some thread is about to see it: the last one that was counted  *)
(* done has not yet loaded g_threads_started_tracing, or has found there   *)
(* what is there now, since a thread that starts later is not done.        *)
St == {t \in Threads : HasStarted(t)}
Dn == {t \in Threads : HasFinished(t)}

Late(s) ==
  /\ s.ever_reached_done \/ Awaits(s.todo, "done") => s.phase = "DONE"
  /\ Awaits(s.todo, "started") => s.phase = "TRACING"
  /\ \A i \in DOMAIN s.todo : s.todo[i] = "load" => i = 1
  /\ Awaits(s.todo, "load") => Awaits(s.todo, "test")

Notices(s, n) ==
  s.life = "alive" /\ (Awaits(s.todo, "load") \/ (Awaits(s.todo, "test") /\ s.snap = n))

ExitInv ==
  /\ counts.started = Cardinality(St) /\ counts.done = Cardinality(Dn)
  /\ \A t \in Threads : Late(th[t])
  /\ knobs.exit_on_done /\ exit = "no" /\ St # {} /\ St \subseteq Dn
       => \E u \in Threads : Notices(th[u], counts.started)

(* A step of a thread that is counted neither as started nor as done by it.*)
LEMMA ExitStep ==
  ASSUME PinInv, ExitInv, NEW t \in Threads, NEW s, Update(t, s), knobs' = knobs, counts' = counts,
         Late(s), s.ever_started_tracing = th[t].ever_started_tracing,
         s.ever_reached_done = th[t].ever_reached_done,
         exit' = "no" =>
           /\ exit = "no"
           /\ knobs.exit_on_done /\ St # {} /\ St \subseteq Dn /\ Notices(th[t], counts.started)
                => Notices(s, counts.started)
  PROVE  ExitInv'
<1>1. th'[t] = s /\ \A u \in Threads \ {t} : th'[u] = th[u]
  BY DEF PinInv, TypeOK, Update
<1>2. St' = St /\ Dn' = Dn
  <2>1. ASSUME NEW u \in Threads
        PROVE  /\ th'[u].ever_started_tracing = th[u].ever_started_tracing
               /\ th'[u].ever_reached_done = th[u].ever_reached_done
    BY <1>1
  <2>2. QED
    BY <2>1 DEF St, Dn, HasStarted, HasFinished
<1>3. \A u \in Threads : Late(th'[u])
  BY <1>1 DEF ExitInv
<1>4. ASSUME knobs.exit_on_done, exit' = "no", St # {}, St \subseteq Dn
      PROVE  \E u \in Threads : Notices(th'[u], counts.started)
  <2>1. PICK u \in Threads : Notices(th[u], counts.started)
    BY <1>4 DEF ExitInv
  <2>2. Notices(th'[u], counts.started)
    BY <1>1, <1>4, <2>1
  <2>3. QED
    BY <2>2
<1>5. (\A u \in Threads : Late(th[u]))'
  BY <1>3 DEF Late, Awaits
<1>6. (\E u \in Threads : Notices(th[u], counts.started))'
      <=> \E u \in Threads : Notices(th'[u], counts'.started)
  BY DEF Notices, Awaits
<1>7. QED
  BY <1>2, <1>4, <1>5, <1>6 DEF ExitInv

LEMMA LastAwaits ==
  ASSUME NEW q \in Seq(Operations), NEW op, op # "remove"
  PROVE  /\ Awaits(q \o <<"remove">>, op) <=> Awaits(q, op)
         /\ \A i \in DOMAIN (q \o <<"remove">>) : (q \o <<"remove">>)[i] = op => i \in DOMAIN q /\ q[i] = op
<1> DEFINE r == q \o <<"remove">>
<1>1. DOMAIN r = 1 .. Len(q) + 1 /\ DOMAIN q = 1 .. Len(q) /\ Len(q) \in Nat
  OBVIOUS
<1>2. r[Len(q) + 1] = "remove" /\ \A i \in 1 .. Len(q) : r[i] = q[i]
  OBVIOUS
<1> HIDE DEF r
<1>3. \A i \in DOMAIN r : i \in DOMAIN q \/ i = Len(q) + 1
  BY <1>1
<1>4. \A i \in DOMAIN r : r[i] = op => i \in DOMAIN q /\ q[i] = op
  BY <1>1, <1>2, <1>3
<1>5. \A i \in DOMAIN q : i \in DOMAIN r /\ r[i] = q[i]
  BY <1>1, <1>2
<1>6. Awaits(r, op) <=> Awaits(q, op)
  BY <1>4, <1>5 DEF Awaits
<1>7. QED
  BY <1>4, <1>6 DEF r

(* What a callback of the program leaves a thread to do.                   *)
Callback(s) ==
  \/ s.todo \in {<< >>, <<"sub", "remove">>}
  \/ s.todo \in {<<"add", "started", "remove">>, <<"join", "started">>} /\ s.phase = "TRACING"
  \/ s.todo = <<"done", "sub", "remove">> /\ s.phase = "DONE"
  \/ /\ \E q \in {<<"sub", "done">>, <<"done">>} : s.todo \in {q, q \o <<"remove">>}
     /\ s.phase = "DONE"

Turn(o, s) ==
  /\ s.ever_started_tracing = o.ever_started_tracing /\ s.ever_reached_done = o.ever_reached_done
  /\ o.phase = "DONE" => s.phase = "DONE"
  /\ Callback(s)

LEMMA CallbackLate ==
  ASSUME NEW s, Callback(s)
  PROVE  /\ ~Awaits(s.todo, "load")
         /\ Awaits(s.todo, "started") => s.phase = "TRACING"
         /\ Awaits(s.todo, "done") => s.phase = "DONE"
         /\ \A i \in DOMAIN s.todo : s.todo[i] # "load"
<1>1. CASE s.todo \in {<< >>, <<"sub", "remove">>}
  <2>1. CASE s.todo = << >>
    BY <2>1 DEF Awaits
  <2>2. CASE s.todo = <<"sub", "remove">>
    BY <2>2 DEF Awaits
  <2>3. QED
    BY <1>1, <2>1, <2>2
<1>2. CASE s.todo \in {<<"add", "started", "remove">>, <<"join", "started">>} /\ s.phase = "TRACING"
  <2>1. CASE s.todo = <<"add", "started", "remove">>
    BY <1>2, <2>1 DEF Awaits
  <2>2. CASE s.todo = <<"join", "started">>
    BY <1>2, <2>2 DEF Awaits
  <2>3. QED
    BY <1>2, <2>1, <2>2
<1>3. CASE s.todo = <<"done", "sub", "remove">> /\ s.phase = "DONE"
  BY <1>3 DEF Awaits
<1>4. CASE /\ \E q \in {<<"sub", "done">>, <<"done">>} : s.todo \in {q, q \o <<"remove">>}
           /\ s.phase = "DONE"
  <2>1. PICK q \in {<<"sub", "done">>, <<"done">>} : s.todo \in {q, q \o <<"remove">>}
    BY <1>4
  <2>2. q \in Seq(Operations)
    BY QueueStop, QueueIdle
  <2>3. ~Awaits(q, "load") /\ ~Awaits(q, "started")
    <3>1. CASE q = <<"sub", "done">>
      BY <3>1 DEF Awaits
    <3>2. CASE q = <<"done">>
      BY <3>2 DEF Awaits
    <3>3. QED
      BY <3>1, <3>2
  <2>4. ~Awaits(s.todo, "load") /\ ~Awaits(s.todo, "started")
    <3>1. CASE s.todo = q
      BY <2>3, <3>1
    <3>2. CASE s.todo = q \o <<"remove">>
      BY <2>2, <2>3, <3>2, LastAwaits
    <3>3. QED
      BY <2>1, <3>1, <3>2
  <2>5. QED
    BY <1>4, <2>4 DEF Awaits
<1>5. QED
  BY <1>1, <1>2, <1>3, <1>4 DEF Callback

LEMMA TurnExit ==
  ASSUME PinInv, ExitInv, NEW t \in Threads, th[t].todo = << >>, NEW s, Update(t, s),
         Turn(th[t], s), UNCHANGED <<knobs, counts, exit>>
  PROVE  ExitInv'
<1>1. Late(s)
  BY CallbackLate DEF Turn, Late, ExitInv
<1>2. ~Notices(th[t], counts.started)
  BY DEF Notices, Awaits
<1>3. QED
  BY <1>1, <1>2, ExitStep DEF Turn

---------------------------------------------------------------------------
(* The steps of the program and the exit.                                  *)

LEMMA CloseTurn ==
  ASSUME NEW s \in ThreadState
  PROVE  LET f == force_close(s)
         IN  /\ f \in ThreadState /\ f.phase = s.phase /\ f.todo = s.todo /\ f.life = s.life
             /\ f.ever_started_tracing = s.ever_started_tracing
             /\ f.ever_reached_done = s.ever_reached_done /\ f.snap = s.snap
<1> DEFINE f == force_close(s)
<1>1. f \in ThreadState /\ f = [s EXCEPT !.samples = f.samples]
  BY ForceClose
<1> HIDE DEF f
<1>2. /\ f.phase = s.phase /\ f.todo = s.todo /\ f.life = s.life
      /\ f.ever_started_tracing = s.ever_started_tracing
      /\ f.ever_reached_done = s.ever_reached_done /\ f.snap = s.snap
  BY <1>1 DEF ThreadState
<1>3. QED
  BY <1>1, <1>2 DEF f

LEMMA BegunTurn ==
  ASSUME PinInv, NEW s \in ThreadState, NEW file \in Opens,
         NEW q \in {enter_tracing, <<"join", "started">>, << >>},
         s.phase # "DONE"
  PROVE  Turn(s, Begun(s, file, q))
<1> DEFINE b == Begun(s, file, q)
           x == Append(s.samples, [recs |-> << >>, file |-> file])
<1>1. b = [s EXCEPT !.samples = x, !.phase = "TRACING", !.counter = knobs.trace_per_sample, !.todo = q]
  BY DEF Begun, open_next_sample, ThreadState
<1> HIDE DEF b, x
<1>2. /\ b.phase = "TRACING" /\ b.todo = q
      /\ b.ever_started_tracing = s.ever_started_tracing
      /\ b.ever_reached_done = s.ever_reached_done
  BY <1>1 DEF ThreadState
<1>3. QED
  BY <1>2 DEF Turn, Callback, enter_tracing, b

LEMMA StoppedTurn ==
  ASSUME NEW s \in ThreadState
  PROVE  LET x == Stopped(s)
         IN  /\ Turn(s, x) /\ x \in ThreadState /\ x.phase = "DONE"
             /\ x.todo \in {<<"sub", "done">>, <<"done">>}
<1> DEFINE f == force_close(s)
           q == IF s.phase = "TRACING" THEN <<"sub", "done">> ELSE <<"done">>
           x == Stopped(s)
<1>1. f \in ThreadState /\ f.ever_started_tracing = s.ever_started_tracing
      /\ f.ever_reached_done = s.ever_reached_done
  BY CloseTurn
<1>2. x = [f EXCEPT !.phase = "DONE", !.todo = q]
  BY DEF Stopped
<1>3. q \in {<<"sub", "done">>, <<"done">>}
  OBVIOUS
<1>4. x \in ThreadState
  BY StoppedState
<1> HIDE DEF f, q, x
<1>5. /\ x.phase = "DONE" /\ x.todo = q
      /\ x.ever_started_tracing = f.ever_started_tracing
      /\ x.ever_reached_done = f.ever_reached_done
  BY <1>1, <1>2 DEF ThreadState
<1>6. QED
  BY <1>1, <1>3, <1>4, <1>5 DEF Turn, Callback, x

LEMMA RecordedTurn ==
  ASSUME NEW s \in ThreadState
  PROVE  LET r == Recorded(s)
         IN  /\ r.ever_started_tracing = s.ever_started_tracing
             /\ r.ever_reached_done = s.ever_reached_done
BY DEF Recorded, ThreadState

LEMMA FinishedTurn ==
  ASSUME PinInv, NEW s \in ThreadState, NEW file \in Opens, s.todo = << >>, s.phase = "TRACING"
  PROVE  Turn(s, finish_sample(s, file))
<1> DEFINE c == Collected(s)
           f == finish_sample(s, file)
           g == force_close(s)
<1>1. /\ g \in ThreadState /\ g.phase = s.phase
      /\ g.ever_started_tracing = s.ever_started_tracing
      /\ g.ever_reached_done = s.ever_reached_done
  BY CloseTurn
<1>2. c = [g EXCEPT !.samples_collected = g.samples_collected + 1] /\ c \in ThreadState
  BY CollectedShape DEF Collected
<1> HIDE DEF g
<1>3. /\ c.phase = s.phase /\ c.ever_started_tracing = s.ever_started_tracing
      /\ c.ever_reached_done = s.ever_reached_done
  BY <1>1, <1>2 DEF ThreadState
<1>4. Turn(c, Begun(c, file, << >>))
  BY <1>2, <1>3, BegunTurn
<1>5. \/ f = [c EXCEPT !.phase = "DONE", !.todo = <<"done", "sub", "remove">>]
      \/ f = [c EXCEPT !.phase = "INTER_SKIP", !.counter = Gap(c), !.todo = <<"sub", "remove">>]
      \/ f = Begun(c, file, << >>)
  BY DEF finish_sample
<1> HIDE DEF c, f
<1>6. CASE f = [c EXCEPT !.phase = "DONE", !.todo = <<"done", "sub", "remove">>]
  <2>1. /\ f.phase = "DONE" /\ f.todo = <<"done", "sub", "remove">>
        /\ f.ever_started_tracing = c.ever_started_tracing
        /\ f.ever_reached_done = c.ever_reached_done
    BY <1>2, <1>6 DEF ThreadState
  <2>2. QED
    BY <1>3, <2>1 DEF Turn, Callback, f
<1>7. CASE f = [c EXCEPT !.phase = "INTER_SKIP", !.counter = Gap(c), !.todo = <<"sub", "remove">>]
  <2>1. /\ f.todo = <<"sub", "remove">>
        /\ f.ever_started_tracing = c.ever_started_tracing
        /\ f.ever_reached_done = c.ever_reached_done
    BY <1>2, <1>7 DEF ThreadState
  <2>2. QED
    BY <1>3, <2>1 DEF Turn, Callback, f
<1>8. CASE f = Begun(c, file, << >>)
  BY <1>3, <1>4, <1>8 DEF Turn, f
<1>9. QED
  BY <1>5, <1>6, <1>7, <1>8

(* A thread that runs on, with nothing to do.                              *)
LEMMA IdleTurn ==
  ASSUME NEW o, NEW s, s.phase = o.phase, s.todo = << >>,
         s.ever_started_tracing = o.ever_started_tracing, s.ever_reached_done = o.ever_reached_done
  PROVE  Turn(o, s)
BY DEF Turn, Callback

(* The callback of a thread.                                               *)
Turned(t) == Update(t, th'[t]) /\ Turn(th[t], th'[t])

LEMMA Turns ==
  ASSUME PinInv, NEW t \in Threads, NEW s, Update(t, s), Turn(th[t], s)
  PROVE  Turned(t)
<1>1. th'[t] = s
  BY DEF PinInv, TypeOK, Update
<1>2. QED
  BY <1>1 DEF Turned

LEMMA IdleTurns ==
  ASSUME PinInv, NEW t \in Threads, NEW s, Update(t, s), s.phase = th[t].phase, s.todo = << >>,
         s.ever_started_tracing = th[t].ever_started_tracing,
         s.ever_reached_done = th[t].ever_reached_done
  PROVE  Turned(t)
<1>1. Turn(th[t], s)
  BY IdleTurn
<1>2. QED
  BY <1>1, Turns

LEMMA ProgramTurn ==
  ASSUME PinInv, NEW t \in Threads, Program(t)
  PROVE  /\ th[t].todo = << >> /\ UNCHANGED <<knobs, counts, exit>>
         /\ Turned(t)
<1> PICK o \in ThreadState : o = th[t]
  BY RunningFacts
<1>1. Running(t) /\ UNCHANGED <<knobs, counts, exit>>
  BY DEF Program, EnterTrace, SkipBlock, RecordInstrCommit, PlainInsn, RoiBegin, RegisterWorker,
     RoiEnd, Marker, global
<1>2. o.todo = << >> /\ o.pos \in Nat
  BY <1>1 DEF Running, ThreadState
<1> SUFFICES Turned(t)
  BY <1>1, <1>2
<1>3. CASE EnterTrace(t)
  <2>1. PICK m \in cache \cup {InstrumentTrace} :
          LET s == [o EXCEPT !.mode = m]
          IN  \/ Update(t, s)
              \/ Update(t, Stopped(s))
              \/ WakesUp(s) /\ \E file \in Opens : Update(t, Begun(s, file, <<"join", "started">>))
    BY <1>3 DEF EnterTrace
  <2> DEFINE s == [o EXCEPT !.mode = m]
  <2>2. m \in Modes
    BY RunningFacts DEF InstrumentTrace, Modes
  <2>3. /\ s \in ThreadState /\ s.phase = o.phase /\ s.todo = << >>
        /\ s.ever_started_tracing = o.ever_started_tracing
        /\ s.ever_reached_done = o.ever_reached_done
    BY <1>2, <2>2 DEF ThreadState
  <2> HIDE DEF s
  <2>4. CASE Update(t, s)
    BY <2>3, <2>4, IdleTurns
  <2>5. CASE Update(t, Stopped(s))
    <3>1. Turn(s, Stopped(s))
      BY <2>3, StoppedTurn
    <3>2. Turn(o, Stopped(s))
      BY <2>3, <3>1 DEF Turn
    <3>3. QED
      BY <2>5, <3>2, Turns
  <2>6. CASE WakesUp(s) /\ \E file \in Opens : Update(t, Begun(s, file, <<"join", "started">>))
    <3>1. PICK file \in Opens : Update(t, Begun(s, file, <<"join", "started">>))
      BY <2>6
    <3>2. s.phase # "DONE"
      BY <2>6 DEF WakesUp
    <3>3. Turn(s, Begun(s, file, <<"join", "started">>))
      BY <2>3, <3>2, BegunTurn
    <3>4. Turn(o, Begun(s, file, <<"join", "started">>))
      BY <2>3, <3>3 DEF Turn
    <3>5. QED
      BY <3>1, <3>4, Turns
  <2>7. QED
    BY <2>1, <2>4, <2>5, <2>6 DEF s
<1>4. CASE SkipBlock(t)
  <2>1. PICK n \in Blocks :
          LET s == [o EXCEPT !.pos = o.pos + n]
          IN  \/ Update(t, s)
              \/ s.counter > n /\ Update(t, [s EXCEPT !.counter = s.counter - n])
              \/ /\ s.phase \in {"INITIAL_SKIP", "INTER_SKIP"}
                 /\ \E file \in Opens : Update(t, Begun(s, file, enter_tracing))
    BY <1>4 DEF SkipBlock, Executes, Charge
  <2> DEFINE s == [o EXCEPT !.pos = o.pos + n]
  <2>2. o.pos + n \in Nat /\ n \in Nat
    BY <1>2, PinAssumption
  <2>3. /\ s \in ThreadState /\ s.phase = o.phase /\ s.todo = << >>
        /\ s.ever_started_tracing = o.ever_started_tracing
        /\ s.ever_reached_done = o.ever_reached_done
    BY <1>2, <2>2 DEF ThreadState
  <2> HIDE DEF s
  <2>4. CASE Update(t, s)
    BY <2>3, <2>4, IdleTurns
  <2>5. CASE s.counter > n /\ Update(t, [s EXCEPT !.counter = s.counter - n])
    <3> DEFINE c == [s EXCEPT !.counter = s.counter - n]
    <3>1. /\ c.phase = s.phase /\ c.todo = << >>
          /\ c.ever_started_tracing = s.ever_started_tracing
          /\ c.ever_reached_done = s.ever_reached_done
      BY <2>3 DEF ThreadState
    <3> HIDE DEF c
    <3>2. Turn(o, c)
      BY <2>3, <3>1, IdleTurn
    <3>3. QED
      BY <2>5, <3>2, Turns DEF c
  <2>6. CASE /\ s.phase \in {"INITIAL_SKIP", "INTER_SKIP"}
             /\ \E file \in Opens : Update(t, Begun(s, file, enter_tracing))
    <3>1. PICK file \in Opens : Update(t, Begun(s, file, enter_tracing))
      BY <2>6
    <3>2. Turn(s, Begun(s, file, enter_tracing))
      BY <2>3, <2>6, BegunTurn
    <3>3. Turn(o, Begun(s, file, enter_tracing))
      BY <2>3, <3>2 DEF Turn
    <3>4. QED
      BY <3>1, <3>3, Turns
  <2>7. QED
    BY <2>1, <2>4, <2>5, <2>6 DEF s
<1>5. ASSUME NEW s \in ThreadState, s.phase = o.phase, s.todo = << >>,
             s.ever_started_tracing = o.ever_started_tracing,
             s.ever_reached_done = o.ever_reached_done, Update(t, s)
      PROVE  Turned(t)
  BY <1>5, IdleTurns
<1>6. CASE RecordInstrCommit(t)
  <2> DEFINE s == [o EXCEPT !.pos = o.pos + 1]
             r == Recorded(s)
  <2>1. \/ Update(t, s)
        \/ s.phase = "TRACING" /\ s.counter > 1 /\ Update(t, r)
        \/ /\ s.phase = "TRACING" /\ s.counter = 1
           /\ \E file \in Opens : Update(t, finish_sample(r, file))
    BY <1>6 DEF RecordInstrCommit, Executes
  <2>2. o.pos + 1 \in Nat /\ (o.phase = "TRACING" => o.samples # << >>)
    BY <1>2, RunningFacts DEF Sound
  <2>3. /\ s \in ThreadState /\ s.phase = o.phase /\ s.todo = << >> /\ s.samples = o.samples
        /\ s.ever_started_tracing = o.ever_started_tracing
        /\ s.ever_reached_done = o.ever_reached_done /\ s.counter \in Nat
    BY <1>2, <2>2 DEF ThreadState
  <2> HIDE DEF s
  <2>4. CASE Update(t, s)
    BY <1>5, <2>3, <2>4
  <2>5. ASSUME s.phase = "TRACING", s.counter > 0
        PROVE  /\ r \in ThreadState /\ r.phase = "TRACING" /\ r.todo = << >>
               /\ r.ever_started_tracing = o.ever_started_tracing
               /\ r.ever_reached_done = o.ever_reached_done
    BY <2>2, <2>3, <2>5, RecordedShape, RecordedTurn
  <2> HIDE DEF r
  <2>6. CASE s.phase = "TRACING" /\ s.counter > 1 /\ Update(t, r)
    <3>1. s.counter > 0
      BY <2>3, <2>6
    <3>2. QED
      BY <1>5, <2>3, <2>5, <2>6, <3>1
  <2>7. CASE /\ s.phase = "TRACING" /\ s.counter = 1
             /\ \E file \in Opens : Update(t, finish_sample(r, file))
    <3>1. PICK file \in Opens : Update(t, finish_sample(r, file))
      BY <2>7
    <3>2. s.counter > 0
      BY <2>7
    <3>3. Turn(r, finish_sample(r, file))
      BY <2>5, <2>7, <3>2, FinishedTurn
    <3>4. Turn(o, finish_sample(r, file))
      BY <2>3, <2>5, <2>7, <3>2, <3>3 DEF Turn
    <3>5. QED
      BY <3>1, <3>4, Turns
  <2>8. QED
    BY <2>1, <2>4, <2>6, <2>7
<1>7. CASE PlainInsn(t)
  <2> DEFINE s == [o EXCEPT !.pos = o.pos + 1]
  <2>1. Update(t, s)
    BY <1>7 DEF PlainInsn, Executes
  <2>2. o.pos + 1 \in Nat
    BY <1>2
  <2>3. /\ s \in ThreadState /\ s.phase = o.phase /\ s.todo = << >>
        /\ s.ever_started_tracing = o.ever_started_tracing
        /\ s.ever_reached_done = o.ever_reached_done
    BY <1>2, <2>2 DEF ThreadState
  <2> HIDE DEF s
  <2>4. QED
    BY <1>5, <2>1, <2>3
<1>8. CASE RegisterWorker(t)
  <2> DEFINE s == [o EXCEPT !.is_registered_worker = TRUE]
  <2>1. Update(t, s)
    BY <1>8 DEF RegisterWorker
  <2>2. /\ s \in ThreadState /\ s.phase = o.phase /\ s.todo = << >>
        /\ s.ever_started_tracing = o.ever_started_tracing
        /\ s.ever_reached_done = o.ever_reached_done
    BY <1>2 DEF ThreadState
  <2> HIDE DEF s
  <2>3. QED
    BY <1>5, <2>1, <2>2
<1>9. CASE UNCHANGED th
  <2>1. Update(t, o)
    BY <1>9 DEF Update, PinInv, TypeOK
  <2>2. QED
    BY <1>2, <1>5, <2>1
<1>10. CASE RoiBegin(t)
  <2>1. CASE Update(t, [o EXCEPT !.phase = "DONE", !.todo = <<"done">>])
    <3> DEFINE s == [o EXCEPT !.phase = "DONE", !.todo = <<"done">>]
    <3>1. /\ s.phase = "DONE" /\ s.todo = <<"done">>
          /\ s.ever_started_tracing = o.ever_started_tracing
          /\ s.ever_reached_done = o.ever_reached_done
      BY DEF ThreadState
    <3> HIDE DEF s
    <3>2. Turn(o, s)
      BY <3>1 DEF Turn, Callback
    <3>3. QED
      BY <2>1, <3>2, Turns DEF s
  <2>2. CASE /\ o.phase = "WAITING_FOR_ROI"
             /\ \E file \in Opens : Update(t, Begun(o, file, enter_tracing))
    <3>1. PICK file \in Opens : Update(t, Begun(o, file, enter_tracing))
      BY <2>2
    <3>2. Turn(o, Begun(o, file, enter_tracing))
      BY <2>2, BegunTurn
    <3>3. QED
      BY <3>1, <3>2, Turns
  <2>3. QED
    BY <1>9, <1>10, <2>1, <2>2 DEF RoiBegin
<1>11. CASE RoiEnd(t)
  <2> DEFINE x == Stopped(o)
             r == [x EXCEPT !.todo = x.todo \o <<"remove">>]
  <2>1. CASE Update(t, r)
    <3>1. /\ Turn(o, x) /\ x \in ThreadState /\ x.phase = "DONE"
          /\ x.todo \in {<<"sub", "done">>, <<"done">>}
      BY StoppedTurn
    <3> HIDE DEF x
    <3>2. /\ r.phase = "DONE" /\ r.todo = x.todo \o <<"remove">>
          /\ r.ever_started_tracing = x.ever_started_tracing
          /\ r.ever_reached_done = x.ever_reached_done
      BY <3>1 DEF ThreadState
    <3> HIDE DEF r
    <3>3. \E q \in {<<"sub", "done">>, <<"done">>} : r.todo \in {q, q \o <<"remove">>}
      BY <3>1, <3>2
    <3>4. Turn(o, r)
      BY <3>1, <3>2, <3>3 DEF Turn, Callback
    <3>5. QED
      BY <2>1, <3>4, Turns
  <2>2. QED
    BY <1>9, <1>11, <2>1 DEF RoiEnd
<1>12. QED
  BY <1>3, <1>4, <1>6, <1>7, <1>8, <1>10, <1>11 DEF Program

LEMMA ThreadStartTurn ==
  ASSUME PinInv, NEW t \in Threads, ThreadStart(t)
  PROVE  /\ th[t].todo = << >> /\ UNCHANGED <<knobs, counts, exit>>
         /\ Turned(t)
<1> PICK o \in ThreadState : o = th[t]
  BY RunningFacts
<1> DEFINE b == [o EXCEPT !.life = "alive"]
<1>1. UNCHANGED <<knobs, counts, exit>> /\ o.phase = "UNTRACED" /\ o.todo = << >>
  BY RunningFacts DEF ThreadStart, Sound, global
<1> SUFFICES Turned(t)
  BY <1>1
<1>2. \/ Update(t, b)
      \/ Update(t, [b EXCEPT !.phase = "WAITING_FOR_ROI"])
      \/ Update(t, [b EXCEPT !.phase = "INITIAL_SKIP", !.counter = FirstSkip])
      \/ \E file \in Opens : Update(t, Begun(b, file, enter_tracing))
  BY DEF ThreadStart
<1>3. /\ b \in ThreadState /\ b.phase = "UNTRACED" /\ b.todo = << >>
      /\ b.ever_started_tracing = o.ever_started_tracing
      /\ b.ever_reached_done = o.ever_reached_done
  BY <1>1 DEF ThreadState
<1> HIDE DEF b
<1>4. ASSUME NEW s, s.todo = << >>, s.ever_started_tracing = o.ever_started_tracing,
             s.ever_reached_done = o.ever_reached_done, Update(t, s)
      PROVE  Turned(t)
  <2>1. Turn(o, s)
    BY <1>1, <1>4 DEF Turn, Callback
  <2>2. QED
    BY <1>4, <2>1, Turns
<1>5. CASE Update(t, b)
  BY <1>3, <1>4, <1>5
<1>6. CASE Update(t, [b EXCEPT !.phase = "WAITING_FOR_ROI"])
  <2> DEFINE s == [b EXCEPT !.phase = "WAITING_FOR_ROI"]
  <2>1. /\ s.todo = << >> /\ s.ever_started_tracing = b.ever_started_tracing
        /\ s.ever_reached_done = b.ever_reached_done
    BY <1>3 DEF ThreadState
  <2> HIDE DEF s
  <2>2. QED
    BY <1>3, <1>4, <1>6, <2>1 DEF s
<1>7. CASE Update(t, [b EXCEPT !.phase = "INITIAL_SKIP", !.counter = FirstSkip])
  <2> DEFINE s == [b EXCEPT !.phase = "INITIAL_SKIP", !.counter = FirstSkip]
  <2>1. /\ s.todo = << >> /\ s.ever_started_tracing = b.ever_started_tracing
        /\ s.ever_reached_done = b.ever_reached_done
    BY <1>3 DEF ThreadState
  <2> HIDE DEF s
  <2>2. QED
    BY <1>3, <1>4, <1>7, <2>1 DEF s
<1>8. CASE \E file \in Opens : Update(t, Begun(b, file, enter_tracing))
  <2>1. PICK file \in Opens : Update(t, Begun(b, file, enter_tracing))
    BY <1>8
  <2>2. Turn(b, Begun(b, file, enter_tracing))
    BY <1>3, BegunTurn
  <2>3. Turn(o, Begun(b, file, enter_tracing))
    BY <1>1, <1>3, <2>2 DEF Turn
  <2>4. QED
    BY <2>1, <2>3, Turns
<1>9. QED
  BY <1>2, <1>5, <1>6, <1>7, <1>8

---------------------------------------------------------------------------
(* The operations on what the threads share and the exit.                  *)

LEMMA PopLate ==
  ASSUME NEW q \in Seq(Operations), q # << >>, \A i \in DOMAIN q : q[i] = "load" => i = 1
  PROVE  ~Awaits(Tail(q), "load")
<1>1. Len(q) \in Nat \ {0} /\ DOMAIN Tail(q) = 1 .. Len(q) - 1 /\ DOMAIN q = 1 .. Len(q)
  OBVIOUS
<1>2. \A i \in 1 .. Len(q) - 1 : Tail(q)[i] = q[i + 1] /\ i + 1 \in 1 .. Len(q) /\ i + 1 # 1
  BY <1>1
<1>3. QED
  BY <1>1, <1>2 DEF Awaits

LEMMA PopOnly ==
  ASSUME NEW q \in Seq(Operations), q # << >>, NEW op, Awaits(Tail(q), op)
  PROVE  Awaits(q, op)
<1>1. Len(q) \in Nat \ {0} /\ DOMAIN Tail(q) = 1 .. Len(q) - 1 /\ DOMAIN q = 1 .. Len(q)
  OBVIOUS
<1>2. \A i \in 1 .. Len(q) - 1 : Tail(q)[i] = q[i + 1] /\ i + 1 \in 1 .. Len(q)
  BY <1>1
<1>3. QED
  BY <1>1, <1>2 DEF Awaits

(* What is left of a queue once its first operation is done.               *)
LEMMA PoppedLate ==
  ASSUME PinInv, ExitInv, NEW t \in Threads, NEW op, Doing(t, op)
  PROVE  LET n == Next1(t)
             o == th[t]
         IN  /\ n \in ThreadState /\ n.todo \in Seq(Operations) /\ n.life = "alive"
             /\ n.phase = o.phase /\ n.snap = o.snap
             /\ n.ever_started_tracing = o.ever_started_tracing
             /\ n.ever_reached_done = o.ever_reached_done
             /\ ~Awaits(n.todo, "load") /\ Late(n) /\ Late(o)
             /\ Awaits(o.todo, "load") => Awaits(o.todo, "test")
             /\ Awaits(o.todo, "load") => op = "load"
             /\ Awaits(o.todo, "test") /\ op # "test" => Awaits(n.todo, "test")
             /\ Awaits(o.todo, op)
<1> PICK o \in ThreadState : o = th[t]
  BY RunningFacts
<1> DEFINE n == Next1(t)
<1>1. n = [o EXCEPT !.todo = Tail(o.todo)] /\ o.todo \in Seq(Operations) /\ o.todo # << >>
      /\ Head(o.todo) = op /\ o.life = "alive" /\ Tail(o.todo) \in Seq(Operations)
  BY DEF Doing, Next1, ThreadState
<1>2. Late(o)
  BY DEF ExitInv
<1> HIDE DEF n
<1>3. /\ n \in ThreadState /\ n.todo = Tail(o.todo) /\ n.life = "alive"
      /\ n.phase = o.phase /\ n.snap = o.snap
      /\ n.ever_started_tracing = o.ever_started_tracing
      /\ n.ever_reached_done = o.ever_reached_done
  BY <1>1 DEF ThreadState
<1>4. ~Awaits(n.todo, "load")
  BY <1>1, <1>2, <1>3, PopLate DEF Late
<1>5. /\ Awaits(n.todo, "done") => Awaits(o.todo, "done")
      /\ Awaits(n.todo, "started") => Awaits(o.todo, "started")
  BY <1>1, <1>3, PopOnly
<1>6. Late(n)
  BY <1>2, <1>3, <1>4, <1>5 DEF Late, Awaits
<1>7. Awaits(o.todo, op)
  <2>1. 1 \in DOMAIN o.todo /\ o.todo[1] = op
    BY <1>1
  <2>2. QED
    BY <2>1 DEF Awaits
<1>8. Awaits(o.todo, "load") => op = "load"
  BY <1>1, <1>2 DEF Late, Awaits
<1>9. Awaits(o.todo, "test") /\ op # "test" => Awaits(n.todo, "test")
  BY <1>1, <1>3, PopAwaits
<1>10. QED
  BY <1>1, <1>2, <1>3, <1>4, <1>6, <1>7, <1>8, <1>9 DEF Late, n

(* An operation other than those of the exit.                              *)
LEMMA PopExit ==
  ASSUME PinInv, ExitInv, NEW t \in Threads, NEW op, Doing(t, op), op \notin {"load", "test"},
         NEW s, Update(t, s), s.life = "alive", s.phase = th[t].phase, s.snap = th[t].snap,
         s.ever_started_tracing = th[t].ever_started_tracing,
         s.ever_reached_done = th[t].ever_reached_done,
         s.todo = Next1(t).todo \/ s.todo = Next1(t).todo \o <<"remove">>,
         UNCHANGED <<knobs, counts, exit>>
  PROVE  ExitInv'
<1> DEFINE n == Next1(t)
<1>1. /\ n.todo \in Seq(Operations) /\ n.phase = th[t].phase
      /\ n.ever_reached_done = th[t].ever_reached_done
      /\ ~Awaits(n.todo, "load") /\ Late(n)
      /\ ~Awaits(th[t].todo, "load")
      /\ Awaits(th[t].todo, "test") => Awaits(n.todo, "test")
  BY PoppedLate
<1> HIDE DEF n
<1>2. \A op2 \in {"load", "test", "done", "started"} :
        /\ Awaits(s.todo, op2) <=> Awaits(n.todo, op2)
  <2>1. CASE s.todo = n.todo
    BY <2>1
  <2>2. CASE s.todo = n.todo \o <<"remove">>
    <3>1. ASSUME NEW op2 \in {"load", "test", "done", "started"}
          PROVE  Awaits(s.todo, op2) <=> Awaits(n.todo, op2)
      BY <1>1, <2>2, LastAwaits
    <3>2. QED
      BY <3>1
  <2>3. QED
    BY <2>1, <2>2 DEF n
<1>3. Late(s)
  <2>1. \A i \in DOMAIN s.todo : s.todo[i] # "load"
    BY <1>1, <1>2 DEF Awaits
  <2>2. QED
    BY <1>1, <1>2, <2>1 DEF Late
<1>4. Notices(th[t], counts.started) => Notices(s, counts.started)
  BY <1>1, <1>2 DEF Notices
<1>5. QED
  BY <1>3, <1>4, ExitStep

(* g_threads_started_tracing grows with a thread that is not done.         *)
LEMMA StartedExit ==
  ASSUME PinInv, ExitInv, NEW t \in Threads, mark_started_tracing(t)
  PROVE  ExitInv'
<1> DEFINE n == Next1(t)
           s == [n EXCEPT !.ever_started_tracing = TRUE]
<1>1. Doing(t, "started") /\ Update(t, s) /\ UNCHANGED <<knobs, exit>>
      /\ counts' = IF th[t].ever_started_tracing THEN counts
                   ELSE [counts EXCEPT !.started = @ + 1]
  BY DEF mark_started_tracing
<1>2. /\ n \in ThreadState /\ n.todo \in Seq(Operations) /\ n.life = "alive"
      /\ n.phase = th[t].phase /\ n.snap = th[t].snap
      /\ n.ever_started_tracing = th[t].ever_started_tracing
      /\ n.ever_reached_done = th[t].ever_reached_done
      /\ Late(n) /\ Late(th[t]) /\ Awaits(th[t].todo, "started")
  BY <1>1, PoppedLate
<1>3. /\ s.todo = n.todo /\ s.life = "alive" /\ s.phase = n.phase /\ s.snap = n.snap
      /\ s.ever_started_tracing /\ s.ever_reached_done = n.ever_reached_done
  <2> HIDE DEF n
  <2>1. QED
    BY <1>2 DEF ThreadState
<1>4. Late(s)
  BY <1>2, <1>3 DEF Late
<1> HIDE DEF s, n
<1>5. CASE th[t].ever_started_tracing
  <2>1. counts' = counts /\ s.ever_started_tracing = th[t].ever_started_tracing
    BY <1>1, <1>2, <1>3, <1>5, RunningFacts DEF ThreadState
  <2>2. QED
    BY <1>1, <1>2, <1>3, <2>1, PopExit DEF n
<1>6. CASE ~th[t].ever_started_tracing
  <2>1. th'[t] = s /\ \A u \in Threads \ {t} : th'[u] = th[u]
    BY <1>1 DEF PinInv, TypeOK, Update
  <2>2. St' = St \cup {t} /\ Dn' = Dn
    <3>1. /\ HasStarted(t)' /\ (HasFinished(t)' <=> HasFinished(t))
          /\ \A u \in Threads \ {t} : (HasStarted(u)' <=> HasStarted(u)) /\ (HasFinished(u)' <=> HasFinished(u))
      BY <1>2, <1>3, <2>1 DEF HasStarted, HasFinished
    <3>2. QED
      BY <3>1 DEF St, Dn
  <2>3. t \notin St /\ t \notin Dn
    BY <1>2, <1>6 DEF St, Dn, HasStarted, HasFinished, Late
  <2>4. IsFiniteSet(St) /\ Cardinality(St') = Cardinality(St) + 1
    <3>1. IsFiniteSet(St)
      BY PinAssumption, FS_Subset DEF St
    <3>2. QED
      BY <2>2, <2>3, <3>1, FS_AddElement
  <2>5. counts \in [started : Nat, done : Nat]
    BY RunningFacts
  <2>6. counts'.started = Cardinality(St') /\ counts'.done = Cardinality(Dn')
    BY <1>1, <1>6, <2>2, <2>4, <2>5 DEF ExitInv
  <2>7. ~(St' \subseteq Dn')
    BY <2>2, <2>3
  <2>8. \A u \in Threads : Late(th'[u])
    BY <1>4, <2>1 DEF ExitInv
  <2>9. (\A u \in Threads : Late(th[u]))'
    BY <2>8 DEF Late, Awaits
  <2>10. QED
    BY <2>6, <2>7, <2>9 DEF ExitInv
<1>7. QED
  BY <1>5, <1>6

(* g_threads_reached_done grows with a thread that will look at it.        *)
LEMMA DoneExit ==
  ASSUME PinInv, ExitInv, NEW t \in Threads, mark_reached_done(t)
  PROVE  ExitInv'
<1> DEFINE n == Next1(t)
           q == IF knobs.exit_on_done THEN <<"load", "test">> \o n.todo ELSE n.todo
           s == [n EXCEPT !.ever_reached_done = TRUE, !.todo = q]
<1>1. Doing(t, "done") /\ UNCHANGED <<knobs, exit>>
  BY DEF mark_reached_done
<1>2. /\ n \in ThreadState /\ n.todo \in Seq(Operations) /\ n.life = "alive"
      /\ n.phase = th[t].phase /\ n.snap = th[t].snap
      /\ n.ever_started_tracing = th[t].ever_started_tracing
      /\ n.ever_reached_done = th[t].ever_reached_done
      /\ ~Awaits(n.todo, "load") /\ Late(n) /\ Late(th[t]) /\ Awaits(th[t].todo, "done")
  BY <1>1, PoppedLate
<1>3. CASE th[t].ever_reached_done
  <2>1. Update(t, n) /\ UNCHANGED counts
    BY <1>3 DEF mark_reached_done
  <2> HIDE DEF n
  <2>2. QED
    BY <1>1, <1>2, <2>1, PopExit DEF n
<1>4. CASE ~th[t].ever_reached_done
  <2> DEFINE m == n.todo
             q2 == <<"load", "test">> \o m
  <2>0. Update(t, s) /\ counts' = [counts EXCEPT !.done = @ + 1]
    <3> DEFINE r == [n EXCEPT !.ever_reached_done = TRUE,
                              !.todo = IF knobs.exit_on_done THEN <<"load", "test">> \o @ ELSE @]
    <3>1. Update(t, r) /\ counts' = [counts EXCEPT !.done = @ + 1]
      BY <1>4 DEF mark_reached_done
    <3>2. r = s
      OBVIOUS
    <3> HIDE DEF r, s
    <3>3. QED
      BY <3>1, <3>2
  <2>1. /\ s.todo = q /\ s.life = "alive" /\ s.phase = n.phase
        /\ s.ever_started_tracing = n.ever_started_tracing /\ s.ever_reached_done
    <3> HIDE DEF n, q
    <3>1. QED
      BY <1>2 DEF ThreadState
  <2>2. /\ DOMAIN q2 = 1 .. Len(m) + 2 /\ DOMAIN m = 1 .. Len(m) /\ Len(m) \in Nat
        /\ q2[1] = "load" /\ q2[2] = "test" /\ \A i \in 1 .. Len(m) : q2[i + 2] = m[i]
    <3> HIDE DEF m
    <3>1. m \in Seq(Operations)
      BY <1>2 DEF m
    <3>2. QED
      BY <3>1
  <2> HIDE DEF q2
  <2>3. \A j \in DOMAIN q2 : j = 1 \/ j = 2 \/ (j - 2 \in DOMAIN m /\ q2[j] = m[j - 2])
    <3> HIDE DEF m
    <3>1. QED
      BY <2>2
  <2>4. /\ Awaits(q2, "load") /\ Awaits(q2, "test")
        /\ \A i \in DOMAIN q2 : q2[i] = "load" => i = 1
        /\ Awaits(q2, "started") => Awaits(m, "started")
    <3>1. 1 \in DOMAIN q2 /\ 2 \in DOMAIN q2
      <4> HIDE DEF m
      <4>1. QED
        BY <2>2
    <3>2. ~Awaits(m, "load")
      BY <1>2
    <3> HIDE DEF m
    <3>3. QED
      BY <2>2, <2>3, <3>1, <3>2 DEF Awaits
  <2>5. s.todo = q2 \/ (s.todo = m /\ ~knobs.exit_on_done)
    <3> HIDE DEF n, s
    <3>1. QED
      BY <2>1 DEF q2
  <2>6. s.phase = "DONE"
    BY <1>2, <2>1 DEF Late
  <2>7. Late(s)
    <3>1. CASE s.todo = q2
      BY <1>2, <2>1, <2>4, <2>6, <3>1 DEF Late
    <3>2. CASE s.todo = m
      BY <1>2, <2>1, <2>6, <3>2 DEF Late
    <3>3. QED
      BY <2>5, <3>1, <3>2
  <2>8. knobs.exit_on_done => Notices(s, counts'.started)
    BY <2>1, <2>4, <2>5 DEF Notices
  <2> HIDE DEF s, n, m
  <2>9. th'[t] = s /\ \A u \in Threads \ {t} : th'[u] = th[u]
    BY <2>0 DEF PinInv, TypeOK, Update
  <2>10. St' = St /\ Dn' = Dn \cup {t}
    <3>1. /\ HasFinished(t)' /\ (HasStarted(t)' <=> HasStarted(t))
          /\ \A u \in Threads \ {t} : (HasStarted(u)' <=> HasStarted(u)) /\ (HasFinished(u)' <=> HasFinished(u))
      BY <1>2, <2>1, <2>9 DEF HasStarted, HasFinished
    <3>2. QED
      BY <3>1 DEF St, Dn
  <2>11. t \notin Dn
    BY <1>4 DEF Dn, HasFinished
  <2>12. Cardinality(Dn') = Cardinality(Dn) + 1
    <3>1. IsFiniteSet(Dn)
      BY PinAssumption, FS_Subset DEF Dn
    <3>2. QED
      BY <2>10, <2>11, <3>1, FS_AddElement
  <2>13. counts \in [started : Nat, done : Nat]
    BY RunningFacts
  <2>14. counts'.started = Cardinality(St') /\ counts'.done = Cardinality(Dn')
    BY <2>0, <2>10, <2>12, <2>13 DEF ExitInv
  <2>15. \A u \in Threads : Late(th'[u])
    BY <2>7, <2>9 DEF ExitInv
  <2>16. (\A u \in Threads : Late(th[u]))'
    BY <2>15 DEF Late, Awaits
  <2>17. knobs.exit_on_done => \E u \in Threads : Notices(th'[u], counts'.started)
    BY <2>8, <2>9
  <2>18. (knobs.exit_on_done => \E u \in Threads : Notices(th[u], counts.started))'
    BY <1>1, <2>17 DEF Notices, Awaits
  <2>19. QED
    BY <2>14, <2>16, <2>18 DEF ExitInv
<1>5. QED
  BY <1>3, <1>4

(* A thread that loads g_threads_started_tracing knows what it is.         *)
LEMMA LoadExit ==
  ASSUME PinInv, ExitInv, NEW t \in Threads, LoadStarted(t)
  PROVE  ExitInv'
<1> DEFINE n == Next1(t)
           s == [n EXCEPT !.snap = counts.started]
<1>1. Doing(t, "load") /\ Update(t, s) /\ UNCHANGED <<knobs, counts, exit>>
  BY DEF LoadStarted, global
<1>2. /\ n \in ThreadState /\ n.todo \in Seq(Operations) /\ n.life = "alive"
      /\ n.phase = th[t].phase
      /\ n.ever_started_tracing = th[t].ever_started_tracing
      /\ n.ever_reached_done = th[t].ever_reached_done
      /\ ~Awaits(n.todo, "load") /\ Late(n) /\ Awaits(n.todo, "test")
  BY <1>1, PoppedLate
<1> HIDE DEF n
<1>3. /\ s.todo = n.todo /\ s.life = "alive" /\ s.phase = n.phase /\ s.snap = counts.started
      /\ s.ever_started_tracing = n.ever_started_tracing
      /\ s.ever_reached_done = n.ever_reached_done
  BY <1>2 DEF ThreadState
<1> HIDE DEF s
<1>4. Late(s)
  BY <1>2, <1>3 DEF Late
<1>5. Notices(s, counts.started)
  BY <1>2, <1>3 DEF Notices
<1>6. QED
  BY <1>1, <1>2, <1>3, <1>4, <1>5, ExitStep

(* A thread that notices ends the program.                                 *)
LEMMA TestExit ==
  ASSUME PinInv, ExitInv, NEW t \in Threads, maybe_exit_on_done(t)
  PROVE  ExitInv'
<1> DEFINE n == Next1(t)
<1>1. Doing(t, "test") /\ UNCHANGED <<knobs, counts>>
  BY DEF maybe_exit_on_done
<1>2. /\ n \in ThreadState /\ n.todo \in Seq(Operations) /\ n.life = "alive"
      /\ n.ever_started_tracing = th[t].ever_started_tracing
      /\ n.ever_reached_done = th[t].ever_reached_done
      /\ Late(n) /\ ~Awaits(th[t].todo, "load")
  BY <1>1, PoppedLate
<1>3. CASE AllDone(t) /\ exit = "no" /\ exit' = "called" /\ Update(t, [n EXCEPT !.life = "exiting"])
  <2> DEFINE s == [n EXCEPT !.life = "exiting"]
  <2> HIDE DEF n
  <2>1. /\ s.todo = n.todo /\ s.phase = n.phase
        /\ s.ever_started_tracing = n.ever_started_tracing
        /\ s.ever_reached_done = n.ever_reached_done
    BY <1>2 DEF ThreadState
  <2>2. Update(t, s) /\ exit' # "no"
    BY <1>3
  <2> HIDE DEF s
  <2>3. Late(s)
    BY <1>2, <2>1 DEF Late
  <2>4. QED
    BY <1>1, <1>2, <2>1, <2>2, <2>3, ExitStep
<1>4. CASE ~(AllDone(t) /\ exit = "no") /\ Update(t, n) /\ exit' = exit
  <2>1. ASSUME exit = "no", St # {}, St \subseteq Dn PROVE ~Notices(th[t], counts.started)
    <3>1. IsFiniteSet(St) /\ IsFiniteSet(Dn)
      BY PinAssumption, FS_Subset DEF St, Dn
    <3>2. Cardinality(St) <= Cardinality(Dn) /\ Cardinality(St) # 0
      BY <2>1, <3>1, FS_Subset, FS_EmptySet
    <3>3. counts.started # 0 /\ counts.done >= counts.started
      BY <3>1, <3>2, FS_CardinalityType DEF ExitInv
    <3>4. th[t].snap # counts.started
      BY <1>4, <2>1, <3>3 DEF AllDone
    <3>5. QED
      BY <1>2, <3>4 DEF Notices
  <2> HIDE DEF n
  <2>2. QED
    BY <1>1, <1>2, <1>4, <2>1, ExitStep
<1>5. QED
  BY <1>3, <1>4 DEF maybe_exit_on_done

LEMMA OperationExit ==
  ASSUME PinInv, ExitInv, NEW t \in Threads, Operation(t)
  PROVE  ExitInv'
<1> DEFINE n == Next1(t)
<1>1. ASSUME NEW op \in {"add", "sub", "remove"}, Doing(t, op), Update(t, n),
             UNCHANGED <<knobs, counts, exit>>
      PROVE  ExitInv'
  <2>1. /\ n.life = "alive" /\ n.phase = th[t].phase /\ n.snap = th[t].snap
        /\ n.ever_started_tracing = th[t].ever_started_tracing
        /\ n.ever_reached_done = th[t].ever_reached_done
    BY <1>1, PoppedLate
  <2> HIDE DEF n
  <2>2. QED
    BY <1>1, <2>1, PopExit DEF n
<1>2. CASE Add(t)
  BY <1>1, <1>2 DEF Add
<1>3. CASE Subtract(t)
  BY <1>1, <1>3 DEF Subtract
<1>4. CASE RemoveInstrumentation(t)
  BY <1>1, <1>4 DEF RemoveInstrumentation
<1>5. CASE AddFirst(t)
  <2> DEFINE q == IF active = 0 THEN n.todo \o <<"remove">> ELSE n.todo
             h == active # 0 /\ Stale
             s == [n EXCEPT !.hasty = h, !.todo = q]
  <2>1. Doing(t, "join") /\ UNCHANGED <<knobs, counts, exit>>
    BY <1>5 DEF AddFirst
  <2>2. /\ n \in ThreadState /\ n.life = "alive" /\ n.phase = th[t].phase /\ n.snap = th[t].snap
        /\ n.ever_started_tracing = th[t].ever_started_tracing
        /\ n.ever_reached_done = th[t].ever_reached_done
    BY <2>1, PoppedLate
  <2> HIDE DEF n
  <2>3. Update(t, s)
    BY <1>5, <2>2 DEF AddFirst, n, ThreadState
  <2> HIDE DEF q, h
  <2>4. /\ s.life = "alive" /\ s.phase = n.phase /\ s.snap = n.snap /\ s.todo = q
        /\ s.ever_started_tracing = n.ever_started_tracing
        /\ s.ever_reached_done = n.ever_reached_done
    BY <2>2 DEF ThreadState
  <2>5. q = n.todo \/ q = n.todo \o <<"remove">>
    BY DEF q
  <2> HIDE DEF s
  <2>6. s.todo = Next1(t).todo \/ s.todo = Next1(t).todo \o <<"remove">>
    BY <2>4, <2>5 DEF n
  <2>7. QED
    BY <2>1, <2>2, <2>3, <2>4, <2>6, PopExit
<1>6. QED
  BY <1>2, <1>3, <1>4, <1>5, StartedExit, DoneExit, LoadExit, TestExit DEF Operation

(* A thread that leaves had nothing left to do, or the program is exiting. *)
LEMMA ThreadFiniExit ==
  ASSUME PinInv, ExitInv, NEW t \in Threads, ThreadFini(t)
  PROVE  ExitInv'
<1> PICK o \in ThreadState : o = th[t]
  BY RunningFacts
<1> DEFINE c == force_close(o)
           s == [c EXCEPT !.life = "gone"]
<1>1. UNCHANGED <<knobs, counts, exit>> /\ Update(t, s) /\ Leaving(t)
  BY DEF ThreadFini
<1>2. /\ c \in ThreadState /\ c.phase = o.phase /\ c.todo = o.todo
      /\ c.ever_started_tracing = o.ever_started_tracing
      /\ c.ever_reached_done = o.ever_reached_done
  BY CloseTurn
<1> HIDE DEF c
<1>3. /\ s.phase = o.phase /\ s.todo = o.todo
      /\ s.ever_started_tracing = o.ever_started_tracing
      /\ s.ever_reached_done = o.ever_reached_done
  BY <1>2 DEF ThreadState
<1> HIDE DEF s
<1>4. Late(s)
  BY <1>3 DEF ExitInv, Late
<1>5. ~Notices(o, counts.started)
  BY <1>1 DEF Leaving, Notices, Awaits
<1>6. QED
  BY <1>1, <1>3, <1>4, <1>5, ExitStep

LEMMA FiniExit ==
  ASSUME PinInv, ExitInv, Fini
  PROVE  ExitInv'
<1>1. /\ th' = [t \in Threads |-> force_close(th[t])] /\ exit' = "over"
      /\ UNCHANGED <<knobs, counts>>
  BY DEF Fini
<1>2. ASSUME NEW t \in Threads
      PROVE  /\ Late(th'[t])
             /\ th'[t].ever_started_tracing = th[t].ever_started_tracing
             /\ th'[t].ever_reached_done = th[t].ever_reached_done
  <2>1. th[t] \in ThreadState /\ Late(th[t]) /\ th'[t] = force_close(th[t])
    BY <1>1, RunningFacts DEF ExitInv
  <2>2. LET f == th'[t]
        IN  /\ f.phase = th[t].phase /\ f.todo = th[t].todo
            /\ f.ever_started_tracing = th[t].ever_started_tracing
            /\ f.ever_reached_done = th[t].ever_reached_done
    BY <2>1, CloseTurn
  <2>3. QED
    BY <2>1, <2>2 DEF Late
<1>3. St' = St /\ Dn' = Dn
  BY <1>2 DEF St, Dn, HasStarted, HasFinished
<1>4. (\A t \in Threads : Late(th[t]))'
  BY <1>2 DEF Late, Awaits
<1>5. QED
  BY <1>1, <1>3, <1>4 DEF ExitInv

LEMMA ExitInit == Init => ExitInv
<1> SUFFICES ASSUME Init PROVE ExitInv
  OBVIOUS
<1>1. /\ Unborn.todo = << >> /\ ~Unborn.ever_started_tracing /\ ~Unborn.ever_reached_done
  BY DEF Unborn
<1>2. \A t \in Threads : th[t] = Unborn
  BY DEF Init
<1>3. St = {} /\ Dn = {}
  BY <1>1, <1>2 DEF St, Dn, HasStarted, HasFinished
<1>4. Late(Unborn)
  BY <1>1 DEF Late, Awaits
<1>5. counts.started = 0 /\ counts.done = 0
  BY DEF Init
<1>6. QED
  BY <1>2, <1>3, <1>4, <1>5, FS_EmptySet DEF ExitInv

LEMMA ExitNext == PinInv /\ ExitInv /\ [Next]_vars => ExitInv'
<1> SUFFICES ASSUME PinInv, ExitInv, [Next]_vars PROVE ExitInv'
  OBVIOUS
<1>1. CASE UNCHANGED vars
  BY <1>1 DEF vars, global, ExitInv, St, Dn, HasStarted, HasFinished, Late, Notices, Awaits
<1>2. ASSUME NEW t \in Threads, Operation(t) \/ Program(t) \/ ThreadStart(t) \/ ThreadFini(t)
      PROVE  ExitInv'
  <2>1. CASE Operation(t)
    BY <2>1, OperationExit
  <2>2. CASE Program(t) \/ ThreadStart(t)
    <3>1. th[t].todo = << >> /\ UNCHANGED <<knobs, counts, exit>> /\ Turned(t)
      BY <2>2, ProgramTurn, ThreadStartTurn
    <3>2. QED
      BY <3>1, TurnExit DEF Turned
  <2>3. CASE ThreadFini(t)
    BY <2>3, ThreadFiniExit
  <2>4. QED
    BY <1>2, <2>1, <2>2, <2>3
<1>3. CASE Fini
  BY <1>3, FiniExit
<1>4. QED
  BY <1>1, <1>2, <1>3 DEF Next

(* With -exit_on_done the program does not run on when every thread that   *)
(* traced is done: for any number of threads, some thread sees the two     *)
(* counters agree, although it loads them one after the other.             *)
THEOREM ExitIsNotMissed == Spec => []ExitNotMissed
<1>1. Init => PinInv /\ ExitInv
  BY PinInit, ExitInit
<1>2. (PinInv /\ ExitInv) /\ [Next]_vars => (PinInv /\ ExitInv)'
  BY PinNext, ExitNext
<1>3. PinInv /\ ExitInv => ExitNotMissed
  <2> SUFFICES ASSUME PinInv, ExitInv, knobs.exit_on_done, \A t \in Threads : th[t].todo = << >>,
                      \E t \in Threads : HasStarted(t),
                      \A t \in Threads : HasStarted(t) => HasFinished(t), exit = "no"
               PROVE  FALSE
    BY DEF ExitNotMissed
  <2>1. St # {} /\ St \subseteq Dn
    BY DEF St, Dn
  <2>2. PICK u \in Threads : Notices(th[u], counts.started)
    BY <2>1 DEF ExitInv
  <2>3. QED
    BY <2>2 DEF Notices, Awaits
<1>4. QED
  BY <1>1, <1>2, <1>3, PTL DEF Spec
=============================================================================
