---------------------------- MODULE RunChampsim ----------------------------
(***************************************************************************)
(* The per-job wrapper (src/scripts/run_champsim.py) and what surrounds    *)
(* it: Slurm, which knows the job's state, whoever signals the processes   *)
(* of the job, and ChampSim, its child.                                    *)
(*                                                                         *)
(* A Spot reclaim sends SIGTERM to every process of a job that Slurm still *)
(* believes RUNNING; scancel and time limits change the state first.  The  *)
(* order in which the processes get the signal is nobody's promise.        *)
(***************************************************************************)
EXTENDS Integers, FiniteSets

CONSTANTS
  Kills,        \* what may hit the job: subset of {"reclaim", "cancel"}
  MaxSignals,   \* bound: SIGTERMs sent to the wrapper
  ShowMayFail,  \* `scontrol show job' may fail or time out
  RequeueMayFail

ASSUME WrapperAssumption ==
  /\ Kills \subseteq {"reclaim", "cancel"}
  /\ MaxSignals \in Nat
  /\ ShowMayFail \in BOOLEAN /\ RequeueMayFail \in BOOLEAN

VARIABLES
  job,       \* Slurm: [state, requeues: requests it accepted, refused: BOOLEAN]
  kills,     \* history: what has hit the job
  signals,   \* SIGTERMs sent to the wrapper
  handler,   \* its disposition of SIGTERM
  pending,   \* a SIGTERM is waiting for the interpreter
  pc,        \* where main() is
  hpc,       \* where on_term() is
  seen,      \* what `scontrol show job' told on_term
  assigned,  \* the variable `child' is bound
  child,     \* the simulator: "none", "running", or how it ended
  rc,        \* what child.wait() returned
  exit       \* the wrapper's own end, as its parent sees it ("alive" before)

vars == <<job, kills, signals, handler, pending, pc, hpc, seen, assigned, child, rc, exit>>

Ends == {"ok", "error", "TERM", "KILL", "SEGV"}

TypeOK ==
  /\ job \in [state : {"RUNNING", "CANCELLED"}, requeues : Nat, refused : BOOLEAN]
  /\ kills \subseteq Kills
  /\ signals \in 0 .. MaxSignals
  /\ handler \in {"default", "on_term", "ignore"}
  /\ pending \in BOOLEAN /\ assigned \in BOOLEAN
  /\ pc \in {"start", "fetch", "spawn", "assign", "wait", "exit", "raise"}
  /\ hpc \in {"idle", "show", "requeue", "child"}
  /\ seen \in {"None", "RUNNING", "CANCELLED"}
  /\ child \in {"none", "running"} \cup Ends
  /\ rc \in {"none"} \cup Ends
  /\ exit \in {"alive"} \cup Ends

Init ==
  /\ job = [state |-> "RUNNING", requeues |-> 0, refused |-> FALSE]
  /\ kills = {} /\ signals = 0
  /\ handler = "default" /\ pending = FALSE
  /\ pc = "start" /\ hpc = "idle" /\ seen = "None"
  /\ assigned = FALSE /\ child = "none" /\ rc = "none" /\ exit = "alive"

Alive == exit = "alive"

---------------------------------------------------------------------------
(* The environment.                                                        *)
Reclaim ==
  /\ "reclaim" \in Kills \ kills /\ Alive
  /\ kills' = kills \cup {"reclaim"}
  /\ UNCHANGED <<job, signals, handler, pending, pc, hpc, seen, assigned, child, rc, exit>>

Cancel ==
  /\ "cancel" \in Kills \ kills /\ Alive
  /\ kills' = kills \cup {"cancel"}
  /\ job' = [job EXCEPT !.state = "CANCELLED"]
  /\ UNCHANGED <<signals, handler, pending, pc, hpc, seen, assigned, child, rc, exit>>

SignalWrapper ==
  /\ kills # {} /\ Alive /\ signals < MaxSignals
  /\ signals' = signals + 1
  /\ pending' = (pending \/ handler = "on_term")
  /\ exit' = IF handler = "default" THEN "TERM" ELSE exit
  /\ UNCHANGED <<job, kills, handler, pc, hpc, seen, assigned, child, rc>>

SignalChild ==
  /\ kills # {} /\ child = "running"
  /\ child' = "TERM"
  /\ UNCHANGED <<job, kills, signals, handler, pending, pc, hpc, seen, assigned, rc, exit>>

(* The simulation finishes, fails, crashes, or is killed for its memory.   *)
ChildEnds ==
  /\ child = "running"
  /\ child' \in Ends \ {"TERM"}
  /\ UNCHANGED <<job, kills, signals, handler, pending, pc, hpc, seen, assigned, rc, exit>>

---------------------------------------------------------------------------
(* main().  It makes no step while a signal waits to be handled, and none  *)
(* after that: on_term leaves by sys.exit.                                 *)
Main(from, to) ==
  /\ Alive /\ ~pending /\ hpc = "idle"
  /\ pc = from /\ pc' = to
  /\ UNCHANGED <<job, kills, signals, pending, hpc, seen>>

Install ==
  /\ Main("start", "fetch")
  /\ handler' = "on_term"
  /\ UNCHANGED <<assigned, child, rc, exit>>

Fetch ==
  \/ Main("fetch", "spawn") /\ UNCHANGED <<handler, assigned, child, rc, exit>>
  \/ Main("fetch", "fetch") /\ exit' = "error" /\ UNCHANGED <<handler, assigned, child, rc>>

(* Popen has started the simulator, its result not yet bound, or there is  *)
(* no such binary: an OSError nobody catches.                              *)
Spawn ==
  \/ /\ Main("spawn", "assign")
     /\ child' = "running"
     /\ UNCHANGED <<handler, assigned, rc, exit>>
  \/ /\ Main("spawn", "spawn")
     /\ exit' = "error"
     /\ UNCHANGED <<handler, assigned, child, rc>>

Assign ==
  /\ Main("assign", "wait")
  /\ assigned' = TRUE
  /\ UNCHANGED <<handler, child, rc, exit>>

Wait ==
  /\ child \in Ends
  /\ Main("wait", "exit")
  /\ rc' = child
  /\ UNCHANGED <<handler, assigned, child, exit>>

\* Mutant: sys.exit() without the status.
Exit_ok ==
  /\ rc \in {"ok", "error", "KILL"}
  /\ Main("exit", "exit")
  /\ exit' = "ok"
  /\ UNCHANGED <<handler, assigned, child, rc>>

(* A status is passed on; for SIGKILL signal.signal() raises OSError and   *)
(* the wrapper ends with a traceback and status 1.                         *)
Exit ==
  /\ rc \in {"ok", "error", "KILL"}
  /\ Main("exit", "exit")
  /\ exit' = IF rc = "KILL" THEN "error" ELSE rc
  /\ UNCHANGED <<handler, assigned, child, rc>>

RestoreDefault ==
  /\ rc \in {"TERM", "SEGV"}
  /\ Main("exit", "raise")
  /\ handler' = IF rc = "TERM" THEN "default" ELSE handler
  /\ UNCHANGED <<assigned, child, rc, exit>>

Raise ==
  /\ Main("raise", "raise")
  /\ exit' = rc
  /\ UNCHANGED <<handler, assigned, child, rc>>

---------------------------------------------------------------------------
(* on_term(), the SIGTERM handler.                                         *)
\* Mutant: SIGTERM is not ignored from here on, a second one starts over.
Enter_again ==
  /\ Alive /\ pending
  /\ pending' = FALSE
  /\ hpc' = "show"
  /\ UNCHANGED <<job, kills, signals, handler, pc, seen, assigned, child, rc, exit>>

Enter ==
  /\ Alive /\ pending
  /\ pending' = FALSE
  /\ handler' = "ignore"
  /\ hpc' = "show"
  /\ UNCHANGED <<job, kills, signals, pc, seen, assigned, child, rc, exit>>

Handle(from, to) ==
  /\ Alive /\ ~pending
  /\ hpc = from /\ hpc' = to
  /\ UNCHANGED <<kills, signals, handler, pending, pc, assigned, rc>>

\* Mutant: only an unknown state requeues.
Requeues_unknown(state) == state = "None"

\* Mutant: the state is not looked at.
Requeues_always(state) == TRUE

Requeues(state) == state \in {"None", "RUNNING"}

Show ==
  \E state \in {job.state} \cup (IF ShowMayFail THEN {"None"} ELSE {}) :
    /\ Handle("show", IF Requeues(state) THEN "requeue" ELSE "child")
    /\ seen' = state
    /\ UNCHANGED <<job, child, exit>>

\* Mutant: the call has no timeout, and slurmctld does not answer.
Requeue_hangs ==
  /\ ~RequeueMayFail
  /\ Handle("requeue", "child")
  /\ job' = [job EXCEPT !.requeues = @ + 1]
  /\ UNCHANGED <<seen, child, exit>>

Requeue ==
  /\ Handle("requeue", "child")
  /\ \/ job' = [job EXCEPT !.requeues = @ + 1]
     \/ RequeueMayFail /\ job' = [job EXCEPT !.refused = TRUE]
  /\ UNCHANGED <<seen, child, exit>>

(* child.terminate(), then sys.exit(143).                                  *)
StopChild ==
  /\ Handle("child", "child")
  /\ child' = IF assigned /\ child = "running" THEN "TERM" ELSE child
  /\ exit' = "error"
  /\ UNCHANGED <<job, seen>>

---------------------------------------------------------------------------
Wrapper ==
  \/ Install \/ Fetch \/ Spawn \/ Assign \/ Wait \/ Exit \/ RestoreDefault \/ Raise
  \/ Enter \/ Show \/ Requeue \/ StopChild

Next == Wrapper \/ Reclaim \/ Cancel \/ SignalWrapper \/ SignalChild \/ ChildEnds

(* The operating system runs the wrapper, every simulation ends, and each  *)
(* call of scontrol has a timeout.                                         *)
Spec == Init /\ [][Next]_vars /\ WF_vars(Wrapper) /\ WF_vars(ChildEnds)

---------------------------------------------------------------------------
(* A job in which on_term has not reached its call of scontrol requeue has *)
(* not been requeued, and on_term is entered at most once: from its first  *)
(* statement on SIGTERM is ignored, and main(), which alone restores the   *)
(* default, makes no step.                                                 *)
WrapperInv ==
  /\ TypeOK
  /\ pending => handler = "on_term" /\ hpc = "idle"
  /\ handler = "ignore" <=> hpc # "idle"
  /\ hpc # "child" => job.requeues = 0
  /\ pc \in {"exit", "raise"} => rc \in Ends
  /\ job.requeues <= 1

(* A job is requeued at most once however often it is signalled: the       *)
(* second request would send the new incarnation back to the queue.        *)
RequeuedOnce == job.requeues <= 1

(* A job that was only ever cancelled, or ran into its time limit, does    *)
(* not come back, unless scontrol could not tell its state: then on_term   *)
(* prefers one run too many to a lost one.                                 *)
CancelledStaysCancelled ==
  "reclaim" \notin kills /\ seen # "None" => job.requeues = 0

(* A reclaim that interrupts the wrapper brings the job back, unless Slurm *)
(* refuses or somebody has cancelled the job.                              *)
ReclaimedComesBack ==
  ~Alive /\ hpc = "child" /\ "cancel" \notin kills => job.requeues = 1 \/ job.refused

(* Slurm is told of a success only if the simulation finished, and of the  *)
(* simulator's own end whenever nobody interfered; only for a SIGKILL,     *)
(* which cannot be passed on like another signal, it is status 1.          *)
StatusIsTheChilds ==
  /\ exit = "ok" => child = "ok"
  /\ ~Alive /\ kills = {} /\ child \in Ends =>
       exit = IF child = "KILL" THEN "error" ELSE child

(* The wrapper never outlives the job: signalled or not, it ends.          *)
WrapperEnds == <>(~Alive)

(* Any SIGTERM that ends an unfinished simulation in a job Slurm believes  *)
(* RUNNING requeues the job.                                               *)
EveryReclaimRequeues ==
  ~Alive /\ kills = {"reclaim"} /\ child = "TERM" => job.requeues = 1
===========================================================================
