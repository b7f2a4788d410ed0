------------------------ MODULE RunChampsim_proofs ------------------------
(***************************************************************************)
(* WrapperInv is inductive, hence a job is requeued at most once, whatever *)
(* kills it, however many signals it gets and whatever scontrol answers.   *)
(* What scontrol has told on_term stays true of the job (AnswerInv), and   *)
(* the wrapper passes on how its child ended (StatusInv): a job is         *)
(* requeued when it must be and only then, and Slurm gets its true status. *)
(***************************************************************************)
EXTENDS RunChampsim, TLAPS

(* The first state: no handler is installed and nothing was requeued.      *)
LEMMA WrapperInit == Init => WrapperInv
<1> SUFFICES ASSUME Init PROVE WrapperInv
  OBVIOUS
<1>1. job \in [state : {"RUNNING", "CANCELLED"}, requeues : Nat, refused : BOOLEAN]
  BY DEF Init
<1>2. signals \in 0 .. MaxSignals
  BY WrapperAssumption DEF Init
<1>3. job.requeues = 0
  BY DEF Init
<1>4. TypeOK
  <2>1. kills \subseteq Kills
    BY DEF Init
  <2>2. pending \in BOOLEAN /\ assigned \in BOOLEAN
    BY DEF Init
  <2>3. QED
    BY <1>1, <1>2, <2>1, <2>2 DEF Init, TypeOK, Ends
<1>5. ~pending /\ handler = "default" /\ hpc = "idle" /\ pc = "start"
  BY Zenon DEF Init
<1>6. QED
  BY <1>3, <1>4, <1>5 DEF WrapperInv

(* A step of the processes around the wrapper leaves on_term where it is   *)
(* and makes a signal pending only when on_term is installed.              *)
LEMMA AroundInv ==
  ASSUME WrapperInv,
         Reclaim \/ Cancel \/ SignalWrapper \/ SignalChild \/ ChildEnds
  PROVE  WrapperInv'
<1>1. CASE Reclaim
  BY <1>1, WrapperAssumption DEF Reclaim, WrapperInv, TypeOK
<1>2. CASE Cancel
  BY <1>2, WrapperAssumption DEF Cancel, WrapperInv, TypeOK
<1>3. CASE SignalWrapper
  BY <1>3, WrapperAssumption DEF SignalWrapper, Alive, WrapperInv, TypeOK, Ends
<1>4. CASE SignalChild
  BY <1>4 DEF SignalChild, WrapperInv, TypeOK, Ends
<1>5. CASE ChildEnds
  BY <1>5 DEF ChildEnds, WrapperInv, TypeOK, Ends
<1>6. QED
  BY <1>1, <1>2, <1>3, <1>4, <1>5

(* A step of main() is taken outside on_term with no signal pending, so it *)
(* may set the disposition of SIGTERM to anything but "ignore".            *)
LEMMA MainInv ==
  ASSUME WrapperInv,
         Install \/ Fetch \/ Spawn \/ Assign \/ Wait \/ Exit \/ RestoreDefault \/ Raise
  PROVE  WrapperInv'
<1>1. CASE Install
  BY <1>1 DEF Install, Main, WrapperInv, TypeOK, Alive, Ends
<1>2. CASE Fetch
  BY <1>2 DEF Fetch, Main, WrapperInv, TypeOK, Alive, Ends
<1>3. CASE Spawn
  BY <1>3 DEF Spawn, Main, WrapperInv, TypeOK, Alive, Ends
<1>4. CASE Assign
  BY <1>4 DEF Assign, Main, WrapperInv, TypeOK, Alive, Ends
<1>5. CASE Wait
  BY <1>5 DEF Wait, Main, WrapperInv, TypeOK, Alive, Ends
<1>6. CASE Exit
  BY <1>6 DEF Exit, Main, WrapperInv, TypeOK, Alive, Ends
<1>7. CASE RestoreDefault
  BY <1>7 DEF RestoreDefault, Main, WrapperInv, TypeOK, Alive
<1>8. CASE Raise
  BY <1>8 DEF Raise, Main, WrapperInv, TypeOK, Alive
<1>9. QED
  BY <1>1, <1>2, <1>3, <1>4, <1>5, <1>6, <1>7, <1>8

(* on_term goes through its statements in order; only the third can        *)
(* requeue, and it is left for good.                                       *)
LEMMA HandlerInv ==
  ASSUME WrapperInv, Enter \/ Show \/ Requeue \/ StopChild
  PROVE  WrapperInv'
<1>1. CASE Enter
  BY <1>1 DEF Enter, WrapperInv, TypeOK, Alive
<1>2. CASE Show
  <2>1. PICK state \in {job.state} \cup (IF ShowMayFail THEN {"None"} ELSE {}) :
          /\ Handle("show", IF Requeues(state) THEN "requeue" ELSE "child")
          /\ seen' = state
          /\ UNCHANGED <<job, child, exit>>
    BY <1>2 DEF Show
  <2>2. state \in {"None", "RUNNING", "CANCELLED"}
    BY DEF WrapperInv, TypeOK
  <2>3. hpc' \in {"requeue", "child"}
    BY <2>1 DEF Handle
  <2>4. QED
    BY <2>1, <2>2, <2>3 DEF Handle, WrapperInv, TypeOK, Alive
<1>3. CASE Requeue
  <2>1. job.requeues = 0 /\ job \in [state : {"RUNNING", "CANCELLED"}, requeues : Nat, refused : BOOLEAN]
    BY <1>3 DEF Requeue, Handle, WrapperInv, TypeOK
  <2>2. \/ job' = [job EXCEPT !.requeues = @ + 1]
        \/ job' = [job EXCEPT !.refused = TRUE]
    BY <1>3 DEF Requeue
  <2>3. job' \in [state : {"RUNNING", "CANCELLED"}, requeues : Nat, refused : BOOLEAN]
    <3>1. CASE job' = [job EXCEPT !.requeues = @ + 1]
      BY <2>1, <3>1
    <3>2. CASE job' = [job EXCEPT !.refused = TRUE]
      BY <2>1, <3>2
    <3>3. QED
      BY <2>2, <3>1, <3>2
  <2>4. job'.requeues <= 1
    <3>1. CASE job' = [job EXCEPT !.requeues = @ + 1]
      BY <2>1, <3>1
    <3>2. CASE job' = [job EXCEPT !.refused = TRUE]
      BY <2>1, <3>2
    <3>3. QED
      BY <2>2, <3>1, <3>2
  <2>5. QED
    BY <1>3, <2>3, <2>4 DEF Requeue, Handle, WrapperInv, TypeOK, Alive
<1>4. CASE StopChild
  BY <1>4 DEF StopChild, Handle, WrapperInv, TypeOK, Alive, Ends
<1>5. QED
  BY <1>1, <1>2, <1>3, <1>4

(* WrapperInv holds in every reachable state.                              *)
THEOREM WrapperInvariant == Spec => []WrapperInv
<1>1. WrapperInv /\ [Next]_vars => WrapperInv'
  <2>1. ASSUME WrapperInv, Next PROVE WrapperInv'
    BY <2>1, AroundInv, MainInv, HandlerInv DEF Next, Wrapper
  <2>2. ASSUME WrapperInv, UNCHANGED vars PROVE WrapperInv'
    BY <2>2 DEF vars, WrapperInv, TypeOK, Ends
  <2>3. QED
    BY <2>1, <2>2
<1>2. QED
  BY WrapperInit, <1>1, PTL DEF Spec

(* However often a job is signalled, it asks Slurm for one requeue at      *)
(* most: the second would send its next incarnation back to the queue.     *)
THEOREM RequeuedAtMostOnce == Spec => []RequeuedOnce
<1>1. WrapperInv => RequeuedOnce
  BY DEF WrapperInv, RequeuedOnce
<1>2. QED
  BY <1>1, WrapperInvariant, PTL

---------------------------------------------------------------------------
(* on_term runs only after something has hit the job; `seen' is what the   *)
(* job was then, and as neither a reclaim nor a cancel is ever taken back, *)
(* it remains the reason for what on_term did.                             *)
AnswerInv ==
  /\ "cancel" \in kills <=> job.state = "CANCELLED"
  /\ pending \/ hpc # "idle" \/ child = "TERM" => kills # {}
  /\ seen = "RUNNING" => "reclaim" \in kills
  /\ seen = "CANCELLED" => "cancel" \in kills
  /\ hpc = "requeue" \/ job.requeues > 0 => seen # "CANCELLED"
  /\ hpc = "child" => seen = "CANCELLED" \/ job.requeues = 1 \/ job.refused

(* The status main() passes on for a child that ended so.                  *)
Passed(end) == IF end = "KILL" THEN "error" ELSE end

(* main() knows how its child ended from the wait on; a wrapper nobody     *)
(* interfered with has passed it on.                                       *)
StatusInv ==
  /\ child = "none" <=> pc \in {"start", "fetch", "spawn"}
  /\ pc \in {"exit", "raise"} => rc = child /\ rc \in Ends
  /\ pc = "raise" => rc \in {"TERM", "SEGV"}
  /\ exit = "ok" => child = "ok"
  /\ ~Alive /\ kills = {} /\ child # "none" => child \in Ends /\ exit = Passed(child)

(* Only Show learns of the job, and only Requeue acts on what it learned;  *)
(* nobody takes a reclaim or a cancel back.                                *)
LEMMA AnswerStep ==
  ASSUME WrapperInv, AnswerInv, [Next]_vars
  PROVE  AnswerInv'
<1> USE WrapperAssumption DEF WrapperInv, TypeOK, AnswerInv, Alive, Ends
<1>1. CASE Reclaim
  BY <1>1 DEF Reclaim
<1>2. CASE Cancel
  BY <1>2 DEF Cancel
<1>3. CASE SignalWrapper
  BY <1>3 DEF SignalWrapper
<1>4. CASE SignalChild
  BY <1>4 DEF SignalChild
<1>5. CASE ChildEnds
  BY <1>5 DEF ChildEnds
<1>6. CASE Install
  BY <1>6 DEF Install, Main
<1>7. CASE Fetch
  BY <1>7 DEF Fetch, Main
<1>8. CASE Spawn
  BY <1>8 DEF Spawn, Main
<1>9. CASE Assign
  BY <1>9 DEF Assign, Main
<1>10. CASE Wait
  BY <1>10 DEF Wait, Main
<1>11. CASE Exit
  BY <1>11 DEF Exit, Main
<1>12. CASE RestoreDefault
  BY <1>12 DEF RestoreDefault, Main
<1>13. CASE Raise
  BY <1>13 DEF Raise, Main
<1>14. CASE Enter
  BY <1>14 DEF Enter
<1>15. CASE Show
  <2>1. PICK state \in {job.state} \cup (IF ShowMayFail THEN {"None"} ELSE {}) :
          /\ Handle("show", IF Requeues(state) THEN "requeue" ELSE "child")
          /\ seen' = state
          /\ UNCHANGED <<job, child, exit>>
    BY <1>15 DEF Show
  <2>2. state \in {"None", job.state} /\ job.state \in {"RUNNING", "CANCELLED"}
    OBVIOUS
  <2>3. kills # {} /\ (job.state = "RUNNING" => "reclaim" \in kills)
    BY <2>1 DEF Handle
  <2>4. QED
    BY <2>1, <2>2, <2>3 DEF Handle, Requeues
<1>16. CASE Requeue
  BY <1>16 DEF Requeue, Handle
<1>17. CASE StopChild
  BY <1>17 DEF StopChild, Handle
<1>18. CASE UNCHANGED vars
  BY <1>18 DEF vars
<1>19. QED
  BY <1>1, <1>2, <1>3, <1>4, <1>5, <1>6, <1>7, <1>8, <1>9, <1>10, <1>11, <1>12, <1>13, <1>14, <1>15, <1>16, <1>17, <1>18 DEF Next, Wrapper

(* The child ends once, main() reads its status once, and the wrapper      *)
(* leaves with that status unless on_term makes it leave earlier.          *)
LEMMA StatusStep ==
  ASSUME WrapperInv, AnswerInv, StatusInv, [Next]_vars
  PROVE  StatusInv'
<1> USE WrapperAssumption DEF WrapperInv, TypeOK, StatusInv, Alive, Ends, Passed
<1>1. CASE Reclaim
  BY <1>1 DEF Reclaim
<1>2. CASE Cancel
  BY <1>2 DEF Cancel
<1>3. CASE SignalWrapper
  BY <1>3 DEF SignalWrapper
<1>4. CASE SignalChild
  BY <1>4 DEF SignalChild
<1>5. CASE ChildEnds
  BY <1>5 DEF ChildEnds
<1>6. CASE Install
  BY <1>6 DEF Install, Main
<1>7. CASE Fetch
  BY <1>7 DEF Fetch, Main
<1>8. CASE Spawn
  BY <1>8 DEF Spawn, Main
<1>9. CASE Assign
  BY <1>9 DEF Assign, Main
<1>10. CASE Wait
  BY <1>10 DEF Wait, Main
<1>11. CASE Exit
  BY <1>11 DEF Exit, Main
<1>12. CASE RestoreDefault
  BY <1>12 DEF RestoreDefault, Main
<1>13. CASE Raise
  BY <1>13 DEF Raise, Main
<1>14. CASE Enter
  BY <1>14 DEF Enter
<1>15. CASE Show
  BY <1>15 DEF Show, Handle, Requeues
<1>16. CASE Requeue
  BY <1>16 DEF Requeue, Handle
<1>17. CASE StopChild
  <2>1. kills # {} /\ exit' = "error" /\ UNCHANGED <<kills, pc, rc>>
    BY <1>17 DEF StopChild, Handle, AnswerInv
  <2>2. child' = IF assigned /\ child = "running" THEN "TERM" ELSE child
    BY <1>17, Zenon DEF StopChild
  <2>3. /\ child = "none" <=> child' = "none"
        /\ child \in Ends => child' = child
    BY <2>2
  <2>4. QED
    BY <2>1, <2>3
<1>18. CASE UNCHANGED vars
  BY <1>18 DEF vars
<1>19. QED
  BY <1>1, <1>2, <1>3, <1>4, <1>5, <1>6, <1>7, <1>8, <1>9, <1>10, <1>11, <1>12, <1>13, <1>14, <1>15, <1>16, <1>17, <1>18 DEF Next, Wrapper

(* What on_term has been told, and what main() knows of its child, hold in *)
(* every reachable state.                                                  *)
LEMMA AnswerInvariant == Spec => [](AnswerInv /\ StatusInv)
<1>1. Init => AnswerInv /\ StatusInv
  BY DEF Init, AnswerInv, StatusInv, Alive
<1>2. WrapperInv /\ AnswerInv /\ StatusInv /\ [Next]_vars => (AnswerInv /\ StatusInv)'
  BY AnswerStep, StatusStep
<1>3. QED
  BY <1>1, <1>2, WrapperInvariant, PTL DEF Spec

(* A job that was only cancelled, or ran into its time limit, is not       *)
(* requeued when scontrol could tell its state: the only answer on_term    *)
(* can have got is the one that forbids it.                                *)
THEOREM CancelledJobsStay == Spec => []CancelledStaysCancelled
<1>1. WrapperInv /\ AnswerInv => CancelledStaysCancelled
  BY DEF WrapperInv, TypeOK, AnswerInv, CancelledStaysCancelled
<1>2. QED
  BY <1>1, WrapperInvariant, AnswerInvariant, PTL

(* A reclaim that interrupts the wrapper has asked for the job to be       *)
(* requeued by the time the wrapper is gone, unless the job was cancelled. *)
THEOREM ReclaimedJobsComeBack == Spec => []ReclaimedComesBack
<1>1. AnswerInv => ReclaimedComesBack
  BY DEF AnswerInv, ReclaimedComesBack
<1>2. QED
  BY <1>1, AnswerInvariant, PTL

(* Slurm hears of a success only when the simulation finished, and of the  *)
(* simulator's own end when nobody interfered.                             *)
THEOREM StatusIsPassedOn == Spec => []StatusIsTheChilds
<1>1. StatusInv => StatusIsTheChilds
  BY DEF StatusInv, StatusIsTheChilds, Passed, Ends
<1>2. QED
  BY <1>1, AnswerInvariant, PTL
===========================================================================
