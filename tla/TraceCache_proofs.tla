------------------------- MODULE TraceCache_proofs -------------------------
(***************************************************************************)
(* The node-local cache keeps its promises for any number of jobs, any     *)
(* assignment of checksums, and any jobs or nodes that die: CacheInv is    *)
(* inductive, the runs' invariants follow from it, and so does the         *)
(* refinement of AtomicCache, action by action.                            *)
(***************************************************************************)
EXTENDS TraceCache, FiniteSetTheorems, TLAPS

(* Where a job holds the flock of the cache entry.                         *)
Held == {"lookup", "verify", "evict", "source", "copy", "check", "publish",
         "cleanup", "publishedOk"}

(* The content is a whole trace, and the one the job insists on.           *)
Suits(j, content) == content \in Contents /\ want[j] \in {Any, content}

(* The flock is held by the one job that is inside it.                     *)
Locked == \A j \in Jobs : lock = j <=> pc[j] \in Held

(* What a job inside the flock knows of the entry and of its own copy, and *)
(* nobody can change behind its back.                                      *)
Knows(j) ==
  /\ pc[j] \in {"source", "copy", "check", "publish", "cleanup"} => entry = Absent
  /\ pc[j] \in {"verify", "evict"} => entry # Absent /\ want[j] # Any
  /\ pc[j] = "evict" => entry # want[j]
  /\ pc[j] = "check" => tmp[j] \in Contents
  /\ pc[j] = "publish" => Suits(j, tmp[j])
  /\ pc[j] = "publishedOk" => Suits(j, entry)
  /\ opened[j] # Absent => pc[j] = "done"

(* A partial trace is what a crash makes of an unsynced download.          *)
Whole ==
  /\ scheme = "path" => durable
  /\ entry = Torn => ~Survives
  /\ \A j \in Jobs : opened[j] = Torn => ~Survives

(* Jobs that agree: the entry still suits a job that is on its way to it,  *)
(* and once it was published nobody has a reason to replace it.            *)
Kept ==
  /\ Survives => \A j \in Jobs : /\ pc[j] = "open" => Suits(j, entry)
                                 /\ pc[j] = "done" => Suits(j, opened[j])
  /\ ~crashed /\ published # {} =>
       \E k \in Jobs : published = {k} /\ \A j \in Jobs : Suits(j, entry)

CacheInv ==
  /\ TypeOK
  /\ Locked
  /\ \A j \in Jobs : Knows(j)
  /\ Whole
  /\ Agreed => Kept

---------------------------------------------------------------------------
(* Every variable keeps its type.                                          *)
LEMMA TypeStep ==
  ASSUME TypeOK, [Next]_vars
  PROVE  TypeOK'
<1> USE CacheAssumption DEF TypeOK, Steps, File, Data, Ended, vars, disk, given, Keep, At
<1>1. ASSUME NEW j \in Jobs, Step(j) PROVE TypeOK'
  <2>1. CASE Lock(j)
    BY <2>1 DEF Lock
  <2>2. CASE Lookup(j)
    BY <2>2 DEF Lookup
  <2>3. CASE Verify(j)
    BY <2>3 DEF Verify
  <2>4. CASE Evict(j)
    BY <2>4 DEF Evict
  <2>5. CASE FindSource(j)
    BY <2>5 DEF FindSource
  <2>6. CASE Copy(j)
    BY <2>6 DEF Copy
  <2>7. CASE Check(j)
    BY <2>7 DEF Check
  <2>8. CASE Publish(j)
    BY <2>8 DEF Publish
  <2>9. CASE Return(j)
    BY <2>9 DEF Return
  <2>10. CASE Cleanup(j)
    BY <2>10 DEF Cleanup
  <2>11. CASE Open(j)
    BY <2>11 DEF Open
  <2>12. QED
    BY <1>1, <2>1, <2>2, <2>3, <2>4, <2>5, <2>6, <2>7, <2>8, <2>9, <2>10, <2>11 DEF Step
<1>2. ASSUME NEW j \in Jobs, Die(j) PROVE TypeOK'
  BY <1>2 DEF Die
<1>3. CASE NodeCrash
  BY <1>3 DEF NodeCrash
<1>4. CASE UNCHANGED vars
  BY <1>4 DEF vars
<1>5. QED
  BY <1>1, <1>2, <1>3, <1>4 DEF Next

(* A job takes the flock when nobody has it, and only its holder, or the   *)
(* death of it, gives it up.                                               *)
LEMMA LockedStep ==
  ASSUME TypeOK, Locked, [Next]_vars
  PROVE  Locked'
<1> USE CacheAssumption DEF TypeOK, Locked, Held, Ended, vars, disk, given, Keep, At
<1>1. ASSUME NEW j \in Jobs, Step(j) PROVE Locked'
  <2>1. CASE Lock(j)
    BY <2>1 DEF Lock
  <2>2. CASE Lookup(j)
    BY <2>2 DEF Lookup
  <2>3. CASE Verify(j)
    BY <2>3 DEF Verify
  <2>4. CASE Evict(j)
    BY <2>4 DEF Evict
  <2>5. CASE FindSource(j)
    BY <2>5 DEF FindSource
  <2>6. CASE Copy(j)
    BY <2>6 DEF Copy
  <2>7. CASE Check(j)
    BY <2>7 DEF Check
  <2>8. CASE Publish(j)
    BY <2>8 DEF Publish
  <2>9. CASE Return(j)
    BY <2>9 DEF Return
  <2>10. CASE Cleanup(j)
    BY <2>10 DEF Cleanup
  <2>11. CASE Open(j)
    BY <2>11 DEF Open
  <2>12. QED
    BY <1>1, <2>1, <2>2, <2>3, <2>4, <2>5, <2>6, <2>7, <2>8, <2>9, <2>10, <2>11 DEF Step
<1>2. ASSUME NEW j \in Jobs, Die(j) PROVE Locked'
  BY <1>2 DEF Die
<1>3. CASE NodeCrash
  BY <1>3 DEF NodeCrash
<1>4. CASE UNCHANGED vars
  BY <1>4 DEF vars
<1>5. QED
  BY <1>1, <1>2, <1>3, <1>4 DEF Next

(* What a job has found out inside the flock stays so until it leaves it:  *)
(* the entry is only changed by the holder and by a crash, which ends it.  *)
LEMMA KnowsStep ==
  ASSUME CacheInv, [Next]_vars
  PROVE  \A i \in Jobs : Knows(i)'
<1> USE CacheAssumption DEF CacheInv, Survives, Whole, TypeOK, Locked, Held, Knows, Suits, File, Data, Ended, vars, disk, given, Keep, At
<1>1. ASSUME NEW j \in Jobs, Step(j) PROVE \A i \in Jobs : Knows(i)'
  <2>1. CASE Lock(j)
    BY <2>1 DEF Lock
  <2>2. CASE Lookup(j)
    BY <2>2 DEF Lookup
  <2>3. CASE Verify(j)
    BY <2>3 DEF Verify
  <2>4. CASE Evict(j)
    BY <2>4 DEF Evict
  <2>5. CASE FindSource(j)
    BY <2>5 DEF FindSource
  <2>6. CASE Copy(j)
    BY <2>6 DEF Copy
  <2>7. CASE Check(j)
    BY <2>7 DEF Check
  <2>8. CASE Publish(j)
    BY <2>8 DEF Publish
  <2>9. CASE Return(j)
    BY <2>9 DEF Return
  <2>10. CASE Cleanup(j)
    BY <2>10 DEF Cleanup
  <2>11. CASE Open(j)
    BY <2>11 DEF Open
  <2>12. QED
    BY <1>1, <2>1, <2>2, <2>3, <2>4, <2>5, <2>6, <2>7, <2>8, <2>9, <2>10, <2>11 DEF Step
<1>2. ASSUME NEW j \in Jobs, Die(j) PROVE \A i \in Jobs : Knows(i)'
  BY <1>2 DEF Die
<1>3. CASE NodeCrash
  BY <1>3 DEF NodeCrash
<1>4. CASE UNCHANGED vars
  BY <1>4 DEF vars
<1>5. QED
  BY <1>1, <1>2, <1>3, <1>4 DEF Next

(* Data that was not synced is all a crash can tear.                       *)
LEMMA WholeStep ==
  ASSUME CacheInv, [Next]_vars
  PROVE  Whole'
<1> USE CacheAssumption DEF CacheInv, Survives, Whole, TypeOK, Locked, Held, Knows, Suits, File, Data, Ended, vars, disk, given, Keep, At
<1>1. ASSUME NEW j \in Jobs, Step(j) PROVE Whole'
  <2>1. CASE Lock(j)
    BY <2>1 DEF Lock
  <2>2. CASE Lookup(j)
    BY <2>2 DEF Lookup
  <2>3. CASE Verify(j)
    BY <2>3 DEF Verify
  <2>4. CASE Evict(j)
    BY <2>4 DEF Evict
  <2>5. CASE FindSource(j)
    BY <2>5 DEF FindSource
  <2>6. CASE Copy(j)
    BY <2>6 DEF Copy
  <2>7. CASE Check(j)
    BY <2>7 DEF Check
  <2>8. CASE Publish(j)
    BY <2>8 DEF Publish
  <2>9. CASE Return(j)
    BY <2>9 DEF Return
  <2>10. CASE Cleanup(j)
    BY <2>10 DEF Cleanup
  <2>11. CASE Open(j)
    BY <2>11 DEF Open
  <2>12. QED
    BY <1>1, <2>1, <2>2, <2>3, <2>4, <2>5, <2>6, <2>7, <2>8, <2>9, <2>10, <2>11 DEF Step
<1>2. ASSUME NEW j \in Jobs, Die(j) PROVE Whole'
  BY <1>2 DEF Die
<1>3. CASE NodeCrash
  BY <1>3 DEF NodeCrash
<1>4. CASE UNCHANGED vars
  BY <1>4 DEF vars
<1>5. QED
  BY <1>1, <1>2, <1>3, <1>4 DEF Next

(* Among jobs that agree nobody evicts or replaces what suits one of them. *)
LEMMA KeptStep ==
  ASSUME CacheInv, Agreed, [Next]_vars
  PROVE  Kept'
<1> USE CacheAssumption DEF CacheInv, Survives, Whole, Kept, Agreed, TypeOK, Locked, Held, Knows, Suits, File, Data, Ended, vars, disk, given, Keep, At
<1>1. ASSUME NEW j \in Jobs, Step(j) PROVE Kept'
  <2>1. CASE Lock(j)
    BY <2>1 DEF Lock
  <2>2. CASE Lookup(j)
    BY <2>2 DEF Lookup
  <2>3. CASE Verify(j)
    BY <2>3 DEF Verify
  <2>4. CASE Evict(j)
    BY <2>4 DEF Evict
  <2>5. CASE FindSource(j)
    BY <2>5 DEF FindSource
  <2>6. CASE Copy(j)
    BY <2>6 DEF Copy
  <2>7. CASE Check(j)
    BY <2>7 DEF Check
  <2>8. CASE Publish(j)
    BY <2>8 DEF Publish
  <2>9. CASE Return(j)
    BY <2>9 DEF Return
  <2>10. CASE Cleanup(j)
    BY <2>10 DEF Cleanup
  <2>11. CASE Open(j)
    BY <2>11 DEF Open
  <2>12. QED
    BY <1>1, <2>1, <2>2, <2>3, <2>4, <2>5, <2>6, <2>7, <2>8, <2>9, <2>10, <2>11 DEF Step
<1>2. ASSUME NEW j \in Jobs, Die(j) PROVE Kept'
  BY <1>2 DEF Die
<1>3. CASE NodeCrash
  BY <1>3 DEF NodeCrash
<1>4. CASE UNCHANGED vars
  BY <1>4 DEF vars
<1>5. QED
  BY <1>1, <1>2, <1>3, <1>4 DEF Next

(* No step changes what the jobs were given.                               *)
LEMMA GivenStays == [Next]_vars => UNCHANGED <<want, source, scheme>>
  BY DEF Next, vars, given, Keep, Step, Lock, Lookup, Verify, Evict, FindSource, Copy,
         Check, Publish, Return, Cleanup, Open, Die, NodeCrash

(* CacheInv holds in every reachable state.                                *)
THEOREM CacheInvariant == Spec => []CacheInv
<1>1. Init => CacheInv
  <2> SUFFICES ASSUME Init PROVE CacheInv
    OBVIOUS
  <2>1. TypeOK
    BY CacheAssumption DEF Init, TypeOK, File, Data, Steps
  <2>2. Locked /\ \A j \in Jobs : Knows(j)
    BY CacheAssumption DEF Init, Locked, Knows, Held
  <2>3. Whole /\ Kept
    BY CacheAssumption DEF Init, Whole, Kept
  <2>4. QED
    BY <2>1, <2>2, <2>3 DEF CacheInv
<1>2. CacheInv /\ [Next]_vars => CacheInv'
  <2> SUFFICES ASSUME CacheInv, [Next]_vars PROVE CacheInv'
    OBVIOUS
  <2>1. TypeOK' /\ Locked'
    BY TypeStep, LockedStep DEF CacheInv
  <2>2. (\A i \in Jobs : Knows(i))' /\ Whole'
    BY KnowsStep, WholeStep
  <2>3. Agreed' => Kept'
    BY KeptStep, GivenStays DEF Agreed
  <2>4. QED
    BY <2>1, <2>2, <2>3 DEF CacheInv
<1>3. QED
  BY <1>1, <1>2, PTL DEF Spec

(* Jobs that agree on the trace simulate that trace, whoever dies and      *)
(* whenever, unless a crash has torn a download.                           *)
THEOREM AgreeingJobsGetIt == Spec => []OpensWhatItAskedFor
<1>1. CacheInv => OpensWhatItAskedFor
  BY DEF CacheInv, Kept, Suits, OpensWhatItAskedFor
<1>2. QED
  BY <1>1, CacheInvariant, PTL

(* A copy from a path is never read in part, even by jobs that disagree    *)
(* and on a node that crashes: the data is on the disk before its name is. *)
THEOREM PathIsNeverTorn == Spec => []NeverTornFromPath
<1>1. CacheInv => NeverTornFromPath
  BY DEF CacheInv, Whole, NeverTornFromPath, NeverTorn
<1>2. QED
  BY <1>1, CacheInvariant, PTL

(* Jobs that agree fetch the trace at most once until the node crashes.    *)
THEOREM PublishedAtMostOnce == Spec => []PublishedOnce
<1>1. ASSUME CacheInv, Agreed, ~crashed PROVE Cardinality(published) <= 1
  <2>1. published = {} \/ \E k \in Jobs : published = {k}
    BY <1>1 DEF CacheInv, Kept
  <2>2. CASE published = {}
    BY <2>2, FS_EmptySet
  <2>3. CASE \E k \in Jobs : published = {k}
    BY <2>3, FS_Singleton
  <2>4. QED
    BY <2>1, <2>2, <2>3
<1>2. CacheInv => PublishedOnce
  BY <1>1 DEF PublishedOnce
<1>3. QED
  BY <1>2, CacheInvariant, PTL

---------------------------------------------------------------------------
(* The refinement.  What AtomicCache sees of a job that goes on to x.      *)
OutcomeAt(x) ==
  CASE x \in {"failed", "killed"} -> "failed"
    [] x \in {"open", "done"} -> "returned"
    [] OTHER -> "waiting"

(* Nobody reads the trace before the last step, so outcome is a function   *)
(* of where the job is.                                                    *)
LEMMA OutcomeIs ==
  ASSUME CacheInv
  PROVE  outcome = [j \in Jobs |-> OutcomeAt(pc[j])]
BY DEF CacheInv, Knows, outcome, OutcomeAt

(* The same after a step.                                                  *)
LEMMA OutcomeIsThen ==
  ASSUME CacheInv'
  PROVE  outcome' = [j \in Jobs |-> OutcomeAt(pc[j]')]
BY DEF CacheInv, Knows, outcome, OutcomeAt

(* A job that goes on to x shows in its own outcome alone.                 *)
LEMMA StepMoves ==
  ASSUME CacheInv, CacheInv', NEW j \in Jobs, NEW x,
         pc' = [pc EXCEPT ![j] = x]
  PROVE  outcome' = [outcome EXCEPT ![j] = OutcomeAt(x)]
<1>1. pc \in [Jobs -> Steps]
  BY DEF CacheInv, TypeOK
<1>2. QED
  BY <1>1, OutcomeIs, OutcomeIsThen

(* Inside fetch() a job changes nothing that AtomicCache can see, unless   *)
(* it changes the entry.                                                   *)
LEMMA Unseen ==
  ASSUME CacheInv, CacheInv', NEW j \in Jobs,
         pc[j] \in Held \cup {"start"}, NEW x \in Held, pc' = [pc EXCEPT ![j] = x]
  PROVE  outcome' = outcome /\ outcome[j] = "waiting"
<1>1. outcome' = [outcome EXCEPT ![j] = "waiting"]
  BY StepMoves DEF Held, OutcomeAt
<1>2. outcome = [i \in Jobs |-> OutcomeAt(pc[i])] /\ outcome[j] = "waiting"
  BY OutcomeIs DEF Held, OutcomeAt
<1>3. QED
  BY <1>1, <1>2

(* A job that fails, or dies, is a failure of the abstract cache.          *)
LEMMA Failed ==
  ASSUME CacheInv, CacheInv', NEW j \in Jobs, NEW x \in {"failed", "killed"},
         pc' = [pc EXCEPT ![j] = x], UNCHANGED <<want, entry>>
  PROVE  Atomic!Fail
<1>1. outcome' = [outcome EXCEPT ![j] = "failed"]
  BY StepMoves DEF OutcomeAt
<1>2. outcome' = [i \in Jobs |-> IF i \in {j} THEN "failed" ELSE outcome[i]]
  BY <1>1, OutcomeIs
<1>3. QED
  BY <1>2 DEF Atomic!Fail

(* A job that is given the path finds the trace it asked for behind it.    *)
LEMMA Returned ==
  ASSUME CacheInv, CacheInv', NEW j \in Jobs, pc[j] \in Held,
         pc' = [pc EXCEPT ![j] = "open"], Suits(j, entry), UNCHANGED <<want, entry>>
  PROVE  Atomic!Return(j)
<1>1. outcome' = [outcome EXCEPT ![j] = "returned"]
  BY StepMoves DEF OutcomeAt
<1>2. outcome[j] = "waiting"
  BY OutcomeIs DEF Held, OutcomeAt
<1>3. QED
  BY <1>1, <1>2 DEF Atomic!Return, Atomic!Waiting, Atomic!Suits, Suits

(* Each step of a job is one of the abstract cache, or none.               *)
LEMMA JobRefines ==
  ASSUME CacheInv, CacheInv', Survives, NEW j \in Jobs, Step(j) \/ Die(j)
  PROVE  [Atomic!Next]_(Atomic!cache)
<1> USE DEF At, Keep, given, disk
<1> DEFINE Stutter == UNCHANGED Atomic!cache
<1>1. entry \in File /\ entry # Torn /\ Knows(j) /\ want[j] \in Contents \cup {Any}
  BY CacheAssumption DEF CacheInv, Whole, TypeOK
<1>2. ASSUME NEW x \in Held, pc[j] \in Held \cup {"start"}, pc' = [pc EXCEPT ![j] = x],
             UNCHANGED <<want, entry>>
      PROVE  Stutter
  BY <1>2, Unseen DEF Atomic!cache
<1>3. CASE Lock(j)
  BY <1>2, <1>3 DEF Lock, Held
<1>4. CASE Lookup(j)
  <2>1. CASE pc' = [pc EXCEPT ![j] = "open"]
    <3>1. Suits(j, entry)
      BY <1>1, <1>4, <2>1 DEF Lookup, Suits, File, Data, CacheInv, TypeOK
    <3>2. QED
      BY <1>4, <2>1, <3>1, Returned DEF Lookup, Held, Atomic!Next
  <2>2. CASE pc' # [pc EXCEPT ![j] = "open"]
    BY <1>2, <1>4, <2>2 DEF Lookup, Held
  <2>3. QED
    BY <2>1, <2>2
<1>5. CASE Verify(j)
  <2>1. CASE entry = want[j]
    <3>1. Suits(j, entry)
      BY <1>1, <1>5, <2>1 DEF Verify, Knows, Suits
    <3>2. QED
      BY <1>5, <2>1, <3>1, Returned DEF Verify, Held, Atomic!Next
  <2>2. CASE entry # want[j]
    BY <1>2, <1>5, <2>2 DEF Verify, Held
  <2>3. QED
    BY <2>1, <2>2
<1>6. CASE Evict(j)
  <2>1. outcome' = outcome /\ outcome[j] = "waiting"
    BY <1>6, Unseen DEF Evict, Held
  <2>2. entry # Absent /\ ~Suits(j, entry)
    BY <1>1, <1>6 DEF Evict, Knows, Suits
  <2>3. Atomic!Evict
    BY <1>6, <2>1, <2>2 DEF Evict, Suits, Atomic!Evict, Atomic!Waiting, Atomic!Suits
  <2>4. QED
    BY <2>3 DEF Atomic!Next
<1>7. CASE FindSource(j)
  <2>1. CASE pc' = [pc EXCEPT ![j] = "failed"]
    BY <1>7, <2>1, Failed DEF FindSource, Atomic!Next
  <2>2. CASE pc' # [pc EXCEPT ![j] = "failed"]
    BY <1>2, <1>7, <2>2 DEF FindSource, Held
  <2>3. QED
    BY <2>1, <2>2
<1>8. CASE Copy(j)
  BY <1>2, <1>8 DEF Copy, Held
<1>9. CASE Check(j)
  BY <1>2, <1>9 DEF Check, Held
<1>10. CASE Publish(j)
  <2>1. outcome' = outcome /\ outcome[j] = "waiting"
    BY <1>10, Unseen DEF Publish, Held
  <2>2. entry = Absent /\ Suits(j, entry')
    BY <1>1, <1>10 DEF Publish, Knows
  <2>3. Atomic!Publish
    BY <1>10, <2>1, <2>2 DEF Publish, Suits, Atomic!Publish, Atomic!Waiting, Atomic!Suits
  <2>4. QED
    BY <2>3 DEF Atomic!Next
<1>11. CASE Return(j)
  BY <1>1, <1>11, Returned DEF Return, Knows, Held, Atomic!Next
<1>12. CASE Cleanup(j)
  BY <1>12, Failed DEF Cleanup, Atomic!Next
<1>13. CASE Open(j)
  <2>1. outcome' = [outcome EXCEPT ![j] = "returned"]
    BY <1>13, StepMoves DEF Open, OutcomeAt
  <2>2. outcome = [i \in Jobs |-> OutcomeAt(pc[i])] /\ outcome[j] = "returned"
    BY <1>13, OutcomeIs DEF Open, OutcomeAt
  <2>3. QED
    BY <1>13, <2>1, <2>2 DEF Open, Atomic!cache
<1>14. CASE Die(j)
  BY <1>14, Failed DEF Die, Atomic!Next
<1>15. QED
  BY <1>3, <1>4, <1>5, <1>6, <1>7, <1>8, <1>9, <1>10, <1>11, <1>12, <1>13, <1>14 DEF Step

(* A crash of a node whose data was on the disk fails the jobs that had    *)
(* begun, and may lose the name of the entry.                              *)
LEMMA CrashRefines ==
  ASSUME CacheInv, CacheInv', Survives', NodeCrash
  PROVE  Atomic!Fail
<1> DEFINE dead == {j \in Jobs : pc'[j] = "killed"}
<1>1. scheme = "path" /\ durable
  BY DEF NodeCrash, Survives, Keep, given, CacheInv, Whole
<1>2. entry' \in {entry, Absent} /\ UNCHANGED want
  BY <1>1 DEF NodeCrash, Keep, given
<1>3. \A j \in Jobs : OutcomeAt(pc'[j]) = IF j \in dead THEN "failed" ELSE OutcomeAt(pc[j])
  BY DEF NodeCrash, OutcomeAt, Ended
<1>4. outcome' = [j \in Jobs |-> IF j \in dead THEN "failed" ELSE outcome[j]]
  BY <1>3, OutcomeIs, OutcomeIsThen
<1>5. QED
  BY <1>2, <1>4 DEF Atomic!Fail

(* fetch(), with its lock, its temporary file, its checksums and all that  *)
(* can die in it, implements the cache that publishes and evicts whole     *)
(* entries and never hands out a path in vain.                             *)
THEOREM FetchImplementsAtomicCache == Spec => ImplementsAtomicCache
<1>1. Init => Atomic!Init
  <2> SUFFICES ASSUME Init PROVE Atomic!Init
    OBVIOUS
  <2>1. want \in [Jobs -> Contents \cup {Any}] /\ entry \in Contents \cup {Absent}
    BY CacheAssumption DEF Init
  <2>2. outcome = [j \in Jobs |-> "waiting"]
    BY DEF Init, outcome
  <2>3. QED
    BY <2>1, <2>2 DEF Atomic!Init
<1>2. CacheInv /\ CacheInv' /\ [Next]_vars => (Survives' => [Atomic!Next]_(Atomic!cache))
  <2> SUFFICES ASSUME CacheInv, CacheInv', [Next]_vars, Survives'
               PROVE  [Atomic!Next]_(Atomic!cache)
    OBVIOUS
  <2>1. CASE \E j \in Jobs : Step(j) \/ Die(j)
    <3>1. Survives
      BY <2>1 DEF Survives, Step, Lock, Lookup, Verify, Evict, FindSource, Copy, Check,
                  Publish, Return, Cleanup, Open, Die, Keep, given, disk
    <3>2. QED
      BY <2>1, <3>1, JobRefines
  <2>2. CASE NodeCrash
    BY <2>2, CrashRefines DEF Atomic!Next
  <2>3. CASE UNCHANGED vars
    BY <2>3 DEF vars, outcome, Atomic!cache
  <2>4. QED
    BY <2>1, <2>2, <2>3 DEF Next
<1>3. QED
  BY <1>1, <1>2, CacheInvariant, PTL DEF Spec, ImplementsAtomicCache
============================================================================
