------------------------ MODULE SubmitBatch_proofs ------------------------
(***************************************************************************)
(* What submit promises for any number of submit commands, checkouts and   *)
(* jobs, wherever one is killed or loses its connection.                   *)
(*                                                                         *)
(* Two claims carry everything.  A batch id belongs, within a checkout, to *)
(* the one submit that still answers for its ledger (OwnLedger: the file   *)
(* is created exclusively, and whoever removes it has queued nothing), and *)
(* across checkouts to the one that has passed the plain mkdir of its run  *)
(* directory (OwnDir).                                                     *)
(***************************************************************************)
EXTENDS SubmitBatch, TLAPS

Beyond == {"creating", "record", "saving", "done"}

(* create_jobfile is at work for s, or has queued jobs.                    *)
Queues(s) == remote[s] \in {"exe", "smoke", "sbatch"} \/ Launched(s) # {}

(* s answers for the ledger file of its batch.                             *)
HasLedger(s) == pc[s] \in Preparing \cup Beyond \/ Queues(s)

(* s has passed the mkdir of its run directory, and it may still matter.   *)
HasDir(s) ==
  pc[s] \in (Preparing \ {"stage"}) \cup Beyond \/ remote[s] # "idle" \/ Launched(s) # {}

OwnLedger ==
  /\ \A s \in Submits : HasLedger(s) => id[s] \in Ids /\ ledger[checkout[s]][id[s]] # Absent
  /\ \A s, t \in Submits :
       s # t /\ checkout[s] = checkout[t] /\ HasLedger(s) /\ HasLedger(t) => id[s] # id[t]

OwnDir ==
  /\ \A s \in Submits : HasDir(s) => id[s] \in Ids /\ rundir[id[s]].made
  /\ \A s, t \in Submits : s # t /\ HasDir(s) /\ HasDir(t) => id[s] # id[t]

(* How far a submit, its remote command and its report have come belongs   *)
(* together; what it has saved lists what it has queued.                   *)
Coherent(s) ==
  /\ pc[s] \in {"start", "claim"} \cup (Preparing \ {"syncing", "building"}) => remote[s] = "idle"
  /\ pc[s] \in {"start", "claim"} \cup Preparing => Launched(s) = {} /\ report[s] = "none"
  /\ remote[s] = "rsync" => pc[s] \in {"syncing", "failed", "killed"} /\ Launched(s) = {}
  /\ remote[s] = "build" => pc[s] \in {"building", "failed", "killed"} /\ Launched(s) = {}
  /\ remote[s] \in {"exe", "smoke"} => Launched(s) = {}
  /\ remote[s] \in {"exe", "smoke", "sbatch"} =>
       pc[s] \in {"creating", "record", "failed", "killed"} /\ report[s] = "none"
  /\ pc[s] = "creating" => report[s] = "none"
  /\ report[s] = "error" => Launched(s) = {}
  /\ pc[s] \in {"saving", "done"} => report[s] \in {"ok", "partial"}
  /\ pc[s] = "done" => ledger[checkout[s]][id[s]] = Recorded(s)

SubmitInv ==
  /\ TypeOK
  /\ OwnLedger
  /\ OwnDir
  /\ \A s \in Submits : Coherent(s)

(* s has the lock of its checkout.                                         *)
InLock(s) == pc[s] \in {"claim", "creating"} \cup Preparing

(* While checkouts take turns and what a submit has started dies with it   *)
(* and its connection, one submit at a time works on the live tree, and everything *)
(* it finds there is its own.                                              *)
Mine(s) ==
  /\ remote[s] # "idle" => pc[s] \in {"syncing", "building", "creating"}
  /\ pc[s] \in {"build", "building", "snapshot", "create", "creating"}
        \/ (pc[s] = "syncing" /\ remote[s] = "idle") => live.src = s
  /\ remote[s] = "build" => building[s] = s
  /\ pc[s] \in {"snapshot", "create", "creating"} \/ (pc[s] = "building" /\ remote[s] = "idle")
       => live.bin = s
  /\ pc[s] \in {"create", "creating"} => rundir[id[s]].config = s
  /\ remote[s] \in {"smoke", "sbatch"} => rundir[id[s]].exe = s
  /\ Launched(s) # {} => rundir[id[s]].config = s /\ rundir[id[s]].exe = s

TakesTurns ==
  /\ \A s \in Submits : lock[checkout[s]] = s <=> InLock(s)
  /\ ~overlap => \A s, t \in Submits : s # t => ~(InLock(s) /\ InLock(t))

TreeInv == TakesTurns /\ (~overlap /\ ~orphaned => \A s \in Submits : Mine(s))

---------------------------------------------------------------------------
(* What was queued is told by the jobs alone.                              *)
LEMMA LaunchedStays ==
  UNCHANGED job => \A t \in Submits : Launched(t)' = Launched(t)
BY DEF Launched

(* A ledger is only ever given a ledger's text.                            *)
LEMMA Texts ==
  ASSUME NEW s \in Submits
  PROVE  Placeholder \in LedgerText /\ Recorded(s) \in LedgerText
BY DEF Placeholder, Recorded, LedgerText, Launched

LEMMA LedgerTyped ==
  ASSUME TypeOK, NEW s \in Submits, NEW text \in LedgerText \cup {Absent, Empty},
         Ledgered(s, text)
  PROVE  ledger' \in [Checkouts -> [Ids -> LedgerText \cup {Absent, Empty}]]
BY DEF TypeOK, Ledgered

LEMMA LockTyped ==
  ASSUME TypeOK, NEW s \in Submits, Unlock(s)
  PROVE  lock' \in [Checkouts -> Submits \cup {None}]
BY DEF TypeOK, Unlock

RunDirs ==
  [Ids -> [made : BOOLEAN, config : Submits \cup {None}, exe : Submits \cup {None}]]

LEMMA RunDirTyped ==
  ASSUME rundir \in RunDirs, NEW b, NEW x \in Submits \cup {None},
         \/ rundir' = [rundir EXCEPT ![b].made = TRUE]
         \/ rundir' = [rundir EXCEPT ![b].config = x]
         \/ rundir' = [rundir EXCEPT ![b].exe = x]
  PROVE  rundir' \in RunDirs
<1>1. CASE rundir' = [rundir EXCEPT ![b].made = TRUE]
  BY <1>1 DEF RunDirs
<1>2. CASE rundir' = [rundir EXCEPT ![b].config = x]
  BY <1>2 DEF RunDirs
<1>3. CASE rundir' = [rundir EXCEPT ![b].exe = x]
  BY <1>3 DEF RunDirs
<1>4. QED
  BY <1>1, <1>2, <1>3

LEMMA ReportTyped ==
  ASSUME TypeOK, NEW s \in Submits, NEW r \in {"none", "error", "partial", "ok"},
         Report(s, r), UNCHANGED <<rundir, job, live, building, ledger, overlap, orphaned>>
  PROVE  TypeOK'
<1>1. lock' \in [Checkouts -> Submits \cup {None}]
  BY LockTyped DEF Report, TypeOK
<1>2. QED
  BY <1>1 DEF Report, TypeOK, Preparing, SubmitEnded

(* Every variable keeps its type.                                          *)
LEMMA TypeStep ==
  ASSUME NEW s \in Submits, TypeOK, 
         Local(s) \/ Remote(s) \/ LoseConnection(s) \/ HangUp(s) \/ Die(s)
  PROVE  TypeOK'
<1> USE SubmitAssumption DEF TypeOK, Preparing, SubmitEnded, subs, tree
<1>1. CASE Lock(s)
  BY <1>1 DEF Lock, At
<1>2. CASE claim_ledger(s)
  <2>1. PICK b \in Ids :
          \/ /\ ledger[checkout[s]][b] = Absent
             /\ At(s, "claim", "stage")
             /\ id' = [id EXCEPT ![s] = b]
             /\ ledger' = [ledger EXCEPT ![checkout[s]][b] = Placeholder]
             /\ UNCHANGED <<checkout, lock, report, tree, overlap, orphaned>>
          \/ /\ ledger[checkout[s]][b] # Absent
             /\ At(s, "claim", "failed")
             /\ Unlock(s)
             /\ UNCHANGED <<checkout, id, report, tree, ledger, overlap, orphaned>>
    BY <1>2 DEF claim_ledger
  <2>2. CASE Unlock(s) /\ At(s, "claim", "failed") /\ UNCHANGED <<checkout, id, report, tree, ledger, overlap, orphaned>>
    BY <2>2, LockTyped DEF At
  <2>3. CASE /\ At(s, "claim", "stage")
             /\ id' = [id EXCEPT ![s] = b]
             /\ ledger' = [ledger EXCEPT ![checkout[s]][b] = Placeholder]
             /\ UNCHANGED <<checkout, lock, report, tree, overlap, orphaned>>
    <3>1. ledger' \in [Checkouts -> [Ids -> LedgerText \cup {Absent, Empty}]]
      BY <2>3, Texts
    <3>2. QED
      BY <2>3, <3>1 DEF At
  <2>4. QED
    BY <2>1, <2>2, <2>3
<1>3. CASE Stage(s)
  BY <1>3, RunDirTyped DEF Stage, At, RunDirs
<1>4. CASE StartSync(s)
  BY <1>4 DEF StartSync, At
<1>21. CASE Synced(s)
  BY <1>21 DEF Synced, At
<1>22. CASE rsync(s)
  BY <1>22 DEF rsync
<1>5. CASE StartBuild(s)
  BY <1>5 DEF StartBuild, At
<1>6. CASE Built(s)
  BY <1>6 DEF Built, At
<1>7. CASE Snapshot(s)
  BY <1>7, RunDirTyped DEF Snapshot, At, RunDirs
<1>8. CASE PrepareFails(s)
  BY <1>8, LockTyped, LedgerTyped DEF PrepareFails
<1>9. CASE StartCreate(s)
  BY <1>9 DEF StartCreate, At
<1>10. CASE Record(s)
  BY <1>10, LedgerTyped DEF Record, At
<1>11. CASE SaveRecord(s)
  BY <1>11, LedgerTyped, Texts DEF SaveRecord, At
<1>12. CASE Build(s)
  BY <1>12 DEF Build
<1>13. CASE snapshot_exe(s)
  <2>1. CASE rundir' = [rundir EXCEPT ![id[s]].exe = live.bin] /\ remote' = [remote EXCEPT ![s] = "smoke"] /\ UNCHANGED <<subs, job>>
    BY <1>13, <2>1, RunDirTyped DEF snapshot_exe, Remotely, RunDirs
  <2>2. CASE \E r \in {"none", "error"} : Report(s, r) /\ UNCHANGED <<rundir, job>>
    BY <1>13, <2>2, ReportTyped DEF snapshot_exe, Remotely
  <2>3. QED
    BY <1>13, <2>1, <2>2 DEF snapshot_exe
<1>14. CASE run_smoke(s)
  BY <1>14, ReportTyped DEF run_smoke, Remotely
<1>15. CASE sbatch(s)
  <2>1. job' \in [AllJobs -> {"none", "queued", "refused"}]
    BY <1>15 DEF sbatch
  <2>2. QED
    BY <1>15, <2>1 DEF sbatch, Remotely
<1>16. CASE Submitted(s)
  <2>1. PICK r \in {"none", "error", "partial", "ok"} : Report(s, r)
    BY <1>16 DEF Submitted
  <2>2. QED
    BY <1>16, <2>1, ReportTyped DEF Submitted, Remotely
<1>17. CASE LoseConnection(s)
  BY <1>17, LockTyped DEF LoseConnection, At
<1>18. CASE HangUp(s)
  BY <1>18 DEF HangUp
<1>19. CASE Die(s)
  BY <1>19, LockTyped DEF Die
<1>20. QED
  BY <1>1, <1>2, <1>3, <1>4, <1>5, <1>6, <1>7, <1>8, <1>9, <1>10, <1>11, <1>12, <1>13, <1>14, <1>15, <1>16, <1>17, <1>18, <1>19, <1>21, <1>22 DEF Local, Remote

---------------------------------------------------------------------------
(* A step of s leaves alone what belongs to the other submits.             *)
Frame(s) ==
  /\ checkout' = checkout
  /\ \A t \in Submits \ {s} :
       /\ pc'[t] = pc[t] /\ id'[t] = id[t] /\ report'[t] = report[t]
       /\ remote'[t] = remote[t] /\ building'[t] = building[t]
       /\ Launched(t)' = Launched(t)
  /\ \A c \in Checkouts, b \in Ids :
       c # checkout[s] \/ b # id'[s] => ledger'[c][b] = ledger[c][b]
  /\ \A b \in Ids : b # id[s] => rundir'[b] = rundir[b]
  /\ \A b \in Ids : rundir[b].made => rundir'[b].made

(* The only step that queues a job queues one of s.                        *)
LEMMA sbatchIsOwn ==
  ASSUME TypeOK, NEW s \in Submits, sbatch(s), NEW t \in Submits \ {s}
  PROVE  Launched(t)' = Launched(t)
<1>1. \A j \in {t} \X Tags : job'[j] = job[j]
  BY DEF sbatch, Untried, TypeOK, AllJobs
<1>2. QED
  BY <1>1 DEF Launched

LEMMA FrameStep ==
  ASSUME NEW s \in Submits, TypeOK, 
         Local(s) \/ Remote(s) \/ LoseConnection(s) \/ HangUp(s) \/ Die(s)
  PROVE  Frame(s)
<1> USE SubmitAssumption DEF TypeOK, Preparing, SubmitEnded, Frame, subs, tree
<1>1. CASE Lock(s)
  BY <1>1, LaunchedStays DEF Lock, At
<1>2. CASE claim_ledger(s)
  BY <1>2, LaunchedStays DEF claim_ledger, At, Unlock, Placeholder
<1>3. CASE Stage(s)
  BY <1>3, LaunchedStays DEF Stage, At
<1>4. CASE StartSync(s)
  BY <1>4, LaunchedStays DEF StartSync, At
<1>21. CASE Synced(s)
  BY <1>21, LaunchedStays DEF Synced, At
<1>22. CASE rsync(s)
  BY <1>22, LaunchedStays DEF rsync
<1>5. CASE StartBuild(s)
  BY <1>5, LaunchedStays DEF StartBuild, At
<1>6. CASE Built(s)
  BY <1>6, LaunchedStays DEF Built, At
<1>7. CASE Snapshot(s)
  BY <1>7, LaunchedStays DEF Snapshot, At
<1>8. CASE PrepareFails(s)
  BY <1>8, LaunchedStays DEF PrepareFails, Unlock, Ledgered
<1>9. CASE StartCreate(s)
  BY <1>9, LaunchedStays DEF StartCreate, At
<1>10. CASE Record(s)
  BY <1>10, LaunchedStays DEF Record, At, Ledgered
<1>11. CASE SaveRecord(s)
  BY <1>11, LaunchedStays DEF SaveRecord, At, Ledgered
<1>12. CASE Build(s)
  BY <1>12, LaunchedStays DEF Build
<1>13. CASE snapshot_exe(s)
  <2>1. CASE rundir' = [rundir EXCEPT ![id[s]].exe = live.bin] /\ remote' = [remote EXCEPT ![s] = "smoke"] /\ UNCHANGED <<subs, job>>
    BY <1>13, <2>1, LaunchedStays DEF snapshot_exe, Remotely
  <2>2. CASE \E r \in {"none", "error"} : Report(s, r) /\ UNCHANGED <<rundir, job>>
    BY <1>13, <2>2, LaunchedStays DEF snapshot_exe, Remotely, Report
  <2>3. QED
    BY <1>13, <2>1, <2>2 DEF snapshot_exe
<1>14. CASE run_smoke(s)
  BY <1>14, LaunchedStays DEF run_smoke, Report, Unlock, Remotely
<1>15. CASE sbatch(s)
  BY <1>15, sbatchIsOwn DEF sbatch, Remotely
<1>16. CASE Submitted(s)
  BY <1>16, LaunchedStays DEF Submitted, Report, Unlock, Remotely
<1>17. CASE LoseConnection(s)
  BY <1>17, LaunchedStays DEF LoseConnection, At, Unlock
<1>18. CASE HangUp(s)
  BY <1>18, LaunchedStays DEF HangUp
<1>19. CASE Die(s)
  BY <1>19, LaunchedStays DEF Die, Unlock
<1>20. QED
  BY <1>1, <1>2, <1>3, <1>4, <1>5, <1>6, <1>7, <1>8, <1>9, <1>10, <1>11, <1>12, <1>13, <1>14, <1>15, <1>16, <1>17, <1>18, <1>19, <1>21, <1>22 DEF Local, Remote

(* What a step of s does to a ledger: it is the ledger of its own batch,   *)
(* or one that nobody had; and s owns one only as long as the file exists. *)
SelfLedger(s) ==
  /\ HasLedger(s)' => id'[s] \in Ids /\ ledger'[checkout[s]][id'[s]] # Absent
  /\ HasLedger(s)' \/ ledger' # ledger =>
       \/ HasLedger(s) /\ id'[s] = id[s]
       \/ ledger[checkout[s]][id'[s]] = Absent

LEMMA SelfLedgerStep ==
  ASSUME NEW s \in Submits, TypeOK, Coherent(s),
         HasLedger(s) => id[s] \in Ids /\ ledger[checkout[s]][id[s]] # Absent,
         Local(s) \/ Remote(s) \/ LoseConnection(s) \/ HangUp(s) \/ Die(s)
  PROVE  SelfLedger(s)
<1> USE SubmitAssumption DEF TypeOK, Coherent, HasLedger, Queues, Preparing, SubmitEnded, Beyond, SelfLedger, subs, tree
<1>1. CASE Lock(s)
  BY <1>1, LaunchedStays, Texts DEF Lock, At
<1>2. CASE claim_ledger(s)
  <2>1. PICK b \in Ids :
          \/ /\ ledger[checkout[s]][b] = Absent
             /\ At(s, "claim", "stage")
             /\ id' = [id EXCEPT ![s] = b]
             /\ ledger' = [ledger EXCEPT ![checkout[s]][b] = Placeholder]
             /\ UNCHANGED <<checkout, lock, report, tree, overlap, orphaned>>
          \/ /\ ledger[checkout[s]][b] # Absent
             /\ At(s, "claim", "failed")
             /\ Unlock(s)
             /\ UNCHANGED <<checkout, id, report, tree, ledger, overlap, orphaned>>
    BY <1>2 DEF claim_ledger
  <2>2. CASE At(s, "claim", "failed") /\ UNCHANGED <<checkout, id, report, tree, ledger>>
    BY <2>2, LaunchedStays DEF At
  <2>3. CASE /\ ledger[checkout[s]][b] = Absent
             /\ At(s, "claim", "stage")
             /\ id' = [id EXCEPT ![s] = b]
             /\ ledger' = [ledger EXCEPT ![checkout[s]][b] = Placeholder]
             /\ UNCHANGED <<checkout, report, tree>>
    BY <2>3, LaunchedStays, Texts DEF At
  <2>4. QED
    BY <2>1, <2>2, <2>3
<1>3. CASE Stage(s)
  BY <1>3, LaunchedStays, Texts DEF Stage, At
<1>4. CASE StartSync(s)
  BY <1>4, LaunchedStays, Texts DEF StartSync, At
<1>21. CASE Synced(s)
  BY <1>21, LaunchedStays, Texts DEF Synced, At
<1>22. CASE rsync(s)
  BY <1>22, LaunchedStays, Texts DEF rsync
<1>5. CASE StartBuild(s)
  BY <1>5, LaunchedStays, Texts DEF StartBuild, At
<1>6. CASE Built(s)
  BY <1>6, LaunchedStays, Texts DEF Built, At
<1>7. CASE Snapshot(s)
  BY <1>7, LaunchedStays, Texts DEF Snapshot, At
<1>8. CASE PrepareFails(s)
  BY <1>8, LaunchedStays, Texts DEF PrepareFails, Unlock, Ledgered
<1>9. CASE StartCreate(s)
  BY <1>9, LaunchedStays, Texts DEF StartCreate, At
<1>10. CASE Record(s)
  <2>1. CASE report[s] = "none" /\ At(s, "record", "failed") /\ UNCHANGED ledger
    BY <1>10, <2>1, LaunchedStays DEF Record, At
  <2>2. CASE NothingQueued(s) /\ At(s, "record", "failed") /\ Ledgered(s, Absent)
    BY <1>10, <2>2, LaunchedStays DEF Record, At, Ledgered, NothingQueued
  <2>3. CASE report[s] # "none" /\ ~NothingQueued(s) /\ At(s, "record", "saving") /\ Ledgered(s, Empty)
    BY <1>10, <2>3, LaunchedStays DEF Record, At, Ledgered, NothingQueued
  <2>4. QED
    BY <1>10, <2>1, <2>2, <2>3 DEF Record
<1>11. CASE SaveRecord(s)
  BY <1>11, LaunchedStays, Texts DEF SaveRecord, At, Ledgered
<1>12. CASE Build(s)
  BY <1>12, LaunchedStays, Texts DEF Build
<1>13. CASE snapshot_exe(s)
  BY <1>13, LaunchedStays, Texts DEF snapshot_exe, Report, Unlock, Remotely
<1>14. CASE run_smoke(s)
  BY <1>14, LaunchedStays, Texts DEF run_smoke, Report, Unlock, Remotely
<1>15. CASE sbatch(s)
  BY <1>15, LaunchedStays, Texts DEF sbatch, Remotely
<1>16. CASE Submitted(s)
  BY <1>16, LaunchedStays, Texts DEF Submitted, Report, Unlock, Remotely
<1>17. CASE LoseConnection(s)
  BY <1>17, LaunchedStays, Texts DEF LoseConnection, At, Unlock
<1>18. CASE HangUp(s)
  BY <1>18, LaunchedStays, Texts DEF HangUp
<1>19. CASE Die(s)
  BY <1>19, LaunchedStays, Texts DEF Die, Unlock
<1>20. QED
  BY <1>1, <1>2, <1>3, <1>4, <1>5, <1>6, <1>7, <1>8, <1>9, <1>10, <1>11, <1>12, <1>13, <1>14, <1>15, <1>16, <1>17, <1>18, <1>19, <1>21, <1>22 DEF Local, Remote

(* A step of s gives it a run directory only where none was.               *)
SelfDir(s) ==
  HasDir(s)' => /\ id'[s] = id[s] /\ id[s] \in Ids /\ rundir'[id[s]].made
                /\ HasDir(s) \/ ~rundir[id[s]].made

LEMMA SelfDirStep ==
  ASSUME NEW s \in Submits, TypeOK, Coherent(s),
         HasDir(s) => id[s] \in Ids /\ rundir[id[s]].made, HasLedger(s) => id[s] \in Ids,
         Local(s) \/ Remote(s) \/ LoseConnection(s) \/ HangUp(s) \/ Die(s)
  PROVE  SelfDir(s)
<1> USE SubmitAssumption DEF TypeOK, Coherent, HasLedger, HasDir, Queues, Preparing, SubmitEnded, Beyond, SelfDir, subs, tree
<1>1. CASE Lock(s)
  BY <1>1, LaunchedStays DEF Lock, At
<1>2. CASE claim_ledger(s)
  BY <1>2, LaunchedStays DEF claim_ledger, At, Unlock, Placeholder
<1>3. CASE Stage(s)
  BY <1>3, LaunchedStays DEF Stage, At
<1>4. CASE StartSync(s)
  BY <1>4, LaunchedStays DEF StartSync, At
<1>21. CASE Synced(s)
  BY <1>21, LaunchedStays DEF Synced, At
<1>22. CASE rsync(s)
  BY <1>22, LaunchedStays DEF rsync
<1>5. CASE StartBuild(s)
  BY <1>5, LaunchedStays DEF StartBuild, At
<1>6. CASE Built(s)
  BY <1>6, LaunchedStays DEF Built, At
<1>7. CASE Snapshot(s)
  BY <1>7, LaunchedStays DEF Snapshot, At
<1>8. CASE PrepareFails(s)
  BY <1>8, LaunchedStays DEF PrepareFails, Unlock, Ledgered
<1>9. CASE StartCreate(s)
  BY <1>9, LaunchedStays DEF StartCreate, At
<1>10. CASE Record(s)
  BY <1>10, LaunchedStays DEF Record, At, Ledgered
<1>11. CASE SaveRecord(s)
  BY <1>11, LaunchedStays DEF SaveRecord, At, Ledgered
<1>12. CASE Build(s)
  BY <1>12, LaunchedStays DEF Build
<1>13. CASE snapshot_exe(s)
  BY <1>13, LaunchedStays DEF snapshot_exe, Report, Unlock, Remotely
<1>14. CASE run_smoke(s)
  BY <1>14, LaunchedStays DEF run_smoke, Report, Unlock, Remotely
<1>15. CASE sbatch(s)
  BY <1>15, LaunchedStays DEF sbatch, Remotely
<1>16. CASE Submitted(s)
  BY <1>16, LaunchedStays DEF Submitted, Report, Unlock, Remotely
<1>17. CASE LoseConnection(s)
  BY <1>17, LaunchedStays DEF LoseConnection, At, Unlock
<1>18. CASE HangUp(s)
  BY <1>18, LaunchedStays DEF HangUp
<1>19. CASE Die(s)
  BY <1>19, LaunchedStays DEF Die, Unlock
<1>20. QED
  BY <1>1, <1>2, <1>3, <1>4, <1>5, <1>6, <1>7, <1>8, <1>9, <1>10, <1>11, <1>12, <1>13, <1>14, <1>15, <1>16, <1>17, <1>18, <1>19, <1>21, <1>22 DEF Local, Remote

(* A submit, its remote command and its report go forward together.        *)
LEMMA SelfCoherentStep ==
  ASSUME NEW s \in Submits, TypeOK, Coherent(s), HasLedger(s) => id[s] \in Ids, 
         Local(s) \/ Remote(s) \/ LoseConnection(s) \/ HangUp(s) \/ Die(s)
  PROVE  Coherent(s)'
<1> USE SubmitAssumption DEF TypeOK, Coherent, Preparing, SubmitEnded, Beyond, subs, tree
<1>1. CASE Lock(s)
  BY <1>1, LaunchedStays DEF Lock, At
<1>2. CASE claim_ledger(s)
  BY <1>2, LaunchedStays DEF claim_ledger, At, Unlock, Placeholder
<1>3. CASE Stage(s)
  BY <1>3, LaunchedStays DEF Stage, At
<1>4. CASE StartSync(s)
  BY <1>4, LaunchedStays DEF StartSync, At
<1>21. CASE Synced(s)
  BY <1>21, LaunchedStays DEF Synced, At
<1>22. CASE rsync(s)
  BY <1>22, LaunchedStays DEF rsync
<1>5. CASE StartBuild(s)
  BY <1>5, LaunchedStays DEF StartBuild, At
<1>6. CASE Built(s)
  BY <1>6, LaunchedStays DEF Built, At
<1>7. CASE Snapshot(s)
  BY <1>7, LaunchedStays DEF Snapshot, At
<1>8. CASE PrepareFails(s)
  BY <1>8, LaunchedStays DEF PrepareFails, Unlock, Ledgered
<1>9. CASE StartCreate(s)
  BY <1>9, LaunchedStays DEF StartCreate, At
<1>10. CASE Record(s)
  <2>1. CASE report[s] = "none" /\ At(s, "record", "failed") /\ UNCHANGED ledger
    BY <1>10, <2>1, LaunchedStays DEF Record, At
  <2>2. CASE NothingQueued(s) /\ At(s, "record", "failed") /\ Ledgered(s, Absent)
    BY <1>10, <2>2, LaunchedStays DEF Record, At, Ledgered, NothingQueued
  <2>3. CASE report[s] # "none" /\ ~NothingQueued(s) /\ At(s, "record", "saving") /\ Ledgered(s, Empty)
    BY <1>10, <2>3, LaunchedStays DEF Record, At, Ledgered, NothingQueued
  <2>4. QED
    BY <1>10, <2>1, <2>2, <2>3 DEF Record
<1>11. CASE SaveRecord(s)
  <2>1. Recorded(s)' = Recorded(s)
    BY <1>11, LaunchedStays DEF SaveRecord, Recorded
  <2>2. id[s] \in Ids /\ checkout[s] \in Checkouts
    BY <1>11 DEF SaveRecord, At, HasLedger
  <2>3. ledger'[checkout[s]][id[s]] = Recorded(s)
    BY <1>11, <2>2 DEF SaveRecord, Ledgered
  <2>4. QED
    BY <1>11, <2>1, <2>3, LaunchedStays DEF SaveRecord, At
<1>12. CASE Build(s)
  BY <1>12, LaunchedStays DEF Build
<1>13. CASE snapshot_exe(s)
  BY <1>13, LaunchedStays DEF snapshot_exe, Report, Unlock, Remotely
<1>14. CASE run_smoke(s)
  BY <1>14, LaunchedStays DEF run_smoke, Report, Unlock, Remotely
<1>15. CASE sbatch(s)
  BY <1>15, LaunchedStays DEF sbatch, Remotely
<1>16. CASE Submitted(s)
  BY <1>16, LaunchedStays DEF Submitted, Report, Unlock, Remotely
<1>17. CASE LoseConnection(s)
  BY <1>17, LaunchedStays DEF LoseConnection, At, Unlock
<1>18. CASE HangUp(s)
  BY <1>18, LaunchedStays DEF HangUp
<1>19. CASE Die(s)
  BY <1>19, LaunchedStays DEF Die, Unlock
<1>20. QED
  BY <1>1, <1>2, <1>3, <1>4, <1>5, <1>6, <1>7, <1>8, <1>9, <1>10, <1>11, <1>12, <1>13, <1>14, <1>15, <1>16, <1>17, <1>18, <1>19, <1>21, <1>22 DEF Local, Remote

---------------------------------------------------------------------------
(* From a step of s to all submits.                                        *)
LEMMA LedgerStep ==
  ASSUME TypeOK, OwnLedger, NEW s \in Submits, Frame(s), SelfLedger(s)
  PROVE  OwnLedger'
<1>1. \A t \in Submits \ {s} : HasLedger(t)' = HasLedger(t)
  BY DEF Frame, HasLedger, Queues
<1>2. ASSUME NEW t \in Submits \ {s}, HasLedger(t)
      PROVE  /\ id'[t] = id[t] /\ id[t] \in Ids
             /\ ledger'[checkout[t]][id[t]] # Absent
             /\ HasLedger(s)' /\ checkout[s] = checkout[t] => id'[s] # id[t]
  <2>1. id'[t] = id[t] /\ id[t] \in Ids /\ ledger[checkout[t]][id[t]] # Absent
    BY <1>2 DEF Frame, OwnLedger
  <2>2. HasLedger(s) /\ checkout[s] = checkout[t] => id[s] # id[t]
    BY <1>2 DEF OwnLedger
  <2>3. ASSUME HasLedger(s)' \/ ledger' # ledger, checkout[s] = checkout[t]
        PROVE  id'[s] # id[t]
    BY <2>1, <2>2, <2>3 DEF SelfLedger
  <2>4. checkout[t] \in Checkouts
    BY DEF TypeOK
  <2>5. ledger'[checkout[t]][id[t]] = ledger[checkout[t]][id[t]]
    BY <2>1, <2>3, <2>4 DEF Frame
  <2>6. QED
    BY <2>1, <2>3, <2>5
<1>3. checkout' = checkout
  BY DEF Frame
<1>4. \A t \in Submits : HasLedger(t)' => id'[t] \in Ids /\ ledger'[checkout[t]][id'[t]] # Absent
  BY <1>1, <1>2 DEF SelfLedger
<1>5. ASSUME NEW t \in Submits, NEW u \in Submits, t # u, checkout[t] = checkout[u],
             HasLedger(t)', HasLedger(u)'
      PROVE  id'[t] # id'[u]
  <2>1. CASE t = s
    BY <1>1, <1>2, <1>5, <2>1
  <2>2. CASE u = s
    BY <1>1, <1>2, <1>5, <2>2
  <2>3. CASE t # s /\ u # s
    BY <1>1, <1>2, <1>5, <2>3 DEF OwnLedger
  <2>4. QED
    BY <2>1, <2>2, <2>3
<1>6. QED
  BY <1>3, <1>4, <1>5 DEF OwnLedger

LEMMA DirStep ==
  ASSUME TypeOK, OwnDir, NEW s \in Submits, Frame(s), SelfDir(s)
  PROVE  OwnDir'
<1>1. \A t \in Submits \ {s} : HasDir(t)' = HasDir(t) /\ id'[t] = id[t]
  BY DEF Frame, HasDir
<1>2. \A t \in Submits : HasDir(t)' => id'[t] \in Ids /\ rundir'[id'[t]].made
  BY <1>1 DEF Frame, OwnDir, SelfDir
<1>3. ASSUME NEW t \in Submits \ {s}, HasDir(t), HasDir(s)'
      PROVE  id'[s] # id[t]
  BY <1>3 DEF OwnDir, SelfDir
<1>4. ASSUME NEW t \in Submits, NEW u \in Submits, t # u, HasDir(t)', HasDir(u)'
      PROVE  id'[t] # id'[u]
  <2>1. CASE t = s
    BY <1>1, <1>3, <1>4, <2>1
  <2>2. CASE u = s
    BY <1>1, <1>3, <1>4, <2>2
  <2>3. CASE t # s /\ u # s
    BY <1>1, <1>4, <2>3 DEF OwnDir
  <2>4. QED
    BY <2>1, <2>2, <2>3
<1>5. QED
  BY <1>2, <1>4 DEF OwnDir

LEMMA CoherentStep ==
  ASSUME SubmitInv, NEW s \in Submits, Frame(s), SelfLedger(s), NEW t \in Submits \ {s}
  PROVE  Coherent(t)'
<1>1. /\ pc'[t] = pc[t] /\ id'[t] = id[t] /\ report'[t] = report[t] /\ remote'[t] = remote[t]
      /\ Launched(t)' = Launched(t) /\ checkout' = checkout
  BY DEF Frame
<1>2. Coherent(t)
  BY DEF SubmitInv
<1>3. ASSUME pc[t] = "done"
      PROVE  ledger'[checkout[t]][id[t]] = ledger[checkout[t]][id[t]]
  <2>1. HasLedger(t)
    BY <1>3 DEF HasLedger, Beyond
  <2>2. id[t] \in Ids /\ checkout[t] \in Checkouts /\ ledger[checkout[t]][id[t]] # Absent
    BY <2>1 DEF SubmitInv, OwnLedger, TypeOK
  <2>3. ledger' # ledger /\ checkout[s] = checkout[t] => id'[s] # id[t]
    BY <2>1, <2>2 DEF SelfLedger, SubmitInv, OwnLedger
  <2>4. QED
    BY <2>2, <2>3 DEF Frame
<1>4. Recorded(t)' = Recorded(t)
  BY <1>1 DEF Recorded
<1>5. QED
  BY <1>1, <1>2, <1>3, <1>4 DEF Coherent

(* SubmitInv holds in every reachable state.                               *)
THEOREM SubmitInvariant == Spec => []SubmitInv
<1>1. Init => SubmitInv
  <2> SUFFICES ASSUME Init PROVE SubmitInv
    OBVIOUS
  <2>1. TypeOK
    BY SubmitAssumption DEF Init, TypeOK
  <2>2. \A s \in Submits : Launched(s) = {} /\ remote[s] = "idle" /\ pc[s] = "start" /\ report[s] = "none"
    BY DEF Init, Launched, AllJobs
  <2>3. OwnLedger /\ OwnDir
    BY <2>2 DEF OwnLedger, OwnDir, HasLedger, HasDir, Queues, Preparing, Beyond
  <2>4. \A s \in Submits : Coherent(s)
    BY <2>2 DEF Coherent, Preparing
  <2>5. QED
    BY <2>1, <2>3, <2>4 DEF SubmitInv
<1>2. ASSUME SubmitInv, NEW s \in Submits,
             Local(s) \/ Remote(s) \/ LoseConnection(s) \/ HangUp(s) \/ Die(s)
      PROVE  SubmitInv'
  <2>1. TypeOK /\ Coherent(s)
    BY <1>2 DEF SubmitInv
  <2>2. /\ HasLedger(s) => id[s] \in Ids /\ ledger[checkout[s]][id[s]] # Absent
        /\ HasDir(s) => id[s] \in Ids /\ rundir[id[s]].made
    BY <1>2 DEF SubmitInv, OwnLedger, OwnDir
  <2>3. TypeOK' /\ Frame(s)
    BY <1>2, <2>1, TypeStep, FrameStep
  <2>4. SelfLedger(s) /\ SelfDir(s) /\ Coherent(s)'
    BY <1>2, <2>1, <2>2, SelfLedgerStep, SelfDirStep, SelfCoherentStep
  <2>5. OwnLedger' /\ OwnDir'
    BY <1>2, <2>3, <2>4, LedgerStep, DirStep DEF SubmitInv
  <2>6. \A t \in Submits \ {s} : Coherent(t)'
    BY <1>2, <2>3, <2>4, CoherentStep
  <2>7. (\A t \in Submits : Coherent(t))'
    BY <2>4, <2>6
  <2>8. QED
    BY <2>3, <2>5, <2>7 DEF SubmitInv
<1>3. ASSUME SubmitInv, UNCHANGED vars PROVE SubmitInv'
  <2>1. TypeOK' /\ UNCHANGED <<checkout, pc, id, report, remote, rundir, ledger>>
    BY <1>3 DEF vars, subs, tree, SubmitInv, TypeOK
  <2>2. \A s \in Submits : Launched(s)' = Launched(s) /\ Recorded(s)' = Recorded(s)
    BY <1>3, LaunchedStays DEF vars, subs, tree, Recorded
  <2>3. OwnLedger'
    BY <1>3, <2>1, <2>2 DEF SubmitInv, OwnLedger, HasLedger, Queues
  <2>4. OwnDir'
    BY <1>3, <2>1, <2>2 DEF SubmitInv, OwnDir, HasDir
  <2>5. (\A s \in Submits : Coherent(s))'
    BY <1>3, <2>1, <2>2 DEF SubmitInv, Coherent
  <2>6. QED
    BY <2>1, <2>3, <2>4, <2>5 DEF SubmitInv
<1>4. SubmitInv /\ [Next]_vars => SubmitInv'
  BY <1>2, <1>3 DEF Next
<1>5. QED
  BY <1>1, <1>4, PTL DEF Spec

(* Whatever fails, is killed or loses its connection, a job that may be    *)
(* running has a ledger file, and a submit that ended well has listed it.  *)
THEOREM NoJobIsForgotten == Spec => []NoOrphans
<1>1. ASSUME SubmitInv, NEW s \in Submits, Launched(s) # {}
      PROVE  /\ ledger[checkout[s]][id[s]] # Absent
             /\ pc[s] = "done" => Launched(s) \subseteq ledger[checkout[s]][id[s]].jobs
  <2>1. ledger[checkout[s]][id[s]] # Absent
    BY <1>1 DEF SubmitInv, OwnLedger, HasLedger, Queues
  <2>2. pc[s] = "done" => ledger[checkout[s]][id[s]] = Recorded(s)
    BY <1>1 DEF SubmitInv, Coherent
  <2>3. QED
    BY <2>1, <2>2 DEF Recorded
<1>2. SubmitInv => NoOrphans
  BY <1>1 DEF NoOrphans
<1>3. QED
  BY <1>2, SubmitInvariant, PTL

(* No two submits that have queued jobs share a run directory.             *)
THEOREM RunDirsAreOwned == Spec => []OwnRunDir
<1>1. SubmitInv => OwnRunDir
  BY DEF SubmitInv, OwnDir, HasDir, OwnRunDir
<1>2. QED
  BY <1>1, SubmitInvariant, PTL

---------------------------------------------------------------------------
(* A step of s touches the live tree only while s is at work on it, and    *)
(* the files of a run directory only if it is its own; it passes the lock  *)
(* on as submit_lock does.                                                 *)
TreeFrame(s) ==
  /\ live' # live => InLock(s) \/ remote[s] # "idle"
  /\ \A b \in Ids :
       rundir'[b].config # rundir[b].config \/ rundir'[b].exe # rundir[b].exe =>
         b = id[s] /\ HasDir(s)
  /\ overlap => overlap'
  /\ orphaned => orphaned'
  /\ \/ lock' = lock
     \/ lock' = [lock EXCEPT ![checkout[s]] = IF @ = s THEN None ELSE @]
     \/ lock[checkout[s]] = None /\ lock' = [lock EXCEPT ![checkout[s]] = s]
  /\ lock'[checkout[s]] = s <=> InLock(s)'
  /\ InLock(s)' => InLock(s) \/ overlap' \/ \A c \in Checkouts : lock[c] = None

LEMMA TreeFrameStep ==
  ASSUME NEW s \in Submits, TypeOK, Coherent(s), lock[checkout[s]] = s <=> InLock(s), HasDir(s) => id[s] \in Ids,
         Local(s) \/ Remote(s) \/ LoseConnection(s) \/ HangUp(s) \/ Die(s)
  PROVE  TreeFrame(s)
<1> USE SubmitAssumption DEF TypeOK, Coherent, InLock, HasDir, Preparing, SubmitEnded, TreeFrame, subs, tree
<1>1. CASE Lock(s)
  BY <1>1 DEF Lock, At
<1>2. CASE claim_ledger(s)
  BY <1>2 DEF claim_ledger, At, Unlock, Placeholder
<1>3. CASE Stage(s)
  BY <1>3 DEF Stage, At
<1>4. CASE StartSync(s)
  BY <1>4 DEF StartSync, At
<1>21. CASE Synced(s)
  BY <1>21 DEF Synced, At
<1>22. CASE rsync(s)
  BY <1>22 DEF rsync
<1>5. CASE StartBuild(s)
  BY <1>5 DEF StartBuild, At
<1>6. CASE Built(s)
  BY <1>6 DEF Built, At
<1>7. CASE Snapshot(s)
  BY <1>7 DEF Snapshot, At
<1>8. CASE PrepareFails(s)
  BY <1>8 DEF PrepareFails, Unlock, Ledgered
<1>9. CASE StartCreate(s)
  BY <1>9 DEF StartCreate, At
<1>10. CASE Record(s)
  BY <1>10 DEF Record, At, Ledgered
<1>11. CASE SaveRecord(s)
  BY <1>11 DEF SaveRecord, At, Ledgered
<1>12. CASE Build(s)
  BY <1>12 DEF Build
<1>13. CASE snapshot_exe(s)
  BY <1>13 DEF snapshot_exe, Report, Unlock, Remotely
<1>14. CASE run_smoke(s)
  BY <1>14 DEF run_smoke, Report, Unlock, Remotely
<1>15. CASE sbatch(s)
  BY <1>15 DEF sbatch, Remotely
<1>16. CASE Submitted(s)
  BY <1>16 DEF Submitted, Report, Unlock, Remotely
<1>17. CASE LoseConnection(s)
  BY <1>17 DEF LoseConnection, At, Unlock
<1>18. CASE HangUp(s)
  BY <1>18 DEF HangUp
<1>19. CASE Die(s)
  BY <1>19 DEF Die, Unlock
<1>20. QED
  BY <1>1, <1>2, <1>3, <1>4, <1>5, <1>6, <1>7, <1>8, <1>9, <1>10, <1>11, <1>12, <1>13, <1>14, <1>15, <1>16, <1>17, <1>18, <1>19, <1>21, <1>22 DEF Local, Remote

(* Undisturbed, s goes on finding what it has put there itself.            *)
LEMMA SelfMineStep ==
  ASSUME NEW s \in Submits, TypeOK, Coherent(s), HasDir(s) => id[s] \in Ids, Mine(s), ~orphaned',
         Local(s) \/ Remote(s) \/ LoseConnection(s) \/ HangUp(s) \/ Die(s)
  PROVE  Mine(s)'
<1> USE SubmitAssumption DEF TypeOK, Coherent, InLock, Preparing, SubmitEnded, Mine, subs, tree
<1>1. CASE Lock(s)
  BY <1>1, LaunchedStays DEF Lock, At
<1>2. CASE claim_ledger(s)
  BY <1>2, LaunchedStays DEF claim_ledger, At, Unlock, Placeholder
<1>3. CASE Stage(s)
  BY <1>3, LaunchedStays DEF Stage, At
<1>4. CASE StartSync(s)
  BY <1>4, LaunchedStays DEF StartSync, At
<1>21. CASE Synced(s)
  BY <1>21, LaunchedStays DEF Synced, At
<1>22. CASE rsync(s)
  BY <1>22, LaunchedStays DEF rsync
<1>5. CASE StartBuild(s)
  BY <1>5, LaunchedStays DEF StartBuild, At
<1>6. CASE Built(s)
  BY <1>6, LaunchedStays DEF Built, At
<1>7. CASE Snapshot(s)
  <2>1. id[s] \in Ids
    BY <1>7 DEF Snapshot, At, HasDir
  <2>2. rundir'[id[s]].config = s /\ Launched(s)' = Launched(s)
    BY <1>7, <2>1, LaunchedStays DEF Snapshot, At
  <2>3. QED
    BY <1>7, <2>2 DEF Snapshot, At
<1>8. CASE PrepareFails(s)
  BY <1>8, LaunchedStays DEF PrepareFails, Unlock, Ledgered
<1>9. CASE StartCreate(s)
  BY <1>9, LaunchedStays DEF StartCreate, At
<1>10. CASE Record(s)
  BY <1>10, LaunchedStays DEF Record, At, Ledgered
<1>11. CASE SaveRecord(s)
  BY <1>11, LaunchedStays DEF SaveRecord, At, Ledgered
<1>12. CASE Build(s)
  BY <1>12, LaunchedStays DEF Build
<1>13. CASE snapshot_exe(s)
  <2>1. id[s] \in Ids /\ pc[s] = "creating" /\ live.bin = s /\ live.src = s /\ Launched(s) = {}
    BY <1>13 DEF snapshot_exe, HasDir
  <2>2. Launched(s)' = Launched(s)
    BY <1>13, LaunchedStays DEF snapshot_exe, Report
  <2>3. CASE rundir' = [rundir EXCEPT ![id[s]].exe = live.bin] /\ remote' = [remote EXCEPT ![s] = "smoke"] /\ UNCHANGED <<subs, job>>
    <3>1. rundir'[id[s]].exe = s /\ rundir'[id[s]].config = s
      BY <2>1, <2>3
    <3>2. QED
      BY <1>13, <2>1, <2>2, <2>3, <3>1 DEF snapshot_exe, Remotely
  <2>4. CASE \E r \in {"none", "error"} : Report(s, r) /\ UNCHANGED <<rundir, job>>
    BY <1>13, <2>1, <2>2, <2>4 DEF snapshot_exe, Remotely, Report
  <2>5. QED
    BY <1>13, <2>3, <2>4 DEF snapshot_exe
<1>14. CASE run_smoke(s)
  BY <1>14, LaunchedStays DEF run_smoke, Report, Unlock, Remotely
<1>15. CASE sbatch(s)
  BY <1>15, LaunchedStays DEF sbatch, Remotely
<1>16. CASE Submitted(s)
  BY <1>16, LaunchedStays DEF Submitted, Report, Unlock, Remotely
<1>17. CASE LoseConnection(s)
  BY <1>17, LaunchedStays DEF LoseConnection, At, Unlock
<1>18. CASE HangUp(s)
  BY <1>18, LaunchedStays DEF HangUp
<1>19. CASE Die(s)
  BY <1>19, LaunchedStays DEF Die, Unlock
<1>20. QED
  BY <1>1, <1>2, <1>3, <1>4, <1>5, <1>6, <1>7, <1>8, <1>9, <1>10, <1>11, <1>12, <1>13, <1>14, <1>15, <1>16, <1>17, <1>18, <1>19, <1>21, <1>22 DEF Local, Remote

(* The turns are kept: who takes a lock finds it free, and finds all locks *)
(* free unless two checkouts overlap.                                      *)
LEMMA TurnsStep ==
  ASSUME TypeOK, TakesTurns, NEW s \in Submits, Frame(s), TreeFrame(s)
  PROVE  TakesTurns'
<1>1. checkout' = checkout /\ \A t \in Submits : checkout[t] \in Checkouts
  BY DEF Frame, TypeOK
<1>2. \A t \in Submits \ {s} : InLock(t)' = InLock(t)
  BY DEF Frame, InLock
<1>3. ASSUME NEW t \in Submits \ {s} PROVE lock'[checkout[t]] = t <=> InLock(t)'
  <2>1. lock[checkout[t]] = t <=> InLock(t)
    BY DEF TakesTurns
  <2>2. lock'[checkout[t]] = t <=> lock[checkout[t]] = t
    BY <1>1, SubmitAssumption DEF TreeFrame, TypeOK
  <2>3. QED
    BY <1>2, <2>1, <2>2
<1>4. ASSUME ~overlap', NEW t \in Submits \ {s}, InLock(t) PROVE ~InLock(s)'
  <2>1. lock[checkout[t]] # None
    BY <1>4, SubmitAssumption DEF TakesTurns
  <2>2. ~InLock(s)
    BY <1>4 DEF TakesTurns, TreeFrame
  <2>3. QED
    BY <1>1, <1>4, <2>1, <2>2 DEF TreeFrame
<1>5. ASSUME ~overlap', NEW t \in Submits, NEW u \in Submits, t # u
      PROVE  ~(InLock(t)' /\ InLock(u)')
  <2>1. CASE t = s
    BY <1>2, <1>4, <1>5, <2>1
  <2>2. CASE u = s
    BY <1>2, <1>4, <1>5, <2>2
  <2>3. CASE t # s /\ u # s
    BY <1>2, <1>5, <2>3 DEF TakesTurns, TreeFrame
  <2>4. QED
    BY <2>1, <2>2, <2>3
<1>6. lock'[checkout[s]] = s <=> InLock(s)'
  BY DEF TreeFrame
<1>7. QED
  BY <1>1, <1>3, <1>5, <1>6 DEF TakesTurns

(* What another submit has in the tree is not disturbed: if it is at work  *)
(* on it, s is not, and its run directory is its own.                      *)
LEMMA OthersMineStep ==
  ASSUME SubmitInv, TakesTurns, ~overlap, NEW s \in Submits, Frame(s), TreeFrame(s),
         Mine(s), NEW t \in Submits \ {s}, Mine(t)
  PROVE  Mine(t)'
<1>1. /\ pc'[t] = pc[t] /\ id'[t] = id[t] /\ remote'[t] = remote[t]
      /\ building'[t] = building[t] /\ Launched(t)' = Launched(t)
  BY DEF Frame
<1>2. remote[s] # "idle" => InLock(s)
  BY DEF Mine, InLock, Preparing
<1>3. ASSUME InLock(t) PROVE live' = live
  BY <1>2, <1>3 DEF TakesTurns, TreeFrame
<1>4. pc[t] \in {"syncing", "build", "building", "snapshot", "create", "creating"} => live' = live
  BY <1>3 DEF InLock, Preparing
<1>5. ASSUME HasDir(t)
      PROVE  rundir'[id[t]].config = rundir[id[t]].config /\ rundir'[id[t]].exe = rundir[id[t]].exe
  <2>1. id[t] \in Ids /\ (HasDir(s) => id[s] # id[t])
    BY <1>5 DEF SubmitInv, OwnDir
  <2>2. QED
    BY <2>1 DEF TreeFrame
<1>6. pc[t] \in {"create", "creating"} \/ remote[t] # "idle" \/ Launched(t) # {} => HasDir(t)
  BY DEF HasDir, Preparing, Beyond
<1>7. QED
  BY <1>1, <1>4, <1>5, <1>6 DEF Mine

(* TreeInv holds in every reachable state.                                 *)
LEMMA TreeInvariant == Spec => []TreeInv
<1>1. Init => TreeInv
  BY SubmitAssumption DEF Init, TreeInv, TakesTurns, Mine, InLock, Launched, AllJobs, Preparing
<1>2. ASSUME SubmitInv, TreeInv, NEW s \in Submits,
             Local(s) \/ Remote(s) \/ LoseConnection(s) \/ HangUp(s) \/ Die(s)
      PROVE  TreeInv'
  <2>1. /\ TypeOK /\ Coherent(s) /\ (HasDir(s) => id[s] \in Ids)
        /\ TakesTurns /\ (lock[checkout[s]] = s <=> InLock(s))
    BY <1>2 DEF SubmitInv, OwnDir, TreeInv, TakesTurns
  <2>2. Frame(s) /\ TreeFrame(s)
    BY <1>2, <2>1, FrameStep, TreeFrameStep
  <2>3. TakesTurns'
    BY <2>1, <2>2, TurnsStep
  <2>4. ASSUME ~overlap', ~orphaned' PROVE \A t \in Submits : Mine(t)'
    <3>1. ~overlap /\ ~orphaned
      BY <2>2, <2>4 DEF TreeFrame
    <3>2. \A t \in Submits : Mine(t)
      BY <1>2, <3>1 DEF TreeInv
    <3>3. Mine(s)'
      BY <1>2, <2>1, <2>4, <3>2, SelfMineStep
    <3>4. \A t \in Submits \ {s} : Mine(t)'
      BY <1>2, <2>1, <2>2, <3>1, <3>2, OthersMineStep
    <3>5. QED
      BY <3>3, <3>4
  <2>5. QED
    BY <2>3, <2>4 DEF TreeInv
<1>3. ASSUME TreeInv, UNCHANGED vars PROVE TreeInv'
  <2>1. UNCHANGED <<checkout, lock, pc, id, remote, live, building, rundir, overlap, orphaned>>
    BY <1>3 DEF vars, subs, tree
  <2>2. \A s \in Submits : Launched(s)' = Launched(s)
    BY <1>3, LaunchedStays DEF vars, tree
  <2>3. QED
    BY <1>3, <2>1, <2>2 DEF TreeInv, TakesTurns, Mine, InLock
<1>4. SubmitInv /\ TreeInv /\ [Next]_vars => TreeInv'
  BY <1>2, <1>3 DEF Next
<1>5. QED
  BY <1>1, <1>4, SubmitInvariant, PTL DEF Spec

(* A queued job finds in its run directory what its own submit has synced  *)
(* and built, however many submits followed, while checkouts take turns    *)
(* and no rsync or remote command outlives its submit or its connection.   *)
THEOREM BatchesAreSelfContained == Spec => []SelfContained
<1>1. TreeInv => SelfContained
  BY DEF TreeInv, Mine, SelfContained
<1>2. QED
  BY <1>1, TreeInvariant, PTL
===========================================================================
