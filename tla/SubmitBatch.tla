---------------------------- MODULE SubmitBatch ----------------------------
(***************************************************************************)
(* Submitting batches of simulations to a remote Slurm cluster             *)
(* (submit of src/scripts/cluster_run.py, and what it runs over SSH of     *)
(* src/scripts/create_jobfile.py).                                         *)
(*                                                                         *)
(* Every submit synchronises, builds and snapshots one live tree on the    *)
(* cluster and then lets create_jobfile queue the jobs of its batch; the   *)
(* submits of one local checkout take turns by a flock.  What the user     *)
(* knows of a batch is a ledger file.  A remote command or an rsync may    *)
(* outlive the SSH connection or the submit that started it.  What becomes *)
(* of the ledger afterwards is in BatchLedger.                             *)
(***************************************************************************)
EXTENDS Integers, FiniteSets

CONSTANTS
  Submits,      \* the submit commands
  Checkouts,    \* local checkouts of the simulator; they share the cluster
  Starts,       \* where the submits are started: the cases the run considers
  Ids,          \* batch ids: a second and a label
  Tags,         \* the jobs of a batch
  MayDie,       \* whether submits are killed and connections lost
  None, Absent, Empty

(* What a ledger says once it is written.                                  *)
LedgerText ==
  [status : {"submitting", "submitted", "partial"}, jobs : SUBSET (Submits \X Tags)]

ASSUME SubmitAssumption ==
  /\ IsFiniteSet(Submits) /\ IsFiniteSet(Tags) /\ Tags # {}
  /\ Starts \subseteq [Submits -> Checkouts]
  /\ MayDie \in BOOLEAN
  /\ None \notin Submits \cup Ids
  /\ Absent # Empty /\ {Absent, Empty} \cap LedgerText = {}

VARIABLES
  checkout,  \* per submit: where it was started
  lock,      \* per checkout: the holder of submit.lock
  pc,        \* per submit
  id,        \* per submit: its batch id
  report,    \* per submit: the report of create_jobfile
  remote,    \* per submit: what its rsync or remote command is doing
  live,      \* the live tree: [src: submit that synced it, bin: whose build]
  building,  \* per submit: the source its build has read
  rundir,    \* per batch id: [made, config, exe]
  job,       \* per submit and tag: what sbatch made of the job
  ledger,    \* per checkout and batch id: the file
  overlap,   \* history: two checkouts have submitted at the same time
  orphaned   \* history: one has outlived its submit or its SSH connection

subs == <<checkout, lock, pc, id, report>>
tree == <<remote, live, building, rundir, job>>
vars == <<subs, tree, ledger, overlap, orphaned>>

AllJobs == Submits \X Tags

Preparing == {"stage", "sync", "syncing", "build", "building", "snapshot", "create"}
SubmitEnded == {"done", "failed", "killed"}

Init ==
  /\ checkout \in Starts
  /\ lock = [c \in Checkouts |-> None]
  /\ pc = [s \in Submits |-> "start"]
  /\ id = [s \in Submits |-> None]
  /\ report = [s \in Submits |-> "none"]
  /\ remote = [s \in Submits |-> "idle"]
  /\ live = [src |-> None, bin |-> None]
  /\ building = [s \in Submits |-> None]
  /\ rundir = [b \in Ids |-> [made |-> FALSE, config |-> None, exe |-> None]]
  /\ job = [j \in AllJobs |-> "none"]
  /\ ledger = [c \in Checkouts |-> [b \in Ids |-> Absent]]
  /\ overlap = FALSE /\ orphaned = FALSE

At(s, from, to) == pc[s] = from /\ pc' = [pc EXCEPT ![s] = to]

Ledgered(s, content) == ledger' = [ledger EXCEPT ![checkout[s]][id[s]] = content]

Unlock(s) == lock' = [lock EXCEPT ![checkout[s]] = IF @ = s THEN None ELSE @]

Placeholder == [status |-> "submitting", jobs |-> {}]

---------------------------------------------------------------------------
(* submit: cmd_submit and _prepare_batch.                                  *)
\* Mutant: no lock.
Lock_none(s) ==
  /\ At(s, "start", "claim")
  /\ lock' = [lock EXCEPT ![checkout[s]] = s]
  /\ overlap' = (overlap \/ \E c \in Checkouts \ {checkout[s]} : lock[c] # None)
  /\ UNCHANGED <<checkout, id, report, tree, ledger, orphaned>>

Lock(s) ==
  /\ At(s, "start", "claim")
  /\ lock[checkout[s]] = None
  /\ lock' = [lock EXCEPT ![checkout[s]] = s]
  /\ overlap' = (overlap \/ \E c \in Checkouts \ {checkout[s]} : lock[c] # None)
  /\ UNCHANGED <<checkout, id, report, tree, ledger, orphaned>>

(* The ledger is created exclusively: an id this checkout has taken ends   *)
(* the submit before anything is done.                                     *)
claim_ledger(s) ==
  \E b \in Ids :
    \/ /\ ledger[checkout[s]][b] = Absent
       /\ At(s, "claim", "stage")
       /\ id' = [id EXCEPT ![s] = b]
       /\ ledger' = [ledger EXCEPT ![checkout[s]][b] = Placeholder]
       /\ UNCHANGED <<checkout, lock, report, tree, overlap, orphaned>>
    \/ /\ ledger[checkout[s]][b] # Absent
       /\ At(s, "claim", "failed")
       /\ Unlock(s)
       /\ UNCHANGED <<checkout, id, report, tree, ledger, overlap, orphaned>>

\* Mutant: mkdir -p.
Stage_mkdir_p(s) ==
  /\ At(s, "stage", "sync")
  /\ rundir' = [rundir EXCEPT ![id[s]].made = TRUE]
  /\ UNCHANGED <<checkout, lock, id, report, remote, live, building, job, ledger,
                 overlap, orphaned>>

(* A plain mkdir: the run directory of another submit is an error.         *)
Stage(s) ==
  /\ At(s, "stage", "sync")
  /\ ~rundir[id[s]].made
  /\ rundir' = [rundir EXCEPT ![id[s]].made = TRUE]
  /\ UNCHANGED <<checkout, lock, id, report, remote, live, building, job, ledger,
                 overlap, orphaned>>

(* rsync --delete of the simulator and of the scripts, in processes of     *)
(* their own that may outlive the submit.                                  *)
StartSync(s) ==
  /\ At(s, "sync", "syncing")
  /\ remote' = [remote EXCEPT ![s] = "rsync"]
  /\ UNCHANGED <<checkout, lock, id, report, live, building, rundir, job, ledger,
                 overlap, orphaned>>

rsync(s) ==
  /\ remote[s] = "rsync"
  /\ remote' = [remote EXCEPT ![s] = "idle"]
  /\ live' = [live EXCEPT !.src = s]
  /\ UNCHANGED <<subs, building, rundir, job, ledger, overlap, orphaned>>

Synced(s) ==
  /\ remote[s] = "idle"
  /\ At(s, "syncing", "build")
  /\ UNCHANGED <<checkout, lock, id, report, tree, ledger, overlap, orphaned>>

StartBuild(s) ==
  /\ At(s, "build", "building")
  /\ remote' = [remote EXCEPT ![s] = "build"]
  /\ building' = [building EXCEPT ![s] = live.src]
  /\ UNCHANGED <<checkout, lock, id, report, live, rundir, job, ledger, overlap,
                 orphaned>>

Build(s) ==
  /\ remote[s] = "build"
  /\ remote' = [remote EXCEPT ![s] = "idle"]
  /\ live' = [live EXCEPT !.bin = building[s]]
  /\ building' = [building EXCEPT ![s] = None]
  /\ UNCHANGED <<subs, rundir, job, ledger, overlap, orphaned>>

Built(s) ==
  /\ remote[s] = "idle"
  /\ At(s, "building", "snapshot")
  /\ UNCHANGED <<checkout, lock, id, report, tree, ledger, overlap, orphaned>>

(* snapshot_command: scripts/ and the snapshot_dirs, into the run dir.     *)
Snapshot(s) ==
  /\ At(s, "snapshot", "create")
  /\ rundir' = [rundir EXCEPT ![id[s]].config = live.src]
  /\ UNCHANGED <<checkout, lock, id, report, remote, live, building, job, ledger,
                 overlap, orphaned>>

(* Any of these steps may fail, or its connection be lost with what it has *)
(* started running on; `except BaseException' also sees an interrupt.  The *)
(* placeholder goes: nothing has been queued.                              *)
PrepareFails(s) ==
  /\ pc[s] \in Preparing \ {"create"}
  /\ pc' = [pc EXCEPT ![s] = "failed"]
  /\ Ledgered(s, Absent)
  /\ Unlock(s)
  /\ \/ /\ remote' = [remote EXCEPT ![s] = "idle"]
        /\ building' = [building EXCEPT ![s] = None]
        /\ UNCHANGED orphaned
     \/ /\ MayDie /\ remote[s] # "idle"
        /\ orphaned' = TRUE
        /\ UNCHANGED <<remote, building>>
  /\ UNCHANGED <<checkout, id, report, live, rundir, job, overlap>>

---------------------------------------------------------------------------
(* create_jobfile on the cluster, still under the lock.                    *)
StartCreate(s) ==
  /\ At(s, "create", "creating")
  /\ remote' = [remote EXCEPT ![s] = "exe"]
  /\ UNCHANGED <<checkout, lock, id, report, live, building, rundir, job, ledger,
                 overlap, orphaned>>

(* The report reaches a submit that is still connected.                    *)
Report(s, r) ==
  /\ report' = [report EXCEPT ![s] = IF pc[s] = "creating" THEN r ELSE @]
  /\ remote' = [remote EXCEPT ![s] = "idle"]
  /\ pc' = [pc EXCEPT ![s] = IF @ = "creating" THEN "record" ELSE @]
  /\ IF pc[s] = "creating" THEN Unlock(s) ELSE UNCHANGED lock
  /\ UNCHANGED <<checkout, id>>

Remotely == UNCHANGED <<live, building, ledger, overlap, orphaned>>

(* The binary is copied; an input it rejects is reported as an error, a    *)
(* copy that fails (disk full) ends it without a report.                   *)
snapshot_exe(s) ==
  /\ remote[s] = "exe"
  /\ \/ /\ rundir' = [rundir EXCEPT ![id[s]].exe = live.bin]
        /\ remote' = [remote EXCEPT ![s] = "smoke"]
        /\ UNCHANGED <<subs, job>>
     \/ \E r \in {"none", "error"} : Report(s, r) /\ UNCHANGED <<rundir, job>>
  /\ Remotely

run_smoke(s) ==
  /\ remote[s] = "smoke"
  /\ \/ remote' = [remote EXCEPT ![s] = "sbatch"] /\ UNCHANGED <<subs, rundir, job>>
     \/ Report(s, "error") /\ UNCHANGED <<rundir, job>>
  /\ Remotely

Launched(s) == { j \in {s} \X Tags : job[j] = "queued" }

Untried(s) == { j \in {s} \X Tags : job[j] = "none" }

sbatch(s) ==
  /\ remote[s] = "sbatch"
  /\ \E j \in Untried(s), answer \in {"queued", "refused"} :
       job' = [job EXCEPT ![j] = answer]
  /\ UNCHANGED <<subs, remote, rundir>>
  /\ Remotely

(* Some accepted, some refused: CJ_SUBMIT_FAILED with the accepted ids.    *)
Submitted(s) ==
  /\ remote[s] = "sbatch" /\ Untried(s) = {}
  /\ Report(s, CASE Launched(s) = {s} \X Tags -> "ok"
                 [] Launched(s) = {} -> "error"
                 [] OTHER -> "partial")
  /\ UNCHANGED <<rundir, job>>
  /\ Remotely

(* SSH ends without a report; the lock goes, create_jobfile may run on.    *)
LoseConnection(s) ==
  /\ MayDie
  /\ At(s, "creating", "record")
  /\ Unlock(s)
  /\ orphaned' = TRUE
  /\ UNCHANGED <<checkout, id, report, tree, ledger, overlap>>

(* A command nobody is connected to may also be hung up on.                *)
HangUp(s) ==
  /\ remote[s] # "idle" /\ pc[s] \notin {"syncing", "building", "creating"}
  /\ remote' = [remote EXCEPT ![s] = "idle"]
  /\ building' = [building EXCEPT ![s] = None]
  /\ UNCHANGED <<subs, live, rundir, job, ledger, overlap, orphaned>>

---------------------------------------------------------------------------
(* _record_submit, after the lock has been released.                       *)
\* Mutant: any report but a full success removes the placeholder.
NothingQueued_partial(s) == report[s] \in {"error", "partial"}

NothingQueued(s) == report[s] = "error"

Recorded(s) ==
  [ status |-> IF report[s] = "ok" THEN "submitted" ELSE "partial",
    jobs |-> Launched(s) ]

Record(s) ==
  /\ pc[s] = "record"
  /\ \/ /\ report[s] = "none"
        /\ At(s, "record", "failed")
        /\ UNCHANGED ledger
     \/ /\ NothingQueued(s)
        /\ At(s, "record", "failed")
        /\ Ledgered(s, Absent)
     \/ /\ report[s] # "none" /\ ~NothingQueued(s)
        /\ At(s, "record", "saving")
        /\ Ledgered(s, Empty)
  /\ UNCHANGED <<checkout, lock, id, report, tree, overlap, orphaned>>

(* save_ledger: the file is empty while it is written.                     *)
SaveRecord(s) ==
  /\ At(s, "saving", "done")
  /\ Ledgered(s, Recorded(s))
  /\ UNCHANGED <<checkout, lock, id, report, tree, overlap, orphaned>>

\* Mutant: a lock that outlives its holder.
Die_locked(s) ==
  /\ MayDie
  /\ pc[s] \notin SubmitEnded
  /\ pc' = [pc EXCEPT ![s] = "killed"]
  /\ UNCHANGED <<checkout, lock, id, report, tree, ledger, overlap>>
  /\ orphaned' = (orphaned \/ remote[s] # "idle")

(* The submit is killed; its rsync or its remote command may run on.       *)
Die(s) ==
  /\ MayDie
  /\ pc[s] \notin SubmitEnded
  /\ pc' = [pc EXCEPT ![s] = "killed"]
  /\ Unlock(s)
  /\ UNCHANGED <<checkout, id, report, tree, ledger, overlap>>
  /\ orphaned' = (orphaned \/ remote[s] # "idle")

---------------------------------------------------------------------------
Local(s) ==
  \/ Lock(s) \/ claim_ledger(s) \/ Stage(s) \/ StartSync(s) \/ Synced(s)
  \/ StartBuild(s) \/ Built(s) \/ Snapshot(s) \/ PrepareFails(s) \/ StartCreate(s) \/ Record(s) \/ SaveRecord(s)

Remote(s) ==
  \/ rsync(s) \/ Build(s) \/ snapshot_exe(s) \/ run_smoke(s) \/ sbatch(s) \/ Submitted(s)

Next ==
  \E s \in Submits : Local(s) \/ Remote(s) \/ LoseConnection(s) \/ HangUp(s) \/ Die(s)

(* The local system runs every submit and passes a free flock on; a remote *)
(* command makes progress until it ends.                                   *)
Spec ==
  /\ Init /\ [][Next]_vars
  /\ \A s \in Submits : WF_vars(Local(s)) /\ WF_vars(Remote(s))

---------------------------------------------------------------------------
TypeOK ==
  /\ checkout \in [Submits -> Checkouts]
  /\ lock \in [Checkouts -> Submits \cup {None}]
  /\ pc \in [Submits -> Preparing \cup SubmitEnded \cup
                         {"start", "claim", "creating", "record", "saving"}]
  /\ id \in [Submits -> Ids \cup {None}]
  /\ report \in [Submits -> {"none", "error", "partial", "ok"}]
  /\ remote \in [Submits -> {"idle", "rsync", "build", "exe", "smoke", "sbatch"}]
  /\ live \in [src : Submits \cup {None}, bin : Submits \cup {None}]
  /\ building \in [Submits -> Submits \cup {None}]
  /\ rundir \in [Ids -> [made : BOOLEAN, config : Submits \cup {None},
                          exe : Submits \cup {None}]]
  /\ job \in [AllJobs -> {"none", "queued", "refused"}]
  /\ ledger \in [Checkouts -> [Ids -> LedgerText \cup {Absent, Empty}]]
  /\ overlap \in BOOLEAN /\ orphaned \in BOOLEAN

(* A job that may be running somewhere is never forgotten: whatever fails, *)
(* is killed or loses its connection, its batch has a ledger file; and a   *)
(* submit that ended well, even a partial one, has listed it.              *)
NoOrphans ==
  \A s \in Submits : Launched(s) # {} =>
    LET l == ledger[checkout[s]][id[s]]
    IN  /\ l # Absent
        /\ pc[s] = "done" /\ l # Empty => Launched(s) \subseteq l.jobs

(* No two submits write to one run directory, whatever ids they pick and   *)
(* wherever they were started.                                             *)
OwnRunDir ==
  \A s, t \in Submits :
    s # t /\ Launched(s) # {} /\ Launched(t) # {} => id[s] # id[t]

(* A queued job reads its files when it starts.  Whenever that is, it      *)
(* finds what its own submit has synced and built, however many submits    *)
(* followed, as long as checkouts submit one after the other and no rsync  *)
(* or remote command outlives its submit or its connection.                *)
SelfContained ==
  ~overlap /\ ~orphaned =>
    \A s \in Submits : Launched(s) # {} =>
      rundir[id[s]].config = s /\ rundir[id[s]].exe = s

(* Every submit ends, also one that waits for the lock of one that died.   *)
EverySubmitEnds == \A s \in Submits : <>(pc[s] \in SubmitEnded)

===========================================================================
