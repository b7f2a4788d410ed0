---------------------------- MODULE BatchLedger ----------------------------
(***************************************************************************)
(* The ledger of one batch (runs/<batch>.json) from the placeholder on, as *)
(* status, rollup and combine of src/scripts/cluster_run.py share it: each *)
(* reads the file, asks Slurm, and writes the whole file back, with nothing*)
(* to keep two of them apart.  The submit that creates it is SubmitBatch;  *)
(* here it either records the jobs it has queued, stops before it does, or *)
(* removes the file because nothing was queued.                            *)
(*                                                                         *)
(* A command that handles several batches treats one after the other, and  *)
(* no two share a file: one batch at a time loses no behaviour, because a  *)
(* copy may be arbitrarily old when it is written back.                    *)
(***************************************************************************)
EXTENDS Integers, FiniteSets

CONSTANTS
  Jobs,         \* the jobs the batch has in the queue
  Clients,      \* processes that run status, rollup and combine
  Commands,     \* subset of {"status", "rollup", "force", "combine"}
  MaxCommands,  \* bound: commands the clients run
  MayDie,       \* whether processes are killed
  Empty, Garbled

ASSUME LedgerAssumption ==
  /\ IsFiniteSet(Jobs) /\ Jobs # {}
  /\ Commands \subseteq {"status", "rollup", "force", "combine"}
  /\ MaxCommands \in Nat /\ MayDie \in BOOLEAN
  /\ Empty # Garbled

VARIABLES
  slurm,     \* per job: its state
  ledger,    \* the file: Empty, Garbled or a Ledger
  submit,    \* the submit: "queueing", "saving", "done" or "stopped"
  client,    \* per client: [pc] or [pc, kind, copy]
  commands,  \* commands started
  forced,    \* history: rollup --force has had a result
  rolled,    \* history: a rollup has saved its result
  shared     \* history: two clients have had the batch at the same time

past == <<commands, forced, rolled, shared>>
vars == <<slurm, ledger, submit, client, past>>

JobStates == {"PENDING", "RUNNING", "ENDED"}

Ledger ==
  [ status : {"submitting", "submitted", "partial", "running", "complete", "rolledup"},
    jobs : {<< >>} \cup [Jobs -> JobStates],
    stats_csv : BOOLEAN ]

\* A file with nothing in it, or with the ends of two texts, does not parse.
ASSUME ParseAssumption == {Empty, Garbled} \cap Ledger = {}

Idle == [pc |-> "idle"]

Busy == [pc : {"refresh", "open", "write", "rollup"}, kind : Commands, copy : Ledger]

TypeOK ==
  /\ slurm \in [Jobs -> JobStates]
  /\ ledger \in {Empty, Garbled} \/ ledger \in Ledger
  /\ submit \in {"queueing", "saving", "done", "stopped"}
  /\ client \in [Clients -> {Idle} \cup Busy]
  /\ commands \in 0 .. MaxCommands
  /\ forced \in BOOLEAN /\ rolled \in BOOLEAN /\ shared \in BOOLEAN

Placeholder == [status |-> "submitting", jobs |-> << >>, stats_csv |-> FALSE]

Init ==
  /\ slurm = [j \in Jobs |-> "PENDING"]
  /\ ledger = Placeholder
  /\ submit = "queueing"
  /\ client = [k \in Clients |-> Idle]
  /\ commands = 0 /\ forced = FALSE /\ rolled = FALSE /\ shared = FALSE

---------------------------------------------------------------------------
(* Slurm.  A job may end without having run.                               *)
JobStarts(j) ==
  /\ slurm[j] = "PENDING"
  /\ slurm' = [slurm EXCEPT ![j] = "RUNNING"]
  /\ UNCHANGED <<ledger, submit, client, past>>

JobEnds(j) ==
  /\ slurm[j] # "ENDED"
  /\ slurm' = [slurm EXCEPT ![j] = "ENDED"]
  /\ UNCHANGED <<ledger, submit, client, past>>

---------------------------------------------------------------------------
(* save_ledger truncates the file when it opens it and writes it when it   *)
(* closes it.  Text that somebody else wrote in between may be longer than *)
(* one's own, and its end stays.                                           *)
Written(text) == {text} \cup (IF ledger = Empty THEN {} ELSE {Garbled})

OpenRecord ==
  /\ submit = "queueing" /\ submit' = "saving"
  /\ ledger' = Empty
  /\ UNCHANGED <<slurm, client, past>>

(* The jobs create_jobfile reports: all of the batch, or those of it that  *)
(* sbatch accepted.                                                        *)
WriteRecord ==
  /\ submit = "saving" /\ submit' = "done"
  /\ \E status \in {"submitted", "partial"} :
       ledger' \in Written([status |-> status, jobs |-> [j \in Jobs |-> "PENDING"],
                            stats_csv |-> FALSE])
  /\ UNCHANGED <<slurm, client, past>>

(* No report, or killed: whatever the file holds by then stays.            *)
SubmitStops ==
  /\ submit \in {"queueing", "saving"} /\ submit' = "stopped"
  /\ submit = "saving" => MayDie
  /\ UNCHANGED <<slurm, ledger, client, past>>

---------------------------------------------------------------------------
Client(k, from, new) ==
  /\ client[k].pc = from
  /\ client' = [client EXCEPT ![k] = new]
  /\ UNCHANGED <<slurm, submit>>

Readable == ledger \notin {Empty, Garbled}

\* Mutant: a placeholder is taken for a ledger.
Recorded_any(l) == TRUE

Recorded(l) == l.status # "submitting"

(* rollup and combine take the word of a ledger that says complete.        *)
Refreshes(kind, l) ==
  \/ kind = "status"
  \/ kind \in {"rollup", "combine"} /\ l.status \notin {"complete", "rolledup"}

Load(k, kind) ==
  /\ commands < MaxCommands
  /\ commands' = commands + 1
  /\ Readable /\ Recorded(ledger)
  /\ Client(k, "idle", [pc |-> IF Refreshes(kind, ledger) THEN "refresh" ELSE "rollup",
                        kind |-> kind, copy |-> ledger])
  /\ shared' = (shared \/ \E o \in Clients \ {k} : client[o] # Idle)
  /\ UNCHANGED <<ledger, forced, rolled>>

is_terminal(state) == state = "ENDED"

(* A job known to have ended is not asked for again; a query may fail.     *)
Answers(j, known) ==
  IF is_terminal(known) THEN {known} ELSE {slurm[j], known}

Refreshed(known) ==
  { new \in [DOMAIN known -> JobStates] :
      \A j \in DOMAIN known : new[j] \in Answers(j, known[j]) }

\* Mutant: some job has ended.
_batch_status_some(known) ==
  IF \E j \in DOMAIN known : is_terminal(known[j]) THEN "complete" ELSE "running"

_batch_status(known) ==
  IF DOMAIN known # {} /\ \A j \in DOMAIN known : is_terminal(known[j])
  THEN "complete" ELSE "running"

\* Mutant: a batch that was rolled up is judged anew.
StatusAfter_anew(l, known) == _batch_status(known)

StatusAfter(l, known) == IF l.status = "rolledup" THEN l.status ELSE _batch_status(known)

Updated(l, known) == [l EXCEPT !.jobs = known, !.status = StatusAfter(l, known)]

(* status, and the first half of rollup and combine.                       *)
_refresh_states(k) ==
  /\ client[k].pc = "refresh"
  /\ \E known \in Refreshed(client[k].copy.jobs) :
       Client(k, "refresh",
              [client[k] EXCEPT !.pc = "open", !.copy = Updated(@, known)])
  /\ UNCHANGED <<ledger, past>>

OpenLedger(k) ==
  /\ Client(k, "open", [client[k] EXCEPT !.pc = "write"])
  /\ ledger' = Empty
  /\ UNCHANGED past

(* After the save status is done, and so is a rollup whose result it was;  *)
(* rollup and combine go on with a complete batch.                         *)
AfterSave(l) ==
  IF l.kind \in {"rollup", "combine"} /\ l.copy.status = "complete"
  THEN [l EXCEPT !.pc = "rollup"] ELSE Idle

WriteLedger(k) ==
  /\ Client(k, "write", AfterSave(client[k]))
  /\ ledger' \in Written(client[k].copy)
  /\ rolled' = (rolled \/ client[k].copy.stats_csv)
  /\ UNCHANGED <<commands, forced, shared>>

RolledUp(l) == [l EXCEPT !.status = "rolledup", !.stats_csv = TRUE]

(* rollup.py has run and stats.csv is here; combine leaves no trace in the *)
(* ledger.                                                                 *)
RollUp(k) ==
  /\ client[k].pc = "rollup" /\ client[k].kind # "combine"
  /\ Client(k, "rollup", [client[k] EXCEPT !.pc = "open", !.copy = RolledUp(@)])
  /\ forced' = (forced \/ client[k].kind = "force")
  /\ UNCHANGED <<ledger, commands, rolled, shared>>

(* The remote rollup.py or the fetch fails, or combine is through.         *)
RollUpEnds(k) ==
  /\ Client(k, "rollup", Idle)
  /\ UNCHANGED <<ledger, past>>

ClientDies(k) ==
  /\ MayDie /\ client[k].pc # "idle"
  /\ client' = [client EXCEPT ![k] = Idle]
  /\ UNCHANGED <<slurm, ledger, submit, past>>

---------------------------------------------------------------------------
Next ==
  \/ OpenRecord \/ WriteRecord \/ SubmitStops
  \/ \E j \in Jobs : JobStarts(j) \/ JobEnds(j)
  \/ \E k \in Clients :
       \/ \E kind \in Commands : Load(k, kind)
       \/ _refresh_states(k) \/ OpenLedger(k) \/ WriteLedger(k)
       \/ RollUp(k) \/ RollUpEnds(k) \/ ClientDies(k)

Spec == Init /\ [][Next]_vars

---------------------------------------------------------------------------
Finished == \A j \in Jobs : slurm[j] = "ENDED"

(* A batch is called complete, and is rolled up or combined, only when     *)
(* every job it has in the queue has ended, however old the copies are     *)
(* that the clients write over each other; as long as nobody has rolled it *)
(* up with --force.                                                        *)
CompleteIsTrue ==
  ~forced =>
    /\ Readable /\ ledger.status \in {"complete", "rolledup"} => Finished
    /\ \A k \in Clients : client[k].pc = "rollup" /\ client[k].kind # "force" => Finished

(* The jobs a submit has recorded stay in the ledger as long as it can be  *)
(* read: a command that has seen the placeholder never writes it back.     *)
RecordKept == submit = "done" /\ Readable => DOMAIN ledger.jobs = Jobs

(* A result that rollup has saved is lost, and the text of the file        *)
(* garbled, only when two commands have had the batch at the same time.    *)
RolledUpStays ==
  ~shared => /\ ledger # Garbled
             /\ rolled /\ Readable => ledger.status = "rolledup" /\ ledger.stats_csv

---------------------------------------------------------------------------
(* The inductive invariant behind CompleteIsTrue and RecordKept: what a    *)
(* text says of the batch, in the file or in the copy of a client, is true *)
(* for good, because jobs only ever go forward.                            *)
Truthful(l) ==
  /\ l.status # "submitting" /\ DOMAIN l.jobs = Jobs
  /\ \A j \in Jobs : l.jobs[j] = "ENDED" => slurm[j] = "ENDED"
  /\ l.status \in {"complete", "rolledup"} /\ ~forced => Finished

(* A client at work: its copy is true, and what it rolls up is complete.   *)
Sincere(l) ==
  /\ Truthful(l.copy)
  /\ l.pc = "rollup" /\ l.kind # "force" => l.copy.status \in {"complete", "rolledup"}

LedgerInv ==
  /\ TypeOK
  /\ submit = "queueing" => ledger = Placeholder
  /\ submit = "saving" => ledger = Empty
  /\ submit = "stopped" => ledger \in {Placeholder, Empty}
  /\ submit # "done" => \A k \in Clients : client[k] = Idle
  /\ submit = "done" /\ Readable => Truthful(ledger)
  /\ \A k \in Clients : client[k] # Idle => Sincere(client[k])
===========================================================================
