------------------------- MODULE BatchLedger_proofs -------------------------
(***************************************************************************)
(* LedgerInv is inductive for any number of jobs, clients and commands;    *)
(* CompleteIsTrue and RecordKept follow. KeptInv: while nobody forces      *)
(* anything and commands do not overlap, a rolled-up batch stays one in    *)
(* the file and in every copy; RolledUpStays follows.                      *)
(***************************************************************************)
EXTENDS BatchLedger, TLAPS

(* Queries never take a job back, so what a copy says after a refresh is   *)
(* true if it was true before.                                             *)
LEMMA RefreshedIsTruthful ==
  ASSUME NEW l \in Ledger, Truthful(l), NEW known \in Refreshed(l.jobs)
  PROVE  Updated(l, known) \in Ledger /\ Truthful(Updated(l, known))
<1> DEFINE new == [l EXCEPT !.jobs = known, !.status = StatusAfter(l, known)]
<1>1. DOMAIN l.jobs = Jobs /\ l.jobs \in [Jobs -> JobStates]
  <2>1. DOMAIN l.jobs = Jobs
    BY DEF Truthful
  <2>2. l.jobs = << >> \/ l.jobs \in [Jobs -> JobStates]
    BY DEF Ledger
  <2>3. Jobs # {}
    BY LedgerAssumption
  <2>4. DOMAIN << >> = {}
    OBVIOUS
  <2> QED
    BY <2>1, <2>2, <2>3, <2>4
<1>2. known \in [Jobs -> JobStates] /\ \A j \in Jobs : known[j] \in Answers(j, l.jobs[j])
  BY <1>1 DEF Refreshed
<1>3. StatusAfter(l, known) \in {"rolledup", "complete", "running"}
  BY DEF StatusAfter, _batch_status
<1>4. new \in Ledger
  BY <1>2, <1>3 DEF Ledger
<1>5. new.jobs = known /\ new.status = StatusAfter(l, known)
  BY DEF Ledger
<1>6. \A j \in Jobs : known[j] = "ENDED" => slurm[j] = "ENDED"
  BY <1>2 DEF Answers, is_terminal, Truthful
<1>7. StatusAfter(l, known) = "complete" => Finished
  BY <1>2, <1>6 DEF StatusAfter, _batch_status, is_terminal, Finished
<1>8. StatusAfter(l, known) = "rolledup" /\ ~forced => Finished
  BY DEF StatusAfter, _batch_status, Truthful
<1>9. Truthful(new)
  BY <1>2, <1>3, <1>4, <1>5, <1>6, <1>7, <1>8 DEF Truthful
<1> QED
  BY <1>4, <1>9 DEF Updated

(* A text that is true stays true: jobs only go forward, and a rollup by   *)
(* force only takes back what had been concluded from a status.            *)
LEMMA TruthLasts ==
  ASSUME NEW l, Truthful(l), forced => forced',
         \A j \in Jobs : slurm[j] = "ENDED" => slurm'[j] = "ENDED"
  PROVE  Truthful(l)'
BY DEF Truthful, Finished

(* The file in the three states in which somebody's text gets into it.     *)
LEMMA WrittenIsTruthful ==
  ASSUME NEW l \in Ledger, Truthful(l), ledger' \in Written(l)
  PROVE  /\ ledger' \in {Empty, Garbled} \/ ledger' \in Ledger
         /\ Readable' => ledger' = l
BY DEF Written, Readable

(* Init: a placeholder, nothing asked yet and no client at work.           *)
LEMMA InitInv == Init => LedgerInv
<1> SUFFICES ASSUME Init PROVE LedgerInv
  OBVIOUS
<1>1. Placeholder \in Ledger
  BY DEF Placeholder, Ledger
<1>2. TypeOK
  <2>1. slurm \in [Jobs -> JobStates] /\ ledger \in Ledger
    BY <1>1 DEF Init, JobStates
  <2>2. client \in [Clients -> {Idle} \cup Busy]
    BY DEF Init
  <2>3. commands \in 0 .. MaxCommands
    BY LedgerAssumption DEF Init
  <2> QED
    BY <2>1, <2>2, <2>3 DEF Init, TypeOK
<1> QED
  BY <1>2 DEF Init, LedgerInv, Idle

(* Nothing but what is named changes: the conjuncts of LedgerInv for a     *)
(* step of Slurm, and for one that changes nothing.                        *)
LEMMA SlurmInv ==
  ASSUME LedgerInv, UNCHANGED <<ledger, submit, client, past>>,
         slurm' \in [Jobs -> JobStates],
         \A j \in Jobs : slurm[j] = "ENDED" => slurm'[j] = "ENDED"
  PROVE  LedgerInv'
<1>1. TypeOK'
  BY DEF LedgerInv, TypeOK, past
<1>2. submit = "done" /\ Readable => Truthful(ledger)'
  <2> SUFFICES ASSUME submit = "done", Readable PROVE Truthful(ledger)'
    OBVIOUS
  <2>1. Truthful(ledger)
    BY DEF LedgerInv
  <2> QED
    BY <2>1 DEF Truthful, Finished, past
<1>3. ASSUME NEW k \in Clients, client[k] # Idle PROVE Sincere(client[k])'
  <2>1. Sincere(client[k])
    BY <1>3 DEF LedgerInv
  <2> QED
    BY <2>1 DEF Sincere, Truthful, Finished, past
<1> QED
  BY <1>1, <1>2, <1>3 DEF LedgerInv, Readable, Placeholder

(* While the submit is at work, no client is.                              *)
LEMMA SubmitInv ==
  ASSUME LedgerInv, OpenRecord \/ WriteRecord \/ SubmitStops
  PROVE  LedgerInv'
<1>1. \A k \in Clients : client[k] = Idle /\ client'[k] = Idle
  BY DEF LedgerInv, OpenRecord, WriteRecord, SubmitStops
<1>2. CASE OpenRecord
  <2>1. TypeOK'
    BY <1>2 DEF LedgerInv, TypeOK, OpenRecord, past
  <2> QED
    BY <1>1, <1>2, <2>1 DEF LedgerInv, OpenRecord
<1>3. CASE SubmitStops
  <2>1. TypeOK'
    BY <1>3 DEF LedgerInv, TypeOK, SubmitStops, past
  <2> QED
    BY <1>1, <1>3, <2>1 DEF LedgerInv, SubmitStops, Placeholder
<1>4. CASE WriteRecord
  <2> PICK status \in {"submitted", "partial"} :
        ledger' \in Written([status |-> status, jobs |-> [j \in Jobs |-> "PENDING"],
                             stats_csv |-> FALSE])
    BY <1>4 DEF WriteRecord
  <2> DEFINE l == [status |-> status, jobs |-> [j \in Jobs |-> "PENDING"],
                   stats_csv |-> FALSE]
  <2>1. l \in Ledger
    BY DEF Ledger, JobStates
  <2>2. Truthful(l)
    BY DEF Truthful
  <2>3. Truthful(l)'
    BY <1>4, <2>2, TruthLasts DEF WriteRecord, past
  <2>4. /\ ledger' \in {Empty, Garbled} \/ ledger' \in Ledger
        /\ Readable' => ledger' = l
    BY <2>1, <2>2, WrittenIsTruthful
  <2>5. TypeOK'
    BY <1>4, <2>4 DEF LedgerInv, TypeOK, WriteRecord, past
  <2>6. Readable' => Truthful(ledger)'
    BY <2>3, <2>4 DEF Truthful, Finished
  <2> QED
    BY <1>1, <1>4, <2>5, <2>6 DEF LedgerInv, WriteRecord
<1> QED
  BY <1>2, <1>3, <1>4

(* A step of client k: it suffices to look at its own new state and at the *)
(* file.                                                                   *)
LEMMA ClientInv ==
  ASSUME LedgerInv, NEW k \in Clients, submit = "done",
         UNCHANGED <<slurm, submit>>,
         NEW new \in {Idle} \cup Busy, client' = [client EXCEPT ![k] = new],
         new # Idle => Sincere(new)',
         ledger' \in {Empty, Garbled} \/ ledger' \in Ledger,
         Readable' => Truthful(ledger)',
         commands' \in 0 .. MaxCommands, forced' \in BOOLEAN,
         rolled' \in BOOLEAN, shared' \in BOOLEAN, forced => forced'
  PROVE  LedgerInv'
<1>1. TypeOK'
  BY DEF LedgerInv, TypeOK
<1>2. ASSUME NEW o \in Clients, client'[o] # Idle PROVE Sincere(client[o])'
  <2>1. CASE o = k
    <3>1. client'[o] = new
      BY <2>1 DEF LedgerInv, TypeOK
    <3> QED
      BY <3>1, <1>2 DEF Sincere, Truthful, Finished
  <2>2. CASE o # k
    <3>1. client'[o] = client[o] /\ Sincere(client[o])
      BY <1>2, <2>2 DEF LedgerInv, TypeOK
    <3> QED
      BY <3>1 DEF Sincere, Truthful, Finished
  <2> QED
    BY <2>1, <2>2
<1> QED
  BY <1>1, <1>2 DEF LedgerInv

(* Only a submit that is done has left something a client can work on.     *)
LEMMA ClientsComeLast ==
  ASSUME LedgerInv,
         (\E k \in Clients : client[k] # Idle) \/ (Readable /\ Recorded(ledger))
  PROVE  submit = "done"
BY DEF LedgerInv, TypeOK, Readable, Recorded, Placeholder

(* What the invariant says of a client at work, with the submit done.      *)
LEMMA BusyClient ==
  ASSUME LedgerInv, NEW k \in Clients, client[k].pc # "idle"
  PROVE  /\ client[k] \in Busy /\ client[k] # Idle
         /\ Sincere(client[k]) /\ submit = "done"
<1>1. client[k] \in {Idle} \cup Busy /\ client[k] # Idle
  BY DEF LedgerInv, TypeOK, Idle
<1>2. Sincere(client[k]) /\ submit = "done"
  BY <1>1, ClientsComeLast DEF LedgerInv
<1> QED
  BY <1>1, <1>2

(* A client that starts takes the file for its copy: both are true.        *)
LEMMA LoadInv ==
  ASSUME LedgerInv, NEW k \in Clients, NEW kind \in Commands, Load(k, kind)
  PROVE  LedgerInv'
<1> PICK l \in Ledger : l = ledger
  BY DEF LedgerInv, TypeOK, Load, Readable
<1> DEFINE new == [pc |-> IF Refreshes(kind, l) THEN "refresh" ELSE "rollup",
                   kind |-> kind, copy |-> l]
<1>1. submit = "done" /\ Truthful(l)
  BY ClientsComeLast DEF Load, LedgerInv
<1>2. new \in Busy /\ new.copy = l /\ new.kind = kind
      /\ new.pc = IF Refreshes(kind, l) THEN "refresh" ELSE "rollup"
  BY DEF Busy
<1>3. new.pc = "rollup" /\ new.kind # "force" => l.status \in {"complete", "rolledup"}
  <2>1. Commands \subseteq {"status", "rollup", "force", "combine"}
    BY LedgerAssumption
  <2> QED
    BY <1>2, <2>1 DEF Refreshes
<1>4. client' = [client EXCEPT ![k] = new] /\ UNCHANGED <<slurm, submit, ledger, forced>>
  BY DEF Load, Client
<1>5. Sincere(new)'
  BY <1>1, <1>2, <1>3, <1>4 DEF Sincere, Truthful, Finished
<1>6. /\ ledger' \in {Empty, Garbled} \/ ledger' \in Ledger
      /\ Readable' => Truthful(ledger)'
  BY <1>1, <1>4 DEF Truthful, Finished
<1>7. commands' \in 0 .. MaxCommands /\ forced' \in BOOLEAN
      /\ rolled' \in BOOLEAN /\ shared' \in BOOLEAN
  <2>1. MaxCommands \in Nat
    BY LedgerAssumption
  <2> QED
    BY <2>1 DEF Load, LedgerInv, TypeOK
<1> QED
  BY <1>1, <1>2, <1>4, <1>5, <1>6, <1>7, ClientInv

(* A refresh keeps the copy true, whatever Slurm answers.                  *)
LEMMA RefreshInv ==
  ASSUME LedgerInv, NEW k \in Clients, _refresh_states(k)
  PROVE  LedgerInv'
<1> PICK old \in Busy : old = client[k]
  BY BusyClient DEF _refresh_states
<1> PICK known \in Refreshed(old.copy.jobs) :
      client' = [client EXCEPT ![k] = [old EXCEPT !.pc = "open",
                                                  !.copy = Updated(@, known)]]
  BY DEF _refresh_states, Client
<1> DEFINE text == Updated(old.copy, known)
           new == [old EXCEPT !.pc = "open", !.copy = text]
<1>1. Sincere(old) /\ submit = "done" /\ old.copy \in Ledger
  BY BusyClient DEF _refresh_states, Busy
<1>2. UNCHANGED <<slurm, submit, ledger, past>>
  BY DEF _refresh_states, Client
<1>3. text \in Ledger /\ Truthful(text)
  BY <1>1, RefreshedIsTruthful DEF Sincere
<1> HIDE DEF text
<1>4. new \in Busy /\ new.copy = text /\ new.pc = "open"
  BY <1>3 DEF Busy
<1>5. Sincere(new)'
  BY <1>2, <1>3, <1>4 DEF Sincere, Truthful, Finished, past
<1>6. /\ ledger' \in {Empty, Garbled} \/ ledger' \in Ledger
      /\ Readable' => Truthful(ledger)'
  BY <1>1, <1>2 DEF LedgerInv, TypeOK, Truthful, Finished, Readable, past
<1>7. client' = [client EXCEPT ![k] = new]
  BY DEF text
<1> HIDE DEF new
<1> QED
  BY <1>1, <1>2, <1>4, <1>5, <1>6, <1>7, ClientInv DEF past, LedgerInv, TypeOK

(* A client goes on with the copy it has, or becomes idle, and the file is *)
(* unreadable or left alone.                                               *)
LEMMA SameCopyInv ==
  ASSUME LedgerInv, NEW k \in Clients, client[k].pc # "idle",
         NEW new \in {Idle} \cup Busy, client' = [client EXCEPT ![k] = new],
         new # Idle => new = [client[k] EXCEPT !.pc = "write"],
         UNCHANGED <<slurm, submit, past>>, ledger' \in {ledger, Empty}
  PROVE  LedgerInv'
<1>1. client[k] \in Busy /\ Sincere(client[k]) /\ submit = "done"
  BY BusyClient
<1>2. new # Idle => new.copy = client[k].copy /\ new.pc = "write"
  BY <1>1 DEF Busy
<1>3. new # Idle => Sincere(new)'
  BY <1>1, <1>2 DEF Sincere, Truthful, Finished, past
<1>4. /\ ledger' \in {Empty, Garbled} \/ ledger' \in Ledger
      /\ Readable' => Truthful(ledger)'
  BY <1>1 DEF LedgerInv, TypeOK, Truthful, Finished, Readable, past
<1> QED
  BY <1>1, <1>3, <1>4, ClientInv DEF past, LedgerInv, TypeOK

(* Opening the file empties it and leaves the copy alone.                  *)
LEMMA OpenInv ==
  ASSUME LedgerInv, NEW k \in Clients, OpenLedger(k)
  PROVE  LedgerInv'
<1> DEFINE new == [client[k] EXCEPT !.pc = "write"]
<1>1. client[k].pc # "idle" /\ client' = [client EXCEPT ![k] = new] /\ ledger' = Empty
      /\ UNCHANGED <<slurm, submit, past>>
  BY DEF OpenLedger, Client
<1>2. new \in Busy
  BY <1>1, BusyClient DEF Busy
<1> HIDE DEF new
<1>3. new = [client[k] EXCEPT !.pc = "write"]
  BY DEF new
<1> QED
  BY <1>1, <1>2, <1>3, SameCopyInv

(* Writing a true copy: the file is true or garbled.                       *)
LEMMA WriteInv ==
  ASSUME LedgerInv, NEW k \in Clients, WriteLedger(k)
  PROVE  LedgerInv'
<1> PICK old \in Busy : old = client[k]
  BY BusyClient DEF WriteLedger, Client
<1> DEFINE new == AfterSave(old)
<1>1. Sincere(old) /\ submit = "done" /\ old.copy \in Ledger /\ Truthful(old.copy)
  BY BusyClient DEF WriteLedger, Client, Busy, Sincere
<1>2. /\ client' = [client EXCEPT ![k] = new]
      /\ UNCHANGED <<slurm, submit, commands, forced, shared>>
      /\ ledger' \in Written(old.copy)
  BY DEF WriteLedger, Client
<1>3. /\ ledger' \in {Empty, Garbled} \/ ledger' \in Ledger
      /\ Readable' => ledger' = old.copy
  BY <1>1, <1>2, WrittenIsTruthful
<1>4. Readable' => Truthful(ledger)'
  BY <1>1, <1>2, <1>3 DEF Truthful, Finished
<1>5. new \in {Idle} \cup Busy
  BY DEF AfterSave, Busy
<1>6. new # Idle => new.copy = old.copy /\ old.copy.status = "complete"
  BY DEF AfterSave, Busy
<1>7. new # Idle => Sincere(new)'
  BY <1>1, <1>2, <1>6 DEF Sincere, Truthful, Finished
<1>8. rolled' \in BOOLEAN
  BY <1>1 DEF WriteLedger, LedgerInv, TypeOK, Ledger
<1> HIDE DEF new
<1> QED
  BY <1>1, <1>2, <1>3, <1>4, <1>5, <1>7, <1>8, ClientInv DEF LedgerInv, TypeOK

(* A rollup marks its own copy; --force voids what the status concludes.   *)
LEMMA RollUpInv ==
  ASSUME LedgerInv, NEW k \in Clients, RollUp(k)
  PROVE  LedgerInv'
<1> PICK old \in Busy : old = client[k]
  BY BusyClient DEF RollUp
<1> DEFINE text == RolledUp(old.copy)
           new == [old EXCEPT !.pc = "open", !.copy = text]
<1>1. Sincere(old) /\ submit = "done" /\ old.copy \in Ledger /\ old.pc = "rollup"
  BY BusyClient DEF RollUp, Busy
<1>2. /\ client' = [client EXCEPT ![k] = new]
      /\ UNCHANGED <<slurm, submit, ledger, commands, rolled, shared>>
      /\ forced' = (forced \/ old.kind = "force")
  BY DEF RollUp, Client
<1>3. text \in Ledger /\ text.jobs = old.copy.jobs /\ text.status = "rolledup"
  BY <1>1 DEF RolledUp, Ledger
<1>4. ~forced' => Finished
  BY <1>1, <1>2 DEF Sincere, Truthful
<1>5. Truthful(text)'
  BY <1>1, <1>2, <1>3, <1>4 DEF Sincere, Truthful, Finished
<1> HIDE DEF text
<1>6. new \in Busy /\ new.copy = text /\ new.pc = "open"
  BY <1>3 DEF Busy
<1>7. Sincere(new)'
  BY <1>5, <1>6 DEF Sincere
<1>8. /\ ledger' \in {Empty, Garbled} \/ ledger' \in Ledger
      /\ Readable' => Truthful(ledger)'
  BY <1>1, <1>2 DEF LedgerInv, TypeOK, Truthful, Finished, Readable
<1> HIDE DEF new
<1> QED
  BY <1>1, <1>2, <1>6, <1>7, <1>8, ClientInv DEF LedgerInv, TypeOK

(* A client that ends or is killed leaves the file as it is.               *)
LEMMA IdleInv ==
  ASSUME LedgerInv, NEW k \in Clients, RollUpEnds(k) \/ ClientDies(k)
  PROVE  LedgerInv'
<1>1. client[k].pc # "idle" /\ client' = [client EXCEPT ![k] = Idle]
      /\ UNCHANGED <<slurm, submit, ledger, past>>
  BY DEF RollUpEnds, ClientDies, Client
<1> QED
  BY <1>1, SameCopyInv

(* The inductive step, one case per action.                                *)
LEMMA NextInv == LedgerInv /\ [Next]_vars => LedgerInv'
<1> SUFFICES ASSUME LedgerInv, [Next]_vars PROVE LedgerInv'
  OBVIOUS
<1>1. CASE OpenRecord \/ WriteRecord \/ SubmitStops
  BY <1>1, SubmitInv
<1>2. ASSUME NEW j \in Jobs, JobStarts(j) \/ JobEnds(j) PROVE LedgerInv'
  <2>1. /\ slurm' \in [Jobs -> JobStates]
        /\ \A i \in Jobs : slurm[i] = "ENDED" => slurm'[i] = "ENDED"
    BY <1>2 DEF JobStarts, JobEnds, LedgerInv, TypeOK, JobStates
  <2> QED
    BY <1>2, <2>1, SlurmInv DEF JobStarts, JobEnds
<1>3. ASSUME NEW k \in Clients, NEW kind \in Commands, Load(k, kind) PROVE LedgerInv'
  BY <1>3, LoadInv
<1>4. ASSUME NEW k \in Clients,
             \/ _refresh_states(k) \/ OpenLedger(k) \/ WriteLedger(k)
             \/ RollUp(k) \/ RollUpEnds(k) \/ ClientDies(k)
      PROVE  LedgerInv'
  BY <1>4, RefreshInv, OpenInv, WriteInv, RollUpInv, IdleInv
<1>5. CASE UNCHANGED vars
  <2>1. UNCHANGED <<ledger, submit, client, past>> /\ slurm' = slurm
    BY <1>5 DEF vars
  <2> QED
    BY <2>1, SlurmInv DEF LedgerInv, TypeOK
<1> QED
  BY <1>1, <1>2, <1>3, <1>4, <1>5 DEF Next

(* Every text of the ledger, in the file or in a client's hands, is true.  *)
THEOREM LedgerInvariant == Spec => []LedgerInv
  BY InitInv, NextInv, PTL DEF Spec

(* A batch is called complete, rolled up or combined only when all of its  *)
(* jobs have ended, whatever number of clients write over each other.      *)
THEOREM CompleteBatchesAreComplete == Spec => []CompleteIsTrue
<1>1. LedgerInv => CompleteIsTrue
  <2> SUFFICES ASSUME LedgerInv, ~forced PROVE
        /\ Readable /\ ledger.status \in {"complete", "rolledup"} => Finished
        /\ \A k \in Clients : client[k].pc = "rollup" /\ client[k].kind # "force"
                                => Finished
    BY DEF CompleteIsTrue
  <2>1. ASSUME Readable, ledger.status \in {"complete", "rolledup"} PROVE Finished
    <3>1. submit = "done"
      BY <2>1, ClientsComeLast DEF Recorded
    <3> QED
      BY <2>1, <3>1 DEF LedgerInv, Truthful
  <2>2. ASSUME NEW k \in Clients, client[k].pc = "rollup", client[k].kind # "force"
        PROVE  Finished
    BY <2>2, BusyClient DEF Sincere, Truthful
  <2> QED
    BY <2>1, <2>2
<1> QED
  BY <1>1, LedgerInvariant, PTL

(* The recorded jobs stay in the ledger: no client ever writes the         *)
(* placeholder back.                                                       *)
THEOREM RecordsAreKept == Spec => []RecordKept
<1>1. LedgerInv => RecordKept
  BY DEF LedgerInv, RecordKept, Truthful
<1> QED
  BY <1>1, LedgerInvariant, PTL

---------------------------------------------------------------------------
(* What keeps a result in the ledger when no two clients have the batch at *)
(* the same time: the one client that has it found the result when it read *)
(* the file, nobody else writes in between, so that the file it opens is   *)
(* empty when it writes, and no refresh takes a batch out of "rolledup".   *)
Done(l) == l.status = "rolledup" /\ l.stats_csv

Marked(l) == (l.stats_csv => Done(l)) /\ (rolled => Done(l))

KeptInv ==
  /\ submit # "done" => ~rolled
  /\ ~shared =>
       /\ \A k, o \in Clients : client[k] # Idle /\ client[o] # Idle => k = o
       /\ ledger # Garbled
       /\ \A k \in Clients : client[k].pc = "write" => ledger = Empty
       /\ Readable => Marked(ledger)
       /\ \A k \in Clients : client[k] # Idle => Marked(client[k].copy)

(* A step of one client that leaves it idle or with a text that is marked: *)
(* the others have nothing in hand.                                        *)
LEMMA AloneKept ==
  ASSUME LedgerInv, KeptInv, submit = "done", UNCHANGED submit, NEW k \in Clients, NEW new,
         client' = [client EXCEPT ![k] = new],
         ~shared' => ~shared /\ \A o \in Clients \ {k} : client[o] = Idle,
         ~shared' => ledger' # Garbled /\ (Readable => Marked(ledger))',
         ~shared' /\ new # Idle => Marked(new.copy)',
         ~shared' /\ new.pc = "write" => ledger' = Empty
  PROVE  KeptInv'
<1>1. client'[k] = new /\ \A o \in Clients \ {k} : client'[o] = client[o]
  BY DEF LedgerInv, TypeOK
<1>2. Idle.pc # "write"
  BY DEF Idle
<1> SUFFICES ASSUME ~shared' PROVE
       /\ \A i, o \in Clients : client'[i] # Idle /\ client'[o] # Idle => i = o
       /\ \A o \in Clients : client'[o].pc = "write" => ledger' = Empty
       /\ \A o \in Clients : client'[o] # Idle => Marked(client[o].copy)'
  BY DEF KeptInv
<1>3. \A o \in Clients \ {k} : client'[o] = Idle
  BY <1>1
<1>4. \A o \in Clients : client'[o] # Idle => o = k
  BY <1>3
<1>5. ASSUME NEW o \in Clients, client'[o] # Idle PROVE Marked(client[o].copy)'
  <2>1. o = k /\ client'[o] = new
    BY <1>1, <1>4, <1>5
  <2> QED
    BY <1>5, <2>1 DEF Marked
<1> QED
  BY <1>1, <1>2, <1>3, <1>4, <1>5

(* Nobody is at work while the submit is, and nothing is rolled up yet.    *)
LEMMA SubmitKept ==
  ASSUME LedgerInv, KeptInv, OpenRecord \/ WriteRecord \/ SubmitStops
  PROVE  KeptInv'
<1>1. /\ \A k \in Clients : client[k] = Idle /\ client'[k] = Idle
      /\ ~rolled /\ ~rolled' /\ shared' = shared
  BY DEF LedgerInv, KeptInv, OpenRecord, WriteRecord, SubmitStops, past
<1>2. \A k \in Clients : client'[k].pc # "write"
  BY <1>1 DEF Idle
<1>3. ~shared => ledger' # Garbled /\ (Readable => Marked(ledger))'
  <2>1. CASE OpenRecord
    BY <2>1, LedgerAssumption DEF OpenRecord, Readable
  <2>2. CASE SubmitStops
    BY <2>2, <1>1 DEF SubmitStops, KeptInv, Readable, Marked, Done
  <2>3. CASE WriteRecord
    <3> PICK status \in {"submitted", "partial"} :
          ledger' \in Written([status |-> status, jobs |-> [j \in Jobs |-> "PENDING"],
                               stats_csv |-> FALSE])
      BY <2>3 DEF WriteRecord
    <3> DEFINE new == [status |-> status, jobs |-> [j \in Jobs |-> "PENDING"],
                       stats_csv |-> FALSE]
    <3>1. ledger' = new
      BY <2>3 DEF WriteRecord, LedgerInv, Written
    <3>2. new \in Ledger
      BY DEF Ledger, JobStates
    <3>3. Readable' => Marked(new)'
      BY <1>1 DEF Marked
    <3>4. ledger' # Garbled
      BY <3>1, <3>2, ParseAssumption
    <3> QED
      BY <3>1, <3>3, <3>4 DEF Marked, Done
  <2> QED
    BY <2>1, <2>2, <2>3
<1> QED
  BY <1>1, <1>2, <1>3 DEF KeptInv

(* A busy client has the batch to itself as long as nobody shares it.      *)
LEMMA Alone ==
  ASSUME LedgerInv, KeptInv, NEW k \in Clients, client[k].pc # "idle"
  PROVE  /\ client[k] \in Busy /\ submit = "done"
         /\ ~shared => /\ \A o \in Clients \ {k} : client[o] = Idle
                       /\ Marked(client[k].copy)
BY BusyClient DEF KeptInv

(* A client that starts: it takes over what the file says, and if another  *)
(* one is at work the batch is shared from now on.                         *)
LEMMA LoadKept ==
  ASSUME LedgerInv, KeptInv, NEW k \in Clients, NEW kind \in Commands, Load(k, kind)
  PROVE  KeptInv'
<1> PICK l \in Ledger : l = ledger
  BY DEF LedgerInv, TypeOK, Load, Readable
<1> DEFINE new == [pc |-> IF Refreshes(kind, l) THEN "refresh" ELSE "rollup",
                   kind |-> kind, copy |-> l]
<1>1. submit = "done"
  BY ClientsComeLast DEF Load
<1>2. /\ client' = [client EXCEPT ![k] = new]
      /\ UNCHANGED <<submit, ledger, rolled>> /\ Readable
      /\ ~shared' => ~shared /\ \A o \in Clients \ {k} : client[o] = Idle
  BY DEF Load, Client
<1>3. new.copy = l /\ new.pc # "write"
  BY DEF Refreshes
<1>4. ~shared' => ledger' # Garbled /\ (Readable => Marked(ledger))' /\ Marked(l)'
  BY <1>2 DEF KeptInv, Marked, Readable
<1>5. ~shared' /\ new # Idle => Marked(new.copy)'
  BY <1>2, <1>3, <1>4 DEF Marked
<1>6. ~shared' /\ new.pc = "write" => ledger' = Empty
  BY <1>3
<1> HIDE DEF new
<1> QED
  BY <1>1, <1>2, <1>4, <1>5, <1>6, AloneKept

(* A refresh does not take a result back.                                  *)
LEMMA RefreshKept ==
  ASSUME LedgerInv, KeptInv, NEW k \in Clients, _refresh_states(k)
  PROVE  KeptInv'
<1> PICK old \in Busy : old = client[k]
  BY BusyClient DEF _refresh_states
<1> PICK known \in Refreshed(old.copy.jobs) :
      client' = [client EXCEPT ![k] = [old EXCEPT !.pc = "open",
                                                  !.copy = Updated(@, known)]]
  BY DEF _refresh_states, Client
<1> DEFINE text == Updated(old.copy, known)
           new == [old EXCEPT !.pc = "open", !.copy = text]
<1>1. /\ old.copy \in Ledger /\ submit = "done" /\ UNCHANGED <<submit, ledger, past>>
      /\ ~shared => Marked(old.copy) /\ \A o \in Clients \ {k} : client[o] = Idle
  BY Alone DEF _refresh_states, Client, Busy
<1>2. /\ text.stats_csv = old.copy.stats_csv
      /\ old.copy.status = "rolledup" => text.status = "rolledup"
  BY <1>1 DEF Updated, StatusAfter, Ledger
<1>3. ~shared' => Marked(text)'
  BY <1>1, <1>2 DEF Marked, Done, past
<1> HIDE DEF text
<1>4. new.copy = text /\ new.pc = "open"
  BY DEF Busy
<1>5. ~shared' => ledger' # Garbled /\ (Readable => Marked(ledger))'
  BY <1>1 DEF KeptInv, Readable, Marked, past
<1>6. client' = [client EXCEPT ![k] = new]
  BY DEF text
<1>7. ~shared' /\ new # Idle => Marked(new.copy)'
  BY <1>3, <1>4 DEF Marked
<1>8. UNCHANGED <<submit, shared>>
  BY <1>1 DEF past
<1> HIDE DEF new
<1> QED
  BY <1>1, <1>4, <1>5, <1>6, <1>7, <1>8, AloneKept

(* The file that is opened is empty until the one who opened it writes.    *)
LEMMA OpenKept ==
  ASSUME LedgerInv, KeptInv, NEW k \in Clients, OpenLedger(k)
  PROVE  KeptInv'
<1> PICK old \in Busy : old = client[k]
  BY BusyClient DEF OpenLedger, Client
<1> DEFINE new == [old EXCEPT !.pc = "write"]
<1>1. /\ client' = [client EXCEPT ![k] = new] /\ ledger' = Empty
      /\ submit = "done" /\ UNCHANGED <<submit, past>>
      /\ ~shared => Marked(old.copy) /\ \A o \in Clients \ {k} : client[o] = Idle
  BY Alone DEF OpenLedger, Client
<1>2. new.copy = old.copy /\ new.pc = "write"
  BY <1>1 DEF Busy
<1> HIDE DEF new
<1>3. ~shared' => Marked(new.copy)'
  BY <1>1, <1>2 DEF Marked, past
<1>4. ledger' # Garbled /\ ~Readable'
  BY <1>1, LedgerAssumption DEF Readable
<1>5. UNCHANGED shared
  BY <1>1 DEF past
<1> QED
  BY <1>1, <1>3, <1>4, <1>5, AloneKept

(* The copy of the one client goes into an empty file, and no result that  *)
(* the file has had before is missing in it.                               *)
LEMMA WriteKept ==
  ASSUME LedgerInv, KeptInv, NEW k \in Clients, WriteLedger(k)
  PROVE  KeptInv'
<1> PICK old \in Busy : old = client[k]
  BY BusyClient DEF WriteLedger, Client
<1> DEFINE new == AfterSave(old)
<1>1. /\ old.copy \in Ledger /\ old.pc = "write" /\ submit = "done"
      /\ client' = [client EXCEPT ![k] = new] /\ UNCHANGED <<submit, shared>>
      /\ ledger' \in Written(old.copy) /\ rolled' = (rolled \/ old.copy.stats_csv)
      /\ ~shared => Marked(old.copy) /\ \A o \in Clients \ {k} : client[o] = Idle
  BY Alone DEF WriteLedger, Client, Busy
<1>2. ~shared => ledger' = old.copy
  BY <1>1 DEF Written, KeptInv
<1>3. ~shared => Marked(old.copy)'
  BY <1>1 DEF Marked
<1>4. ~shared => ledger' # Garbled
  BY <1>1, <1>2, ParseAssumption
<1>5. new # Idle => new.copy = old.copy /\ new.pc = "rollup"
  BY DEF AfterSave, Busy
<1> HIDE DEF new
<1>6. ~shared' /\ new # Idle => Marked(new.copy)'
  BY <1>1, <1>3, <1>5 DEF Marked
<1>7. ~shared' /\ new.pc = "write" => ledger' = Empty
  BY <1>5 DEF Idle
<1>8. ~shared' => (Readable => Marked(ledger))'
  BY <1>1, <1>2, <1>3 DEF Marked
<1> QED
  BY <1>1, <1>4, <1>6, <1>7, <1>8, AloneKept

(* A rollup marks its copy as done.                                        *)
LEMMA RollUpKept ==
  ASSUME LedgerInv, KeptInv, NEW k \in Clients, RollUp(k)
  PROVE  KeptInv'
<1> PICK old \in Busy : old = client[k]
  BY BusyClient DEF RollUp
<1> DEFINE text == RolledUp(old.copy)
           new == [old EXCEPT !.pc = "open", !.copy = text]
<1>1. /\ old.copy \in Ledger /\ submit = "done"
      /\ client' = [client EXCEPT ![k] = new]
      /\ UNCHANGED <<submit, ledger, rolled, shared>>
      /\ ~shared => \A o \in Clients \ {k} : client[o] = Idle
  BY Alone DEF RollUp, Client, Busy
<1>2. Done(text)
  BY <1>1 DEF Done, RolledUp, Ledger
<1> HIDE DEF text
<1>3. new.copy = text /\ new.pc = "open"
  BY DEF Busy
<1>4. ~shared' => ledger' # Garbled /\ (Readable => Marked(ledger))'
  BY <1>1 DEF KeptInv, Readable, Marked
<1> HIDE DEF new
<1>5. Marked(new.copy)'
  BY <1>2, <1>3, <1>1 DEF Marked, Done
<1> QED
  BY <1>1, <1>3, <1>4, <1>5, AloneKept

(* A client that ends or is killed, between its two writes too.            *)
LEMMA IdleKept ==
  ASSUME LedgerInv, KeptInv, NEW k \in Clients, RollUpEnds(k) \/ ClientDies(k)
  PROVE  KeptInv'
<1>1. client[k].pc # "idle" /\ client' = [client EXCEPT ![k] = Idle]
      /\ UNCHANGED <<slurm, submit, ledger, past>>
  BY DEF RollUpEnds, ClientDies, Client
<1>2. submit = "done" /\ (~shared => \A o \in Clients \ {k} : client[o] = Idle)
  BY <1>1, Alone
<1>3. ~shared' => ledger' # Garbled /\ (Readable => Marked(ledger))'
  BY <1>1 DEF KeptInv, Readable, Marked, past
<1>4. Idle.pc # "write"
  BY DEF Idle
<1>5. UNCHANGED shared
  BY <1>1 DEF past
<1> QED
  BY <1>1, <1>2, <1>3, <1>4, <1>5, AloneKept

(* A step of Slurm, or none.                                               *)
LEMMA OutsideKept ==
  ASSUME LedgerInv, KeptInv, UNCHANGED <<ledger, submit, client, past>>
  PROVE  KeptInv'
BY DEF KeptInv, Readable, Marked, past

(* The inductive step, one case per action.                                *)
LEMMA NextKept == LedgerInv /\ KeptInv /\ [Next]_vars => KeptInv'
<1> SUFFICES ASSUME LedgerInv, KeptInv, [Next]_vars PROVE KeptInv'
  OBVIOUS
<1>1. CASE OpenRecord \/ WriteRecord \/ SubmitStops
  BY <1>1, SubmitKept
<1>2. ASSUME NEW j \in Jobs, JobStarts(j) \/ JobEnds(j) PROVE KeptInv'
  BY <1>2, OutsideKept DEF JobStarts, JobEnds
<1>3. ASSUME NEW k \in Clients, NEW kind \in Commands, Load(k, kind) PROVE KeptInv'
  BY <1>3, LoadKept
<1>4. ASSUME NEW k \in Clients,
             \/ _refresh_states(k) \/ OpenLedger(k) \/ WriteLedger(k)
             \/ RollUp(k) \/ RollUpEnds(k) \/ ClientDies(k)
      PROVE  KeptInv'
  BY <1>4, RefreshKept, OpenKept, WriteKept, RollUpKept, IdleKept
<1>5. CASE UNCHANGED vars
  BY <1>5, OutsideKept DEF vars
<1> QED
  BY <1>1, <1>2, <1>3, <1>4, <1>5 DEF Next

(* A result that rollup has saved is lost, and the file garbled, only when *)
(* two commands have had the batch at the same time; commands that are     *)
(* killed halfway do not do it.                                            *)
THEOREM ResultsStay == Spec => []RolledUpStays
<1>1. Init => KeptInv
  <2> SUFFICES ASSUME Init PROVE KeptInv
    OBVIOUS
  <2>1. Placeholder \in Ledger /\ ~Placeholder.stats_csv
    BY DEF Placeholder, Ledger
  <2>2. ledger # Garbled
    BY <2>1, ParseAssumption DEF Init
  <2>3. Marked(ledger)
    BY <2>1 DEF Init, Marked
  <2>4. \A k \in Clients : client[k] = Idle /\ client[k].pc # "write"
    BY DEF Init, Idle
  <2> QED
    BY <2>2, <2>3, <2>4 DEF Init, KeptInv
<1>2. LedgerInv /\ KeptInv => RolledUpStays
  BY DEF KeptInv, RolledUpStays, Marked, Done
<1> QED
  BY <1>1, <1>2, LedgerInvariant, NextKept, PTL DEF Spec
===========================================================================
