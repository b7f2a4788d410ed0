----------------------------- MODULE TraceCache -----------------------------
(***************************************************************************)
(* The node-local trace cache (src/scripts/fetch_trace.py), as the jobs of *)
(* one node use it through src/scripts/run_champsim.py: one cache key,     *)
(* several jobs that call fetch() at the same time and then let ChampSim   *)
(* open the path they were given.                                          *)
(*                                                                         *)
(* The kernel drops a flock with the process that holds it; a temporary    *)
(* file stays where it is until somebody removes it.                       *)
(***************************************************************************)
EXTENDS Integers, FiniteSets

CONSTANTS
  Jobs,           \* the jobs that want the trace
  Contents,       \* whole traces known under this basename
  Wants,          \* the assignments of checksums to jobs the run considers
  Schemes,        \* the kinds of source: subset of {"path", "s3"}
  JobsMayDie,     \* jobs may be killed or interrupted by SIGTERM
  NodeMayCrash,   \* the node may lose power and come back
  Absent, Torn, Any, NoJob

ASSUME CacheAssumption ==
  /\ IsFiniteSet(Jobs) /\ NoJob \notin Jobs
  /\ {Absent, Torn, Any} \cap Contents = {} /\ Absent # Torn
  /\ Wants \subseteq [Jobs -> Contents \cup {Any}]
  /\ Schemes \subseteq {"path", "s3"}
  /\ JobsMayDie \in BOOLEAN /\ NodeMayCrash \in BOOLEAN

VARIABLES
  want,     \* per job: the content with the checksum it was given, or Any
  source,   \* what the source path holds (Absent: it is missing)
  scheme,
  entry,    \* what cached_path holds
  durable,  \* the entry's data has reached the disk
  lock,     \* the holder of the flock
  pc,       \* per job
  tmp,      \* per job: its temporary file
  opened,   \* per job: what ChampSim found at the path
  published,\* history: the jobs that published an entry
  crashed   \* history: the node has crashed

vars ==
  <<want, source, scheme, entry, durable, lock, pc, tmp, opened, published, crashed>>

given == <<want, source, scheme>>

Data == Contents \cup {Torn}
File == Data \cup {Absent}

Steps == {"start", "lookup", "verify", "evict", "source", "copy", "check",
          "publish", "cleanup", "publishedOk", "open", "done", "failed", "killed"}

TypeOK ==
  /\ want \in Wants
  /\ source \in Contents \cup {Absent}
  /\ scheme \in Schemes
  /\ entry \in File /\ durable \in BOOLEAN
  /\ lock \in Jobs \cup {NoJob}
  /\ pc \in [Jobs -> Steps]
  /\ tmp \in [Jobs -> File]
  /\ opened \in [Jobs -> File]
  /\ published \subseteq Jobs
  /\ crashed \in BOOLEAN

(* The entry may be left over from an earlier batch.                       *)
Init ==
  /\ want \in Wants
  /\ source \in Contents \cup {Absent}
  /\ scheme \in Schemes
  /\ entry \in Contents \cup {Absent} /\ durable = TRUE
  /\ lock = NoJob
  /\ pc = [j \in Jobs |-> "start"]
  /\ tmp = [j \in Jobs |-> Absent]
  /\ opened = [j \in Jobs |-> Absent]
  /\ published = {}
  /\ crashed = FALSE

At(j, from, to) == pc[j] = from /\ pc' = [pc EXCEPT ![j] = to]

Keep(x) == UNCHANGED <<given, x>>

disk == <<entry, durable, tmp, opened, published, crashed>>

---------------------------------------------------------------------------
Lock(j) ==
  /\ At(j, "start", "lookup")
  /\ lock = NoJob
  /\ lock' = j
  /\ Keep(disk)

\* Mutant: the cache is not consulted under the lock.
Lookup_never(j) == At(j, "lookup", "source") /\ Keep(<<lock, disk>>)

(* os.path.exists(cached_path): without a checksum presence is validity.   *)
(* Returning closes the lock file.                                         *)
Lookup(j) ==
  \/ entry = Absent /\ At(j, "lookup", "source") /\ Keep(<<lock, disk>>)
  \/ /\ entry # Absent /\ want[j] = Any
     /\ At(j, "lookup", "open")
     /\ lock' = NoJob
     /\ Keep(disk)
  \/ entry # Absent /\ want[j] # Any /\ At(j, "lookup", "verify") /\ Keep(<<lock, disk>>)

\* Mutant: a checksum makes no difference to a hit.
Verify_trusts(j) == At(j, "verify", "open") /\ lock' = NoJob /\ Keep(disk)

Verify(j) ==
  \/ entry = want[j] /\ At(j, "verify", "open") /\ lock' = NoJob /\ Keep(disk)
  \/ entry # want[j] /\ At(j, "verify", "evict") /\ Keep(<<lock, disk>>)

Evict(j) ==
  /\ At(j, "evict", "source")
  /\ entry' = Absent
  /\ Keep(<<lock, durable, tmp, opened, published, crashed>>)

(* A missing source path is found out here, a missing s3 object by aws.    *)
FindSource(j) ==
  \/ /\ scheme = "path" /\ source = Absent
     /\ At(j, "source", "failed")
     /\ lock' = NoJob
     /\ Keep(disk)
  \/ /\ scheme = "s3" \/ source # Absent
     /\ At(j, "source", "copy")
     /\ tmp' = [tmp EXCEPT ![j] = Torn]
     /\ Keep(<<lock, entry, durable, opened, published, crashed>>)

(* Copying ends with the whole trace, or with an error at any point of it. *)
Copy(j) ==
  \/ /\ source # Absent
     /\ At(j, "copy", "check")
     /\ tmp' = [tmp EXCEPT ![j] = source]
     /\ Keep(<<lock, entry, durable, opened, published, crashed>>)
  \/ At(j, "copy", "cleanup") /\ Keep(<<lock, disk>>)

\* Mutant: the fresh copy is trusted.
Check_nothing(j) == At(j, "check", "publish") /\ Keep(<<lock, disk>>)

Check(j) ==
  LET ok == want[j] \in {Any, tmp[j]}
  IN  At(j, "check", IF ok THEN "publish" ELSE "cleanup") /\ Keep(<<lock, disk>>)

\* Mutant: no fsync before the rename.
Publish_unsynced(j) ==
  /\ At(j, "publish", "publishedOk")
  /\ entry' = tmp[j]
  /\ durable' = FALSE
  /\ tmp' = [tmp EXCEPT ![j] = Absent]
  /\ published' = published \cup {j}
  /\ Keep(<<lock, opened, crashed>>)

(* rename(2); a copy from a path was synced first, a download was not.     *)
Publish(j) ==
  /\ At(j, "publish", "publishedOk")
  /\ entry' = tmp[j]
  /\ durable' = (scheme = "path")
  /\ tmp' = [tmp EXCEPT ![j] = Absent]
  /\ published' = published \cup {j}
  /\ Keep(<<lock, opened, crashed>>)

Return(j) ==
  /\ At(j, "publishedOk", "open")
  /\ lock' = NoJob
  /\ Keep(disk)

Cleanup(j) ==
  /\ At(j, "cleanup", "failed")
  /\ lock' = NoJob
  /\ tmp' = [tmp EXCEPT ![j] = Absent]
  /\ Keep(<<entry, durable, opened, published, crashed>>)

(* run_champsim.py starts ChampSim, which opens the path it was given.     *)
Open(j) ==
  /\ At(j, "open", "done")
  /\ opened' = [opened EXCEPT ![j] = entry]
  /\ Keep(<<lock, entry, durable, tmp, published, crashed>>)

Ended(j) == pc[j] \in {"done", "failed", "killed"}

\* Mutant: a lock that outlives its holder (a lock file in place of flock).
Die_locked(j) ==
  /\ JobsMayDie
  /\ ~Ended(j)
  /\ pc' = [pc EXCEPT ![j] = "killed"]
  /\ Keep(<<lock, disk>>)

(* The job is killed, or SIGTERM makes the handler of run_champsim.py      *)
(* raise SystemExit inside fetch(), which `except Exception' lets through: *)
(* the lock goes, the temporary file stays.                                *)
Die(j) ==
  /\ JobsMayDie
  /\ ~Ended(j)
  /\ pc' = [pc EXCEPT ![j] = "killed"]
  /\ lock' = IF lock = j THEN NoJob ELSE lock
  /\ Keep(disk)

(* Every job that has begun is gone, and data that was not synced may be.  *)
NodeCrash ==
  /\ NodeMayCrash
  /\ \E j \in Jobs : ~Ended(j) /\ pc[j] # "start"
  /\ pc' = [j \in Jobs |-> IF Ended(j) \/ pc[j] = "start" THEN pc[j] ELSE "killed"]
  /\ lock' = NoJob
  /\ entry' \in {entry, Absent} \cup (IF durable \/ entry = Absent THEN {} ELSE {Torn})
  /\ durable' = TRUE
  /\ crashed' = TRUE
  /\ Keep(<<tmp, opened, published>>)

Step(j) ==
  \/ Lock(j) \/ Lookup(j) \/ Verify(j) \/ Evict(j) \/ FindSource(j) \/ Copy(j)
  \/ Check(j) \/ Publish(j) \/ Return(j) \/ Cleanup(j) \/ Open(j)

Next == (\E j \in Jobs : Step(j) \/ Die(j)) \/ NodeCrash

(* The operating system runs every job, and hands a free flock on.         *)
Spec == Init /\ [][Next]_vars /\ \A j \in Jobs : WF_vars(Step(j))

---------------------------------------------------------------------------
(* fetch() as a whole implements the cache it promises to be.              *)
outcome ==
  [j \in Jobs |-> CASE pc[j] \in {"failed", "killed"} /\ opened[j] = Absent -> "failed"
                    [] pc[j] \in {"open", "done"} -> "returned"
                    [] OTHER -> "waiting"]

Atomic == INSTANCE AtomicCache WITH outcome <- outcome

(* A crash loses what a download has not synced (NeverTorn); up to that    *)
(* point, and through any crash when the trace comes from a path, every    *)
(* step is one of the abstract cache.                                      *)
Survives == scheme = "path" \/ ~crashed

ImplementsAtomicCache ==
  /\ Atomic!Init
  /\ [][Survives' => [Atomic!Next]_(Atomic!cache)]_vars

Agreed == \A i, j \in Jobs : want[i] = want[j]

(* Jobs that agree on the trace simulate it: the path is still there when  *)
(* ChampSim opens it, with the content the checksum promised.              *)
OpensWhatItAskedFor ==
  Agreed /\ Survives =>
    \A j \in Jobs : pc[j] = "done" => opened[j] \in Contents /\ want[j] \in {Any, opened[j]}

(* Whatever the jobs ask for, none ever reads a partial trace: readers     *)
(* either see no entry or a complete entry.                                *)
NeverTorn == \A j \in Jobs : opened[j] # Torn

(* So it is for a copy from a path even if the node crashes at any moment. *)
NeverTornFromPath == Survives => NeverTorn

(* Jobs that agree on the trace fetch it once per node: the ones that wait *)
(* for the lock find it, until a crash loses the entry.                    *)
PublishedOnce == Agreed /\ ~crashed => Cardinality(published) <= 1

(* No job waits for ever, whichever of the others die with the lock.       *)
EveryJobEnds == \A j \in Jobs : <>Ended(j)
===========================================================================
