---------------------------- MODULE AtomicCache ----------------------------
(***************************************************************************)
(* What the node-local trace cache promises to the jobs of a node, for one *)
(* cache key: the entry appears whole and goes away whole, and a job is    *)
(* only told its path at a moment when the entry is the trace it asked     *)
(* for.  There is no lock here, no temporary file and no copying.          *)
(***************************************************************************)
CONSTANTS Jobs, Contents, Absent, Any

VARIABLES
  want,     \* per job: the content it insists on, or Any
  entry,    \* Absent, or the content of the cached file
  outcome   \* per job: "waiting", "returned" or "failed"

cache == <<want, entry, outcome>>

Suits(j, content) == content \in Contents /\ want[j] \in {Any, content}

Waiting(j) == outcome[j] = "waiting"

Init ==
  /\ want \in [Jobs -> Contents \cup {Any}]
  /\ entry \in Contents \cup {Absent}
  /\ outcome = [j \in Jobs |-> "waiting"]

(* A whole trace appears that some waiting job can use.                    *)
Publish ==
  /\ entry = Absent
  /\ entry' \in Contents
  /\ \E j \in Jobs : Waiting(j) /\ Suits(j, entry')
  /\ UNCHANGED <<want, outcome>>

(* The entry is given up only for a waiting job that cannot use it.        *)
Evict ==
  /\ entry # Absent /\ entry' = Absent
  /\ \E j \in Jobs : Waiting(j) /\ ~Suits(j, entry)
  /\ UNCHANGED <<want, outcome>>

Return(j) ==
  /\ Waiting(j) /\ Suits(j, entry)
  /\ outcome' = [outcome EXCEPT ![j] = "returned"]
  /\ UNCHANGED <<want, entry>>

(* Any job may fail or be killed, even on its way to the trace it was      *)
(* given; a node that crashes kills several and may lose the entry.        *)
Fail ==
  /\ \E dead \in SUBSET Jobs :
       outcome' = [j \in Jobs |-> IF j \in dead THEN "failed" ELSE outcome[j]]
  /\ entry' \in {entry, Absent}
  /\ UNCHANGED want

Next == Publish \/ Evict \/ Fail \/ \E j \in Jobs : Return(j)

Spec == Init /\ [][Next]_cache
===========================================================================
