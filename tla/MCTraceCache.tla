--------------------------- MODULE MCTraceCache ---------------------------
(* Which checksums the jobs of the TraceCache runs were given.             *)
EXTENDS TraceCache

CONSTANTS old, new

Traces == {old, new}

(* One batch: every job has the checksum of the trace, or none has one.    *)
OneBatch == { [j \in Jobs |-> new], [j \in Jobs |-> Any] }

(* Batches that disagree about the trace of this basename.                 *)
Disagreeing ==
  { w \in [Jobs -> {old, new, Any}] : Cardinality({w[j] : j \in Jobs}) = Cardinality(Jobs) }

Batches == OneBatch \cup Disagreeing
=========================================================================
