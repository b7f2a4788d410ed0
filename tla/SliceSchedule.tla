-------------------------- MODULE SliceSchedule --------------------------
(***************************************************************************)
(* What rotate= and sample_len= promise about one vCPU, without buffers,   *)
(* pending instructions, files or manifest: which of the instructions the  *)
(* guest executes are kept, and into which slice each goes.                *)
(*                                                                         *)
(* plan.len = 0 is one unbounded slice; plan.gap = 0 with the `all' clock  *)
(* cuts slices that follow each other without a hole.  rotate=N and        *)
(* sample_len=N,sample_gap=0,sample_clock=all are the same plan: a tracer  *)
(* that implements this module captures the same slices for both.          *)
(***************************************************************************)
EXTENDS Integers, Sequences, FiniteSets

VARIABLES
  plan,     \* [len, gap, count, limit : Nat, clock_user : BOOLEAN]
  hist,     \* hist[k]: instruction k was a user-mode one
  slices,   \* sequence of non-empty sequences of instruction positions
  stopped   \* the recorder has given up or is done

schedule == <<plan, hist, slices, stopped>>

Init ==
  /\ plan \in [len : Nat, gap : Nat, count : Nat, limit : Nat, clock_user : BOOLEAN]
  /\ hist = << >> /\ slices = << >> /\ stopped = FALSE

Current == slices[Len(slices)]

(* The instructions executed after the last slice, or all of them.         *)
Since == (IF slices = << >> THEN 1 ELSE Current[Len(Current)] + 1) .. Len(hist)

Kept == UNION { {slices[i][j] : j \in DOMAIN slices[i]} : i \in DOMAIN slices }

Clock(user) == ~plan.clock_user \/ user

InSlice == slices # << >> /\ (plan.len = 0 \/ Len(Current) < plan.len)

Exhausted ==
  \/ plan.limit > 0 /\ Cardinality(Kept) >= plan.limit
  \/ plan.count > 0 /\ Len(slices) >= plan.count /\ ~InSlice

(* The first slice starts with the first instruction; a later one when the *)
(* gap since the last slice has seen plan.gap ticks of the clock, and on a *)
(* tick of the clock.                                                      *)
Opens(user) ==
  /\ ~InSlice /\ ~Exhausted
  /\ slices = << >> \/ (/\ Cardinality({k \in Since : Clock(hist[k])}) >= plan.gap
                        /\ Clock(user))

Extends == InSlice /\ ~Exhausted

Executed(user) == hist' = Append(hist, user) /\ UNCHANGED plan

Extend(user) ==
  /\ Executed(user) /\ ~stopped /\ Extends
  /\ slices' = [slices EXCEPT ![Len(slices)] = Append(@, Len(hist) + 1)]
  /\ UNCHANGED stopped

Open(user) ==
  /\ Executed(user) /\ ~stopped /\ Opens(user)
  /\ slices' = Append(slices, <<Len(hist) + 1>>)
  /\ UNCHANGED stopped

(* The file of the new slice cannot be created.                            *)
Fail(user) ==
  /\ Executed(user) /\ ~stopped /\ Opens(user)
  /\ stopped' = TRUE
  /\ UNCHANGED slices

Skip(user) ==
  /\ Executed(user)
  /\ stopped \/ ~(Extends \/ Opens(user))
  /\ stopped' = TRUE => stopped \/ Exhausted
  /\ stopped => stopped'
  /\ stopped' \in BOOLEAN
  /\ UNCHANGED slices

Next == \E user \in BOOLEAN :
          Extend(user) \/ Open(user) \/ Fail(user) \/ Skip(user)

Spec == Init /\ [][Next]_schedule
===========================================================================
