--------------------------- MODULE Trigger_proofs ---------------------------
(***************************************************************************)
(* The safety of the deferred start, for any number of vCPU threads, any   *)
(* polling interval and any number of touches.                             *)
(***************************************************************************)
EXTENDS Trigger, TLAPS

(* Every reachable state is well-typed.                                    *)
LEMMA TriggerType == Spec => []TypeOK
<1>1. Init => TypeOK
  <2>1. 0 \in 0 .. CounterMod - 1 /\ 0 \in 0 .. MaxTouches
    BY TriggerAssumption
  <2> QED BY <2>1 DEF Init, TypeOK
<1>2. TypeOK /\ [Next]_vars => TypeOK'
  <2> SUFFICES ASSUME TypeOK, [Next]_vars PROVE TypeOK'
    OBVIOUS
  <2> USE DEF TypeOK, At, shared, host
  <2>1. CASE Install
    BY <2>1 DEF Install
  <2>2. CASE Touch
    BY <2>2, TriggerAssumption DEF Touch
  <2>3. CASE Exit
    BY <2>3 DEF Exit
  <2>4. ASSUME NEW t \in Threads, Enter(t) PROVE TypeOK'
    BY <2>4 DEF Enter
  <2>5. ASSUME NEW t \in Threads, Callback(t) PROVE TypeOK'
    <3>1. Incremented(t) \in 0 .. CounterMod - 1
      BY TriggerAssumption DEF Incremented
    <3>2. CASE Load(t)
      BY <3>2 DEF Load
    <3>3. CASE Store(t)
      BY <3>1, <3>3 DEF Store
    <3>4. CASE Test(t)
      BY <3>4 DEF Test
    <3>5. CASE Reset(t)
      BY <3>5, TriggerAssumption DEF Reset
    <3>6. CASE Access(t)
      BY <3>6 DEF Access
    <3>7. CASE Enable(t)
      BY <3>7 DEF Enable
    <3>8. CASE Unlink(t)
      BY <3>8 DEF Unlink
    <3> QED BY <2>5, <3>2, <3>3, <3>4, <3>5, <3>6, <3>7, <3>8 DEF Callback
  <2>6. CASE UNCHANGED vars
    BY <2>6 DEF vars
  <2> QED BY <2>1, <2>2, <2>3, <2>4, <2>5, <2>6 DEF Next
<1> QED BY <1>1, <1>2, PTL DEF Spec

(* PollInv is inductive relative to the types.                             *)
LEMMA PollInductive == TypeOK /\ PollInv /\ [Next]_vars => PollInv'
<1> SUFFICES ASSUME TypeOK, PollInv, [Next]_vars PROVE PollInv'
  OBVIOUS
<1> USE DEF TypeOK, PollInv, At, shared, host
<1>1. CASE Install
  BY <1>1 DEF Install
<1>2. CASE Touch
  BY <1>2 DEF Touch
<1>3. CASE Exit
  BY <1>3 DEF Exit
<1>4. ASSUME NEW t \in Threads, Enter(t) PROVE PollInv'
  BY <1>4 DEF Enter
<1>5. ASSUME NEW t \in Threads, Callback(t) PROVE PollInv'
  <2>1. CASE Load(t)
    BY <2>1 DEF Load
  <2>2. CASE Store(t)
    BY <2>2 DEF Store
  <2>3. CASE Test(t)
    BY <2>3 DEF Test
  <2>4. CASE Reset(t)
    BY <2>4 DEF Reset
  <2>5. CASE Access(t)
    BY <2>5 DEF Access
  <2>6. CASE Enable(t)
    BY <2>6 DEF Enable
  <2>7. CASE Unlink(t)
    BY <2>7 DEF Unlink
  <2> QED BY <1>5, <2>1, <2>2, <2>3, <2>4, <2>5, <2>6, <2>7 DEF Callback
<1>6. CASE UNCHANGED vars
  BY <1>6 DEF vars
<1> QED BY <1>1, <1>2, <1>3, <1>4, <1>5, <1>6 DEF Next

(* PollInv holds in every reachable state.                                 *)
LEMMA PollInvariant == Spec => []PollInv
<1>1. Init => PollInv
  BY DEF Init, PollInv
<1> QED BY <1>1, TriggerType, PollInductive, PTL DEF Spec

(* A stale trigger file never starts a trace.                              *)
THEOREM NoStale == Spec => []NoStaleTrigger
<1>1. PollInv => NoStaleTrigger
  BY DEF PollInv, NoStaleTrigger
<1> QED BY <1>1, PollInvariant, PTL

(* The plugin never removes a trigger that has not started the trace.      *)
THEOREM NotSwallowed == Spec => TouchNotSwallowed
<1>1. TypeOK /\ PollInv /\ [Next]_vars
        => [qemu = "running" /\ file /\ ~file' => tracing_enabled]_vars
  <2> SUFFICES ASSUME TypeOK, PollInv, Next, qemu = "running", file, ~file'
               PROVE  tracing_enabled
    BY DEF vars
  <2>1. PICK t \in Threads : Unlink(t)
    <3> USE DEF At, shared, host
    <3>1. ~Install /\ ~Touch /\ ~Exit
      BY DEF Install, Touch, Exit
    <3>2. PICK t \in Threads : Enter(t) \/ Callback(t)
      BY <3>1 DEF Next
    <3>3. ~(Enter(t) \/ Load(t) \/ Store(t) \/ Test(t) \/ Reset(t) \/ Access(t) \/ Enable(t))
      BY DEF Enter, Load, Store, Test, Reset, Access, Enable
    <3> QED BY <3>2, <3>3 DEF Callback
  <2> QED BY <2>1 DEF Unlink, At, PollInv
<1> QED BY <1>1, TriggerType, PollInvariant, PTL DEF Spec, TouchNotSwallowed
===========================================================================
