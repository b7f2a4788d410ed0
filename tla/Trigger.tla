------------------------------ MODULE Trigger ------------------------------
(***************************************************************************)
(* The deferred start of the tracing plugin (trigger=<path> of             *)
(* src/tracer/rpoint-cs/plugin/champsim_tracer.c), at the grain of single  *)
(* loads and stores.                                                       *)
(*                                                                         *)
(* Under multi-threaded TCG every traced vCPU runs insn_exec_cb on its own *)
(* host thread.  While tracing is dormant they share one plain counter,    *)
(* and whoever sees it reach the interval polls for the trigger file.      *)
(* ChampSimTracer takes the outcome of this module as one atomic step.     *)
(***************************************************************************)
EXTENDS Integers, FiniteSets

CONSTANTS
  Threads,        \* host threads of the traced vCPUs
  CheckInterval,  \* TRIGGER_CHECK_INTERVAL
  CounterMod,     \* 2^64 in the code: the counter is a uint64_t
  MaxTouches      \* bound: times the user touches the trigger file

ASSUME TriggerAssumption ==
  /\ IsFiniteSet(Threads) /\ Threads # {}
  /\ CheckInterval \in Nat \ {0}
  /\ CounterMod \in Nat /\ CounterMod > CheckInterval
  /\ MaxTouches \in Nat

VARIABLES
  qemu,     \* "starting", then "running", then "exited"
  file,     \* the trigger file exists
  touches,  \* times the user has touched it
  armed,    \* history: touched since the plugin was installed
  tracing_enabled,
  trigger_check_counter,
  pc, reg   \* per thread: the next access to make, and the value last loaded

vars == <<qemu, file, touches, armed, tracing_enabled, trigger_check_counter, pc, reg>>

shared == <<file, armed, tracing_enabled, trigger_check_counter>>

host == <<qemu, touches>>

TypeOK ==
  /\ qemu \in {"starting", "running", "exited"}
  /\ file \in BOOLEAN /\ armed \in BOOLEAN /\ tracing_enabled \in BOOLEAN
  /\ touches \in 0 .. MaxTouches
  /\ trigger_check_counter \in 0 .. CounterMod - 1
  /\ pc \in [Threads -> {"guest", "load", "store", "test", "reset",
                         "access", "enable", "unlink"}]
  /\ reg \in [Threads -> 0 .. CounterMod - 1]

(* A file of an earlier run may still be lying around.                     *)
Init ==
  /\ qemu = "starting"
  /\ file \in BOOLEAN
  /\ touches = 0
  /\ armed = FALSE
  /\ tracing_enabled = FALSE
  /\ trigger_check_counter = 0
  /\ pc = [t \in Threads |-> "guest"]
  /\ reg = [t \in Threads |-> 0]

---------------------------------------------------------------------------
\* Mutant: a stale file is left where it is.
Install_keeps_stale ==
  /\ qemu = "starting"
  /\ qemu' = "running"
  /\ UNCHANGED <<file, touches, armed, tracing_enabled, trigger_check_counter, pc, reg>>

(* qemu_plugin_install removes a stale file before any callback can run.   *)
Install ==
  /\ qemu = "starting"
  /\ qemu' = "running"
  /\ file' = FALSE
  /\ UNCHANGED <<touches, armed, tracing_enabled, trigger_check_counter, pc, reg>>

Touch ==
  /\ touches < MaxTouches
  /\ touches' = touches + 1
  /\ file' = TRUE
  /\ armed' = (armed \/ qemu = "running")
  /\ UNCHANGED <<qemu, tracing_enabled, trigger_check_counter, pc, reg>>

At(t, from, to) ==
  /\ qemu = "running"
  /\ pc[t] = from
  /\ pc' = [pc EXCEPT ![t] = to]
  /\ UNCHANGED host

(* insn_exec_cb is entered and finds tracing dormant.  Once it is enabled  *)
(* the callback no longer touches these variables.                         *)
Enter(t) ==
  /\ At(t, "guest", "load")
  /\ ~tracing_enabled
  /\ UNCHANGED <<shared, reg>>

(* trigger_check_counter++ is a load and a store.                          *)
Load(t) ==
  /\ At(t, "load", "store")
  /\ reg' = [reg EXCEPT ![t] = trigger_check_counter]
  /\ UNCHANGED shared

Incremented(t) == (reg[t] + 1) % CounterMod

Store(t) ==
  /\ At(t, "store", "test")
  /\ trigger_check_counter' = Incremented(t)
  /\ UNCHANGED <<file, armed, tracing_enabled, reg>>

\* Mutant: == for >=.
Due_exactly(count) == count = CheckInterval

Due(count) == count >= CheckInterval

(* The compiler may test the value it has just stored or load it again.    *)
Test(t) ==
  \E count \in {Incremented(t), trigger_check_counter} :
    /\ At(t, "test", IF Due(count) THEN "reset" ELSE "guest")
    /\ UNCHANGED <<shared, reg>>

Reset(t) ==
  /\ At(t, "reset", "access")
  /\ trigger_check_counter' = 0
  /\ UNCHANGED <<file, armed, tracing_enabled, reg>>

\* Mutant: the file is removed before tracing is enabled.
Access_unlinks(t) ==
  /\ At(t, "access", IF file THEN "enable" ELSE "guest")
  /\ file' = FALSE
  /\ UNCHANGED <<armed, tracing_enabled, trigger_check_counter, reg>>

Access(t) ==
  /\ At(t, "access", IF file THEN "enable" ELSE "guest")
  /\ UNCHANGED <<shared, reg>>

Enable(t) ==
  /\ At(t, "enable", "unlink")
  /\ tracing_enabled' = TRUE
  /\ UNCHANGED <<file, armed, trigger_check_counter, reg>>

Unlink(t) ==
  /\ At(t, "unlink", "guest")
  /\ file' = FALSE
  /\ UNCHANGED <<armed, tracing_enabled, trigger_check_counter, reg>>

(* The guest shuts down, or QEMU is killed, at any moment.                 *)
Exit ==
  /\ qemu = "running"
  /\ qemu' = "exited"
  /\ UNCHANGED <<file, touches, armed, tracing_enabled, trigger_check_counter, pc, reg>>

Callback(t) ==
  Load(t) \/ Store(t) \/ Test(t) \/ Reset(t) \/ Access(t) \/ Enable(t) \/ Unlink(t)

Next ==
  \/ Install \/ Touch \/ Exit
  \/ \E t \in Threads : Enter(t) \/ Callback(t)

(* A callback that has begun finishes, and as long as QEMU runs some       *)
(* traced vCPU retires instructions; no vCPU in particular has to.         *)
Fairness ==
  /\ WF_vars(\E t \in Threads : Enter(t))
  /\ \A t \in Threads : WF_vars(Callback(t))

Spec == Init /\ [][Next]_vars /\ Fairness

---------------------------------------------------------------------------
(* Tracing starts only for a trigger given to this run: a file left by an  *)
(* earlier run, or touched before the plugin was installed, starts nothing.*)
NoStaleTrigger == tracing_enabled => armed

(* A touch is not swallowed: whenever the plugin removes the file of a     *)
(* running guest, tracing has already been enabled.                        *)
TouchNotSwallowed ==
  [][qemu = "running" /\ file /\ ~file' => tracing_enabled]_vars

(* A trigger given while the guest runs is found, whatever increments the  *)
(* vCPU threads lose to each other and however far a stale store throws    *)
(* the counter past the interval or back, as long as one of them retires   *)
(* instructions.                                                           *)
TriggerFires == armed ~> (tracing_enabled \/ qemu = "exited")

---------------------------------------------------------------------------
(* The inductive invariant behind the two safety properties: what a thread *)
(* on its way through check_trigger already knows.                         *)
PollInv ==
  /\ qemu = "starting" => /\ ~tracing_enabled
                          /\ \A t \in Threads : pc[t] = "guest"
  /\ qemu = "running" /\ file => armed
  /\ tracing_enabled => armed
  /\ \A t \in Threads : /\ pc[t] = "enable" => armed
                        /\ pc[t] = "unlink" => tracing_enabled
===========================================================================
