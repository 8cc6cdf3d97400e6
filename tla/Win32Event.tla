----------------------------- MODULE Win32Event -----------------------------
(***************************************************************************)
(* What the Compat library promises of ONE event object to the threads     *)
(* that share it: SetEvent, ResetEvent and WaitForSingleObject each take   *)
(* effect in a single indivisible step somewhere between the call and the  *)
(* return.  EventApi (eventapi.cpp, a pthread mutex and a condition        *)
(* variable) is shown to implement this module.                            *)
(***************************************************************************)
EXTENDS Integers

CONSTANTS
  Thread,        \* the threads that hold a handle to the event
  init_state,    \* event_create's second argument
  MayFail        \* whether an operation may report the error -1

VARIABLES
  manual_reset,  \* event_create's first argument: it never changes
  signaled,      \* the state a waiter waits for
  phase,         \* per thread: no call, a call not yet effective, effective
  op,            \* per thread: its latest operation
  result         \* per thread: 0 done, 1 timed out, -1 error

eventVars == <<manual_reset, signaled, phase, op, result>>

Waits == {"event_wait", "event_timedwait"}
Ops   == Waits \cup {"event_set", "event_reset"}

Init ==
  /\ manual_reset \in BOOLEAN
  /\ signaled = init_state
  /\ phase  = [t \in Thread |-> "idle"]
  /\ op     = [t \in Thread |-> "event_reset"]
  /\ result = [t \in Thread |-> 0]

Begin(t, o) ==
  /\ phase[t] = "idle"
  /\ phase' = [phase EXCEPT ![t] = "pending"]
  /\ op' = [op EXCEPT ![t] = o]
  /\ UNCHANGED <<signaled, result>>

Effect(t, r) ==
  /\ phase[t] = "pending"
  /\ phase' = [phase EXCEPT ![t] = "effective"]
  /\ result' = [result EXCEPT ![t] = r]
  /\ UNCHANGED op

SetSignal(t) ==
  /\ op[t] = "event_set"
  /\ signaled' = TRUE
  /\ Effect(t, 0)

ResetSignal(t) ==
  /\ op[t] = "event_reset"
  /\ signaled' = FALSE
  /\ Effect(t, 0)

(* A wait succeeds only while the event is signalled; an auto-reset event  *)
(* is back to non-signalled in the same step, so one set lets one through. *)
Satisfy(t) ==
  /\ op[t] \in Waits
  /\ signaled
  /\ signaled' = manual_reset
  /\ Effect(t, 0)

(* A wait that times out leaves the event as it is. *)
Expire(t) ==
  /\ op[t] = "event_timedwait"
  /\ UNCHANGED signaled
  /\ Effect(t, 1)

(* An error is reported before or after the effect, and never changes the  *)
(* event by itself.                                                        *)
Fail(t) ==
  /\ MayFail
  /\ phase[t] \in {"pending", "effective"}
  /\ \E p \in {"effective", "idle"} : phase' = [phase EXCEPT ![t] = p]
  /\ result' = [result EXCEPT ![t] = -1]
  /\ UNCHANGED <<signaled, op>>

Return(t) ==
  /\ phase[t] = "effective"
  /\ phase' = [phase EXCEPT ![t] = "idle"]
  /\ UNCHANGED <<signaled, op, result>>

Next ==
  /\ \E t \in Thread :
       \/ \E o \in Ops : Begin(t, o)
       \/ SetSignal(t) \/ ResetSignal(t) \/ Satisfy(t) \/ Expire(t)
       \/ Fail(t) \/ Return(t)
  /\ UNCHANGED manual_reset

Spec == Init /\ [][Next]_eventVars

=============================================================================
