------------------------------ MODULE EventApi ------------------------------
(***************************************************************************)
(* Compat/eventapi.cpp, the Linux branch: one event_t (state, manual_reset,*)
(* a pthread mutex, a condition variable) shared by the threads of the     *)
(* process.  A thread's call is a walk through the function's body, one    *)
(* action per pthread call or access of the shared state.                  *)
(*                                                                         *)
(* pthread_cond_wait releases the mutex and joins the wait set in one step *)
(* and returns with the mutex held again, after a signal, a timeout or for *)
(* no reason at all (a spurious wakeup).                                   *)
(***************************************************************************)
EXTENDS Integers, FiniteSets

CONSTANTS
  Thread,             \* threads that hold a handle to the event
  NoThread,           \* "the mutex is free"
  init_state,         \* event_create's init_state
  Failing,            \* the pthread calls that may return an error
  TimeoutTakesSignal, \* POSIX lets a wait that times out swallow a signal
                      \* sent at that moment; glibc passes it on (FALSE)
  MaxCalls,           \* bound: calls the threads make in all
  MaxSpurious         \* bound: spurious wakeups

PthreadCalls == {"pthread_mutex_lock", "pthread_mutex_unlock",
                 "pthread_cond_wait", "pthread_cond_timedwait",
                 "pthread_cond_signal"}

ASSUME EventAssumption ==
  /\ NoThread \notin Thread
  /\ init_state \in BOOLEAN
  /\ Failing \subseteq PthreadCalls
  /\ TimeoutTakesSignal \in BOOLEAN
  /\ MaxCalls \in Nat
  /\ MaxSpurious \in Nat

VARIABLES
  manual_reset,  \* event_t.manual_reset: event_create sets it for good
  state,     \* event_t.state
  owner,     \* the holder of event_t.mutex
  pc,        \* where each thread is in the function it called
  op,        \* the function each thread called last
  rc,        \* event_timedwait's local rc
  ret,       \* what each thread's last call returned, or is about to
  calls,     \* calls made so far
  spurious,  \* spurious wakeups so far
  sets,      \* history: times event_set has set the state
  released   \* history: waits that found the event signalled

vars == <<manual_reset, state, owner, pc, op, rc, ret, calls, spurious, sets, released>>

Waits == {"event_wait", "event_timedwait"}
Ops   == Waits \cup {"event_set", "event_reset"}
Steps == {"idle", "lock", "test", "blocked", "relock", "take", "assign",
          "notify", "unlock"}
ETIMEDOUT == 110

TypeOK ==
  /\ manual_reset \in BOOLEAN
  /\ state \in BOOLEAN
  /\ owner \in Thread \cup {NoThread}
  /\ pc \in [Thread -> Steps]
  /\ op \in [Thread -> Ops]
  /\ rc \in [Thread -> {0, ETIMEDOUT}]
  /\ ret \in [Thread -> {-1, 0, 1}]
  /\ calls \in 0..MaxCalls
  /\ spurious \in 0..MaxSpurious
  /\ sets \in Nat
  /\ released \in Nat

(* The condition variable's wait set. *)
waiting == {t \in Thread : pc[t] = "blocked"}

Goto(t, step) == pc' = [pc EXCEPT ![t] = step]
Result(t, r)  == ret' = [ret EXCEPT ![t] = r]

event_create ==
  /\ manual_reset \in BOOLEAN
  /\ state = init_state
  /\ owner = NoThread
  /\ pc  = [t \in Thread |-> "idle"]
  /\ op  = [t \in Thread |-> "event_reset"]
  /\ rc  = [t \in Thread |-> 0]
  /\ ret = [t \in Thread |-> 0]
  /\ calls = 0 /\ spurious = 0
  /\ sets = 0 /\ released = 0

-----------------------------------------------------------------------------
(* Entering a function, and its pthread_mutex_lock.                        *)

Call(t, o) ==
  /\ pc[t] = "idle"
  /\ calls < MaxCalls
  /\ calls' = calls + 1
  /\ Goto(t, "lock")
  /\ op' = [op EXCEPT ![t] = o]
  /\ rc' = [rc EXCEPT ![t] = 0]
  /\ UNCHANGED <<manual_reset, state, owner, ret, spurious, sets, released>>

(* Mutant: the mutex does not exclude. *)
LockWithoutExclusion(t) ==
  /\ pc[t] = "lock"
  /\ owner' = t
  /\ Goto(t, IF op[t] \in Waits THEN "test" ELSE "assign")
  /\ UNCHANGED <<state, op, rc, ret, calls, spurious, sets, released>>

Lock(t) ==
  /\ pc[t] = "lock"
  /\ owner = NoThread
  /\ owner' = t
  /\ Goto(t, IF op[t] \in Waits THEN "test" ELSE "assign")
  /\ UNCHANGED <<state, op, rc, ret, calls, spurious, sets, released>>

LockFails(t) ==
  /\ "pthread_mutex_lock" \in Failing
  /\ pc[t] = "lock"
  /\ Goto(t, "idle")
  /\ Result(t, -1)
  /\ UNCHANGED <<state, owner, op, rc, calls, spurious, sets, released>>

-----------------------------------------------------------------------------
(* event_wait and event_timedwait: while (!state) wait; then consume.      *)

Test(t) ==
  /\ pc[t] = "test"
  /\ \/ /\ state
        /\ Goto(t, "take")
        /\ UNCHANGED owner
     \/ /\ ~state
        /\ owner' = NoThread
        /\ Goto(t, "blocked")
  /\ UNCHANGED <<state, op, rc, ret, calls, spurious, sets, released>>

(* Mutant: the error of the wait call is reported as success. *)
CondWaitErrorIgnored(t) ==
  /\ pc[t] = "test" /\ ~state
  /\ \/ op[t] = "event_wait"      /\ "pthread_cond_wait" \in Failing
     \/ op[t] = "event_timedwait" /\ "pthread_cond_timedwait" \in Failing
  /\ Goto(t, "unlock")
  /\ Result(t, 0)
  /\ UNCHANGED <<state, owner, op, rc, calls, spurious, sets, released>>

(* The wait call itself fails: unlock and return -1. *)
CondWaitFails(t) ==
  /\ pc[t] = "test" /\ ~state
  /\ \/ op[t] = "event_wait"      /\ "pthread_cond_wait" \in Failing
     \/ op[t] = "event_timedwait" /\ "pthread_cond_timedwait" \in Failing
  /\ Goto(t, "unlock")
  /\ Result(t, -1)
  /\ UNCHANGED <<state, owner, op, rc, calls, spurious, sets, released>>

SpuriousWakeup(t) ==
  /\ pc[t] = "blocked"
  /\ spurious < MaxSpurious
  /\ spurious' = spurious + 1
  /\ Goto(t, "relock")
  /\ UNCHANGED <<manual_reset, state, owner, op, rc, ret, calls, sets, released>>

Timeout(t) ==
  /\ pc[t] = "blocked" /\ op[t] = "event_timedwait"
  /\ Goto(t, "relock")
  /\ rc' = [rc EXCEPT ![t] = ETIMEDOUT]
  /\ UNCHANGED <<state, owner, op, ret, calls, spurious, sets, released>>

(* The wait call returns, holding the mutex: ETIMEDOUT leaves the loop.    *)
Relock(t) ==
  /\ pc[t] = "relock"
  /\ owner = NoThread
  /\ owner' = t
  /\ Goto(t, IF rc[t] = ETIMEDOUT THEN "take" ELSE "test")
  /\ UNCHANGED <<state, op, rc, ret, calls, spurious, sets, released>>

(* Mutants: the state is not consumed; it is consumed by a wait that timed *)
(* out, and by a manual-reset event; rc itself is returned.                *)
TakeWithoutReset(t) ==
  /\ pc[t] = "take"
  /\ Result(t, IF rc[t] = 0 THEN 0 ELSE 1)
  /\ released' = IF rc[t] = 0 THEN released + 1 ELSE released
  /\ Goto(t, "unlock")
  /\ UNCHANGED <<state, owner, op, rc, calls, spurious, sets>>
TakeAlways(t) ==
  /\ pc[t] = "take"
  /\ Result(t, IF rc[t] = 0 THEN 0 ELSE 1)
  /\ released' = IF rc[t] = 0 THEN released + 1 ELSE released
  /\ state' = FALSE
  /\ Goto(t, "unlock")
  /\ UNCHANGED <<owner, op, rc, calls, spurious, sets>>
TakeReturningRc(t) ==
  /\ pc[t] = "take"
  /\ Result(t, rc[t])
  /\ released' = IF rc[t] = 0 THEN released + 1 ELSE released
  /\ state' = (state /\ (manual_reset \/ rc[t] # 0))
  /\ Goto(t, "unlock")
  /\ UNCHANGED <<owner, op, rc, calls, spurious, sets>>

(* if (rc == 0 && !manual_reset) state = false; the result is 0 or 1.      *)
Take(t) ==
  /\ pc[t] = "take"
  /\ \/ /\ rc[t] = 0
        /\ state' = (state /\ manual_reset)
        /\ Result(t, 0)
        /\ released' = released + 1
     \/ /\ rc[t] = ETIMEDOUT
        /\ Result(t, 1)
        /\ UNCHANGED <<state, released>>
  /\ Goto(t, "unlock")
  /\ UNCHANGED <<owner, op, rc, calls, spurious, sets>>

-----------------------------------------------------------------------------
(* event_set and event_reset.                                              *)

AssignSet(t) ==
  /\ pc[t] = "assign" /\ op[t] = "event_set"
  /\ state' = TRUE
  /\ sets' = sets + 1
  /\ Goto(t, "notify")
  /\ Result(t, 0)
  /\ UNCHANGED <<owner, op, rc, calls, spurious, released>>

AssignReset(t) ==
  /\ pc[t] = "assign" /\ op[t] = "event_reset"
  /\ state' = FALSE
  /\ Goto(t, "unlock")
  /\ Result(t, 0)
  /\ UNCHANGED <<owner, op, rc, calls, spurious, sets, released>>

(* Mutant: a manual-reset event wakes at most one waiter. *)
BroadcastToOne(t) ==
  /\ pc[t] = "notify" /\ manual_reset
  /\ \/ waiting = {} /\ Goto(t, "unlock")
     \/ \E w \in waiting : pc' = [pc EXCEPT ![t] = "unlock", ![w] = "relock"]
  /\ UNCHANGED <<state, owner, op, rc, ret, calls, spurious, sets, released>>

(* pthread_cond_broadcast for a manual-reset event. *)
Broadcast(t) ==
  /\ pc[t] = "notify" /\ manual_reset
  /\ pc' = [u \in Thread |-> IF u = t THEN "unlock"
                             ELSE IF u \in waiting THEN "relock" ELSE pc[u]]
  /\ UNCHANGED <<state, owner, op, rc, ret, calls, spurious, sets, released>>

(* Mutant: nobody is signalled. *)
SignalNobody(t) ==
  /\ pc[t] = "notify" /\ ~manual_reset
  /\ Goto(t, "unlock")
  /\ UNCHANGED <<state, owner, op, rc, ret, calls, spurious, sets, released>>

(* pthread_cond_signal for an auto-reset one: some waiter, if there is one.*)
Signal(t) ==
  /\ pc[t] = "notify" /\ ~manual_reset
  /\ \/ /\ waiting = {}
        /\ Goto(t, "unlock")
        /\ UNCHANGED rc
     \/ \E w \in waiting :
          /\ pc' = [pc EXCEPT ![t] = "unlock", ![w] = "relock"]
          /\ \/ UNCHANGED rc
             \/ /\ TimeoutTakesSignal /\ op[w] = "event_timedwait"
                /\ rc' = [rc EXCEPT ![w] = ETIMEDOUT]
  /\ UNCHANGED <<state, owner, op, ret, calls, spurious, sets, released>>

(* The early return of event_set: the mutex stays locked. *)
NotifyFails(t) ==
  /\ "pthread_cond_signal" \in Failing
  /\ pc[t] = "notify"
  /\ Goto(t, "idle")
  /\ Result(t, -1)
  /\ UNCHANGED <<state, owner, op, rc, calls, spurious, sets, released>>

Unlock(t) ==
  /\ pc[t] = "unlock"
  /\ owner' = NoThread
  /\ Goto(t, "idle")
  /\ UNCHANGED <<state, op, rc, ret, calls, spurious, sets, released>>

UnlockFails(t) ==
  /\ "pthread_mutex_unlock" \in Failing
  /\ pc[t] = "unlock"
  /\ Goto(t, "idle")
  /\ Result(t, -1)
  /\ UNCHANGED <<state, owner, op, rc, calls, spurious, sets, released>>

-----------------------------------------------------------------------------
(* What a thread inside a call does by itself. *)
Step(t) ==
  /\ \/ Lock(t) \/ LockFails(t)
     \/ Test(t) \/ CondWaitFails(t) \/ Timeout(t) \/ Relock(t) \/ Take(t)
     \/ AssignSet(t) \/ AssignReset(t)
     \/ Broadcast(t) \/ Signal(t) \/ NotifyFails(t)
     \/ Unlock(t) \/ UnlockFails(t)
  /\ UNCHANGED manual_reset

Next ==
  \E t \in Thread :
    \/ \E o \in Ops : Call(t, o)
    \/ SpuriousWakeup(t)
    \/ Step(t)

Init == event_create

Spec == Init /\ [][Next]_vars

(* A thread inside a call keeps running, and a timeout elapses; nobody is  *)
(* obliged to call anything.                                               *)
FairSpec == Spec /\ \A t \in Thread : WF_vars(Step(t))

-----------------------------------------------------------------------------
(* Properties.                                                             *)

(* Whoever is between pthread_mutex_lock and pthread_mutex_unlock holds    *)
(* the event's mutex, so no two threads touch state or the wait set at     *)
(* once (eventapi.cpp: every access of hevent->state).                     *)
Critical == {"test", "take", "assign", "notify", "unlock"}
LockHeld == \A t \in Thread : pc[t] \in Critical => owner = t

(* The inductive core: what a thread read of state under the mutex is      *)
(* still so when it acts on it.  A wait that left the loop with rc == 0    *)
(* finds the event signalled when it consumes it, and rc is ETIMEDOUT only *)
(* in an event_timedwait whose wait call has ended.                        *)
TakeSeesSignal == \A t \in Thread : pc[t] = "take" /\ rc[t] = 0 => state
RcOfWaits ==
  \A t \in Thread :
    /\ pc[t] \in {"lock", "test", "blocked"} => rc[t] = 0
    /\ pc[t] \in {"test", "blocked", "relock", "take"} => op[t] \in Waits
    /\ pc[t] \in {"relock", "take"} /\ rc[t] # 0 => op[t] = "event_timedwait"
StateIsStable == LockHeld /\ TakeSeesSignal /\ RcOfWaits

(* An auto-reset event lets at most one wait through per event_set: every  *)
(* wait that returned 0 used up a set (or the initial state) that no other *)
(* wait used, and what is left over is what state says.                    *)
One(b) == IF b THEN 1 ELSE 0
OneWaitPerSet ==
  ~manual_reset => released + One(state) <= sets + One(init_state)

(* No lost wakeup: while the event is signalled and threads are asleep on  *)
(* it, an event_set is about to notify, or a thread is on its way that     *)
(* will find the event signalled.  It fails for a thread that tests the    *)
(* state outside the lock, or an event_set that does not notify.           *)
OnItsWay(t) ==
  \/ pc[t] = "notify"
  \/ pc[t] \in {"relock", "test", "take"} /\ rc[t] = 0
NoLostWakeup ==
  state /\ waiting # {} => \E t \in Thread : OnItsWay(t)

(* Stronger for a manual-reset event: only a notify that is still to come  *)
(* accounts for a sleeper on a signalled event.                            *)
BroadcastPending ==
  manual_reset /\ state /\ waiting # {} => \E t \in Thread : pc[t] = "notify"

(* Under FairSpec: a thread asleep on a signalled event is woken, unless   *)
(* another thread takes or resets the event first.                         *)
SleeperIsWoken ==
  \A t \in Thread : (pc[t] = "blocked" /\ state) ~> (pc[t] # "blocked" \/ ~state)

(* Under FairSpec: event_set, event_reset and event_timedwait always       *)
(* return; only event_wait may block for ever.                             *)
BoundedCallsReturn ==
  \A t \in Thread :
    (pc[t] # "idle" /\ op[t] # "event_wait") ~> pc[t] = "idle"

(* Under FairSpec, on the path of every wait and set (eventapi.cpp:43 and   *)
(* 131): sleepers are woken and bounded calls return.                      *)
EventCallsReturn == SleeperIsWoken /\ BoundedCallsReturn

(* eventapi.cpp implements Win32Event: the call takes effect where the     *)
(* shared state is taken or assigned.                                      *)
phaseOf == [t \in Thread |-> IF pc[t] = "idle" THEN "idle"
                             ELSE IF pc[t] \in {"notify", "unlock"}
                                  THEN "effective" ELSE "pending"]
Abstract == INSTANCE Win32Event
              WITH signaled <- state, phase <- phaseOf, result <- ret,
                   MayFail <- Failing # {}
ImplementsWin32Event == Abstract!Spec

=============================================================================
