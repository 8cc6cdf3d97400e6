--------------------------- MODULE EventApi_proofs ---------------------------
(***************************************************************************)
(* Theorems of EventApi for every set of threads, both kinds of event,     *)
(* every set of failing pthread calls and every bound.                     *)
(***************************************************************************)
EXTENDS EventApi, TLAPS

(* The actions a step may take, as one flat disjunction. *)
LEMMA NextCases ==
  ASSUME Next
  PROVE  \E t \in Thread :
           \/ \E o \in Ops : Call(t, o)
           \/ SpuriousWakeup(t)
           \/ Lock(t) \/ LockFails(t)
           \/ Test(t) \/ CondWaitFails(t) \/ Timeout(t) \/ Relock(t) \/ Take(t)
           \/ AssignSet(t) \/ AssignReset(t)
           \/ Broadcast(t) \/ Signal(t) \/ NotifyFails(t)
           \/ Unlock(t) \/ UnlockFails(t)
  BY DEF Next, Step

(* The kind of the event is fixed by event_create. *)
LEMMA KindIsFixed ==
  ASSUME [Next]_vars
  PROVE  manual_reset' = manual_reset
  BY DEF Next, Step, Call, SpuriousWakeup, vars

(* The types of eventapi.cpp's state and locals are kept by every step.    *)
THEOREM TypeCorrect == Spec => []TypeOK
<1> USE EventAssumption
<1>1. Init => TypeOK
  BY DEF Init, event_create, TypeOK, Steps, Ops, Waits
<1>2. TypeOK /\ [Next]_vars => TypeOK'
  <2> SUFFICES ASSUME TypeOK, [Next]_vars PROVE TypeOK'
    OBVIOUS
  <2>0. manual_reset' = manual_reset
    BY KindIsFixed
  <2> USE <2>0 DEF TypeOK, Steps, Goto, Result
  <2>1. ASSUME NEW t \in Thread, NEW o \in Ops, Call(t, o) PROVE TypeOK'
    BY <2>1 DEF Call
  <2>2. ASSUME NEW t \in Thread, SpuriousWakeup(t) PROVE TypeOK'
    BY <2>2 DEF SpuriousWakeup
  <2>3. ASSUME NEW t \in Thread, Lock(t) \/ LockFails(t) PROVE TypeOK'
    BY <2>3 DEF Lock, LockFails
  <2>4. ASSUME NEW t \in Thread, Test(t) \/ CondWaitFails(t) PROVE TypeOK'
    BY <2>4 DEF Test, CondWaitFails
  <2>5. ASSUME NEW t \in Thread, Timeout(t) \/ Relock(t) PROVE TypeOK'
    BY <2>5 DEF Timeout, Relock
  <2>6. ASSUME NEW t \in Thread, Take(t) PROVE TypeOK'
    BY <2>6 DEF Take
  <2>7. ASSUME NEW t \in Thread, AssignSet(t) \/ AssignReset(t) PROVE TypeOK'
    <3>1. CASE AssignSet(t)
      BY <3>1 DEF AssignSet
    <3>2. CASE AssignReset(t)
      BY <3>2 DEF AssignReset
    <3> QED
      BY <2>7, <3>1, <3>2
  <2>8. ASSUME NEW t \in Thread, Broadcast(t) PROVE TypeOK'
    BY <2>8 DEF Broadcast, waiting
  <2>9. ASSUME NEW t \in Thread, Signal(t) PROVE TypeOK'
    BY <2>9 DEF Signal, waiting
  <2>10. ASSUME NEW t \in Thread, NotifyFails(t) PROVE TypeOK'
    BY <2>10 DEF NotifyFails
  <2>11. ASSUME NEW t \in Thread, Unlock(t) \/ UnlockFails(t) PROVE TypeOK'
    BY <2>11 DEF Unlock, UnlockFails
  <2>12. CASE UNCHANGED vars
    BY <2>12 DEF vars
  <2> QED
    BY <2>1, <2>2, <2>3, <2>4, <2>5, <2>6, <2>7, <2>8, <2>9, <2>10, <2>11,
       <2>12, NextCases
<1> QED
  BY <1>1, <1>2, PTL DEF Spec

(* What a thread read of hevent->state under the mutex stays so until it   *)
(* acts on it: nobody else is inside the critical section.                 *)
THEOREM StableUnderLock == Spec => []StateIsStable
<1> USE EventAssumption DEF StateIsStable, LockHeld, TakeSeesSignal,
        RcOfWaits, Critical, Waits
<1>1. Init => StateIsStable
  BY DEF Init, event_create
<1>2. TypeOK /\ StateIsStable /\ [Next]_vars => StateIsStable'
  <2> SUFFICES ASSUME TypeOK, StateIsStable, [Next]_vars PROVE StateIsStable'
    OBVIOUS
  <2> USE DEF TypeOK, Goto, ETIMEDOUT
  <2>1. ASSUME NEW t \in Thread, NEW o \in Ops, Call(t, o) PROVE StateIsStable'
    BY <2>1 DEF Call
  <2>2. ASSUME NEW t \in Thread, SpuriousWakeup(t) PROVE StateIsStable'
    BY <2>2 DEF SpuriousWakeup
  <2>3. ASSUME NEW t \in Thread, Lock(t) \/ LockFails(t) PROVE StateIsStable'
    BY <2>3 DEF Lock, LockFails
  <2>4. ASSUME NEW t \in Thread, Test(t) \/ CondWaitFails(t) PROVE StateIsStable'
    BY <2>4 DEF Test, CondWaitFails
  <2>5. ASSUME NEW t \in Thread, Timeout(t) \/ Relock(t) PROVE StateIsStable'
    BY <2>5 DEF Timeout, Relock
  <2>6. ASSUME NEW t \in Thread, Take(t) PROVE StateIsStable'
    BY <2>6 DEF Take
  <2>7. ASSUME NEW t \in Thread, AssignSet(t) PROVE StateIsStable'
    BY <2>7 DEF AssignSet
  <2>8. ASSUME NEW t \in Thread, AssignReset(t) PROVE StateIsStable'
    BY <2>8 DEF AssignReset
  <2>9. ASSUME NEW t \in Thread, Broadcast(t) PROVE StateIsStable'
    BY <2>9 DEF Broadcast, waiting
  <2>10. ASSUME NEW t \in Thread, Signal(t) PROVE StateIsStable'
    BY <2>10 DEF Signal, waiting
  <2>11. ASSUME NEW t \in Thread, NotifyFails(t) PROVE StateIsStable'
    BY <2>11 DEF NotifyFails
  <2>12. ASSUME NEW t \in Thread, Unlock(t) \/ UnlockFails(t) PROVE StateIsStable'
    BY <2>12 DEF Unlock, UnlockFails
  <2>13. CASE UNCHANGED vars
    BY <2>13 DEF vars
  <2> QED
    BY <2>1, <2>2, <2>3, <2>4, <2>5, <2>6, <2>7, <2>8, <2>9, <2>10, <2>11,
       <2>12, <2>13, NextCases
<1> QED
  BY <1>1, <1>2, TypeCorrect, PTL DEF Spec

(* An auto-reset event never lets more waits through than it was set.      *)
THEOREM OneWaitPerSetHolds == Spec => []OneWaitPerSet
<1> USE EventAssumption
<1>1. Init => OneWaitPerSet
  BY DEF Init, event_create, OneWaitPerSet, One
<1>2. TypeOK /\ StateIsStable /\ OneWaitPerSet /\ [Next]_vars => OneWaitPerSet'
  <2> SUFFICES ASSUME TypeOK, StateIsStable, OneWaitPerSet, [Next]_vars,
                      ~manual_reset
               PROVE  OneWaitPerSet'
    BY KindIsFixed DEF OneWaitPerSet
  <2>0. manual_reset' = manual_reset
    BY KindIsFixed
  <2> USE <2>0 DEF OneWaitPerSet, One, TypeOK
  <2>1. ASSUME NEW t \in Thread, Take(t) PROVE OneWaitPerSet'
    <3>1. CASE rc[t] = 0
      <4>1. state
        BY <2>1, <3>1 DEF Take, StateIsStable, TakeSeesSignal
      <4> QED
        BY <2>1, <3>1, <4>1 DEF Take, ETIMEDOUT
    <3>2. CASE rc[t] = ETIMEDOUT
      BY <2>1, <3>2 DEF Take, ETIMEDOUT
    <3> QED
      BY <3>1, <3>2
  <2>2. ASSUME NEW t \in Thread, AssignSet(t) PROVE OneWaitPerSet'
    BY <2>2 DEF AssignSet
  <2>3. ASSUME NEW t \in Thread, AssignReset(t) PROVE OneWaitPerSet'
    BY <2>3 DEF AssignReset
  <2>4. CASE UNCHANGED <<state, sets, released>>
    BY <2>4
  <2>5. ASSUME NEW t \in Thread, NEW o \in Ops,
               \/ Call(t, o) \/ SpuriousWakeup(t) \/ Lock(t) \/ LockFails(t)
               \/ Test(t) \/ CondWaitFails(t) \/ Timeout(t) \/ Relock(t)
               \/ Broadcast(t) \/ Signal(t) \/ NotifyFails(t)
               \/ Unlock(t) \/ UnlockFails(t)
        PROVE  UNCHANGED <<state, sets, released>>
    BY <2>5 DEF Call, SpuriousWakeup, Lock, LockFails, Test, CondWaitFails,
                Timeout, Relock, Broadcast, Signal, NotifyFails, Unlock,
                UnlockFails
  <2>6. CASE UNCHANGED vars
    BY <2>4, <2>6 DEF vars
  <2>7. Ops # {}
    BY DEF Ops, Waits
  <2> QED
    BY <2>1, <2>2, <2>3, <2>4, <2>5, <2>6, <2>7, NextCases
<1> QED
  BY <1>1, <1>2, TypeCorrect, StableUnderLock, PTL DEF Spec

(* No wakeup is lost where pthread_cond_signal does not fail and a wait    *)
(* that times out does not swallow a signal (glibc): as long as threads    *)
(* sleep on a signalled event, one is on its way to find it signalled.     *)
THEOREM NoLostWakeupHolds ==
  ASSUME "pthread_cond_signal" \notin Failing, ~TimeoutTakesSignal
  PROVE  Spec => []NoLostWakeup
<1> DEFINE Inv == NoLostWakeup /\ BroadcastPending
<1> USE EventAssumption DEF NoLostWakeup, BroadcastPending, OnItsWay, waiting
<1>1. Init => Inv
  BY DEF Init, event_create
<1>2. TypeOK /\ StateIsStable /\ Inv /\ [Next]_vars => Inv'
  <2> SUFFICES ASSUME TypeOK, StateIsStable, Inv, [Next]_vars PROVE Inv'
    OBVIOUS
  <2>0. manual_reset' = manual_reset
    BY KindIsFixed
  <2> USE <2>0 DEF TypeOK, Goto, ETIMEDOUT
  <2>1. ASSUME NEW t \in Thread, NEW o \in Ops, Call(t, o) PROVE Inv'
    BY <2>1 DEF Call
  <2>2. ASSUME NEW t \in Thread, SpuriousWakeup(t) PROVE Inv'
    BY <2>2 DEF SpuriousWakeup, StateIsStable, RcOfWaits
  <2>3. ASSUME NEW t \in Thread, Lock(t) \/ LockFails(t) PROVE Inv'
    BY <2>3 DEF Lock, LockFails
  <2>4. ASSUME NEW t \in Thread, Test(t) PROVE Inv'
    BY <2>4 DEF Test
  <2>5. ASSUME NEW t \in Thread, CondWaitFails(t) PROVE Inv'
    BY <2>5 DEF CondWaitFails
  <2>6. ASSUME NEW t \in Thread, Timeout(t) PROVE Inv'
    BY <2>6 DEF Timeout
  <2>7. ASSUME NEW t \in Thread, Relock(t) PROVE Inv'
    BY <2>7 DEF Relock
  <2>8. ASSUME NEW t \in Thread, Take(t) PROVE Inv'
    <3>1. CASE rc[t] = 0 /\ ~manual_reset
      BY <2>8, <3>1 DEF Take
    <3>2. CASE rc[t] = 0 /\ manual_reset
      BY <2>8, <3>2 DEF Take
    <3>3. CASE rc[t] = ETIMEDOUT
      BY <2>8, <3>3 DEF Take
    <3> QED
      BY <3>1, <3>2, <3>3
  <2>9. ASSUME NEW t \in Thread, AssignSet(t) PROVE Inv'
    BY <2>9 DEF AssignSet
  <2>10. ASSUME NEW t \in Thread, AssignReset(t) PROVE Inv'
    BY <2>10 DEF AssignReset
  <2>11. ASSUME NEW t \in Thread, Broadcast(t) PROVE Inv'
    BY <2>11 DEF Broadcast
  <2>12. ASSUME NEW t \in Thread, Signal(t) PROVE Inv'
    BY <2>12 DEF Signal, StateIsStable, RcOfWaits
  <2>13. ASSUME NEW t \in Thread, Unlock(t) \/ UnlockFails(t) PROVE Inv'
    BY <2>13 DEF Unlock, UnlockFails
  <2>14. ASSUME NEW t \in Thread, NotifyFails(t) PROVE Inv'
    BY <2>14 DEF NotifyFails
  <2>15. CASE UNCHANGED vars
    BY <2>15 DEF vars
  <2> QED
    BY <2>1, <2>2, <2>3, <2>4, <2>5, <2>6, <2>7, <2>8, <2>9, <2>10, <2>11,
       <2>12, <2>13, <2>14, <2>15, NextCases
<1> QED
  BY <1>1, <1>2, TypeCorrect, StableUnderLock, PTL DEF Spec

(* eventapi.cpp implements the abstract event: SetEvent, ResetEvent and    *)
(* the waits are indivisible, whatever the interleaving and the errors.    *)
THEOREM EventApiImplementsWin32Event == Spec => ImplementsWin32Event
<1> USE EventAssumption
<1> DEFINE A == Abstract!Next
           av == Abstract!eventVars
<1>1. Init => Abstract!Init
  BY DEF Init, event_create, Abstract!Init, phaseOf
<1>2. TypeOK /\ StateIsStable /\ [Next]_vars => [A]_av
  <2> SUFFICES ASSUME TypeOK, StateIsStable, [Next]_vars PROVE [A]_av
    OBVIOUS
  <2>0. manual_reset' = manual_reset
    BY KindIsFixed
  <2> USE <2>0 DEF TypeOK, Goto, Result, phaseOf
  <2>1. ASSUME NEW t \in Thread, NEW o \in Ops, Call(t, o) PROVE [A]_av
    <3>1. Abstract!Begin(t, o)
      BY <2>1 DEF Call, Abstract!Begin
    <3> QED
      BY <3>1 DEF Abstract!Next, Abstract!Ops, Abstract!Waits, Ops, Waits
  <2>2. ASSUME NEW t \in Thread, SpuriousWakeup(t) PROVE [A]_av
    BY <2>2 DEF SpuriousWakeup, Abstract!eventVars
  <2>3. ASSUME NEW t \in Thread, Lock(t) PROVE [A]_av
    BY <2>3 DEF Lock, Abstract!eventVars
  <2>4. ASSUME NEW t \in Thread, Test(t) PROVE [A]_av
    BY <2>4 DEF Test, Abstract!eventVars
  <2>5. ASSUME NEW t \in Thread, Timeout(t) PROVE [A]_av
    BY <2>5 DEF Timeout, Abstract!eventVars
  <2>6. ASSUME NEW t \in Thread, Relock(t) PROVE [A]_av
    BY <2>6 DEF Relock, Abstract!eventVars
  <2>7. ASSUME NEW t \in Thread, Take(t) PROVE [A]_av
    <3>0. pc[t] = "take" /\ Goto(t, "unlock") /\ UNCHANGED op
      BY <2>7 DEF Take
    <3>1. CASE rc[t] = 0
      <4>1. state /\ op[t] \in Waits
        BY <2>7, <3>1 DEF Take, StateIsStable, TakeSeesSignal, RcOfWaits
      <4>2. state' = manual_reset
        BY <2>7, <3>1, <4>1 DEF Take, ETIMEDOUT
      <4>r. Result(t, 0)
        BY <2>7, <3>1 DEF Take, ETIMEDOUT
      <4>3. Abstract!Effect(t, 0)
        BY <3>0, <4>r DEF Abstract!Effect
      <4> HIDE DEF phaseOf
      <4>4. Abstract!Satisfy(t)
        BY <4>1, <4>2, <4>3 DEF Waits, Abstract!Satisfy, Abstract!Waits
      <4> QED
        BY <4>4 DEF Abstract!Next
    <3>2. CASE rc[t] = ETIMEDOUT
      <4>1. op[t] = "event_timedwait"
        BY <2>7, <3>2 DEF Take, StateIsStable, RcOfWaits, ETIMEDOUT
      <4>r. Result(t, 1) /\ UNCHANGED state
        BY <2>7, <3>2 DEF Take, ETIMEDOUT
      <4>2. Abstract!Effect(t, 1)
        BY <3>0, <4>r DEF Abstract!Effect
      <4>3. Abstract!Expire(t)
        BY <4>1, <4>2, <4>r DEF Abstract!Expire
      <4> QED
        BY <4>3 DEF Abstract!Next
    <3> QED
      BY <3>1, <3>2
  <2>8. ASSUME NEW t \in Thread, AssignSet(t) PROVE [A]_av
    <3>1. Abstract!SetSignal(t)
      BY <2>8 DEF AssignSet, Abstract!SetSignal, Abstract!Effect
    <3> QED
      BY <3>1 DEF Abstract!Next
  <2>9. ASSUME NEW t \in Thread, AssignReset(t) PROVE [A]_av
    <3>1. Abstract!ResetSignal(t)
      BY <2>9 DEF AssignReset, Abstract!ResetSignal, Abstract!Effect
    <3> QED
      BY <3>1 DEF Abstract!Next
  <2>10. ASSUME NEW t \in Thread, Broadcast(t) PROVE [A]_av
    BY <2>10 DEF Broadcast, waiting, Abstract!eventVars
  <2>11. ASSUME NEW t \in Thread, Signal(t) PROVE [A]_av
    BY <2>11 DEF Signal, waiting, Abstract!eventVars
  <2>12. ASSUME NEW t \in Thread,
                \/ LockFails(t) \/ CondWaitFails(t)
                \/ NotifyFails(t) \/ UnlockFails(t)
         PROVE  [A]_av
    <3>1. Abstract!Fail(t)
      BY <2>12 DEF LockFails, CondWaitFails, NotifyFails, UnlockFails,
                   Abstract!Fail
    <3> QED
      BY <3>1 DEF Abstract!Next
  <2>13. ASSUME NEW t \in Thread, Unlock(t) PROVE [A]_av
    <3>1. Abstract!Return(t)
      BY <2>13 DEF Unlock, Abstract!Return
    <3> QED
      BY <3>1 DEF Abstract!Next
  <2>14. CASE UNCHANGED vars
    BY <2>14 DEF vars, Abstract!eventVars
  <2> QED
    BY <2>1, <2>2, <2>3, <2>4, <2>5, <2>6, <2>7, <2>8, <2>9, <2>10, <2>11,
       <2>12, <2>13, <2>14, NextCases
<1> QED
  BY <1>1, <1>2, TypeCorrect, StableUnderLock, PTL
  DEF Spec, ImplementsWin32Event, Abstract!Spec

=============================================================================
