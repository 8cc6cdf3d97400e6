--------------------------- MODULE SynchApi_proofs ---------------------------
(***************************************************************************)
(* The mutexes of SynchApi exclude, for any number of threads, objects and *)
(* calls, with or without discipline among the callers; then its handles,  *)
(* table entries and heap objects, which need that discipline.             *)
(***************************************************************************)
EXTENDS SynchApi, TLAPS

(* The part of the types that the argument needs. *)
LockTypes ==
  /\ kind \in [Obj -> {"none", "MUTEX", "EVENT"}]
  /\ owner \in [Obj -> Thread \cup {NoThread}]
  /\ count \in [Obj -> Nat]
  /\ holds \in [Thread -> [Obj -> Nat]]
  /\ ignored \in [Thread -> [Obj -> SUBSET {"lock", "unlock"}]]
  /\ pc \in [Thread -> Places]
  /\ ptr = [t \in Thread |-> ptr[t]]

(* A mutex has an owner exactly when its count is not 0, and what is not a *)
(* live mutex has none.                                                    *)
CountedMeansOwned == \A o \in Obj : owner[o] = NoThread <=> count[o] = 0
DeadMeansFree     == \A o \in Obj : kind[o] # "MUTEX" => owner[o] = NoThread

LockInv == LockTypes /\ CountedMeansOwned /\ DeadMeansFree /\ HoldsMatchLock

LEMMA LockInit == Init => LockInv
BY SynchAssumption DEF Init, LockInv, LockTypes, CountedMeansOwned, DeadMeansFree,
   HoldsMatchLock, InRelease, Places

(* A step that leaves the locks alone: only places other than unlock1, and *)
(* pointers of threads that are not there, may change.                     *)
Quiet ==
  /\ owner' = owner /\ count' = count /\ holds' = holds /\ ignored' = ignored
  /\ kind' \in [Obj -> {"none", "MUTEX", "EVENT"}]
  /\ \A o \in Obj : kind'[o] # "MUTEX" => kind[o] # "MUTEX"
  /\ pc' \in [Thread -> Places]
  /\ ptr' = [t \in Thread |-> ptr'[t]]
  /\ \A t \in Thread : /\ pc'[t] = "unlock1" <=> pc[t] = "unlock1"
                       /\ pc[t] = "unlock1" => ptr'[t] = ptr[t]

LEMMA QuietKeeps == LockInv /\ Quiet => LockInv'
BY DEF LockInv, LockTypes, CountedMeansOwned, DeadMeansFree, HoldsMatchLock, InRelease, Quiet

LEMMA CallIsQuiet ==
  ASSUME LockInv, NEW t \in Thread, Call(t)
  PROVE  Quiet
<1> USE DEF LockInv, LockTypes, Quiet, Goto, Begin, objects, history, Places
<1>1. ASSUME NEW n \in Text, NEW b \in BOOLEAN, CallCreateMutexA(t, n, b) PROVE Quiet
  BY <1>1 DEF CallCreateMutexA, EntryPoints
<1>2. ASSUME CallCreateEventA(t) PROVE Quiet
  BY <1>2 DEF CallCreateEventA
<1>3. ASSUME NEW k, NEW d, CallWaitForSingleObject(t, k, d) PROVE Quiet
  BY <1>3 DEF CallWaitForSingleObject
<1>4. ASSUME NEW k, NEW f, NEW type, CallOn(t, k, f, type) PROVE Quiet
  BY <1>4 DEF CallOn
<1>5. ASSUME NEW e, CallCloseHandle(t, e) PROVE Quiet
  BY <1>5 DEF CallCloseHandle
<1> QED BY <1>1, <1>2, <1>3, <1>4, <1>5 DEF Call, CallCreateMutexW, CallCreateEventW

(* The steps that neither lock, unlock, create nor delete a mutex. *)
QuietStep(t) ==
  \/ CreateMutexA_find(t) \/ CreateFails(t) \/ InitialOwner_get(t)
  \/ Wait_type(t) \/ Wait_mutex_get(t) \/ Wait_event_get(t)
  \/ Wait_mutex_timeout(t) \/ Wait_event_satisfied(t) \/ Wait_event_sleep(t)
  \/ Wait_event_timeout(t) \/ Wait_event_error(t) \/ Lookup(t)
  \/ ReleaseMutex_refused(t) \/ SetEvent_set(t) \/ ResetEvent_reset(t)
  \/ SetOrReset_fails(t) \/ Close_type(t) \/ Close_mutex_get_name(t)
  \/ Close_mutex_get(t) \/ Close_mutex_get_attr(t) \/ Close_event_get(t)
  \/ event_destroy(t) \/ Close_erase(t)

LEMMA QuietStepIsQuiet ==
  ASSUME LockInv, NEW t \in Thread, QuietStep(t)
  PROVE  Quiet
<1> USE DEF LockInv, LockTypes, Quiet, Goto, Return, Point, Live, objects, history, Places
<1>1. ASSUME CreateMutexA_find(t) PROVE Quiet
  BY <1>1 DEF CreateMutexA_find, GotMutex, Give
<1>2. ASSUME CreateFails(t) PROVE Quiet
  BY <1>2 DEF CreateFails
<1>3. ASSUME InitialOwner_get(t) PROVE Quiet
  BY <1>3 DEF InitialOwner_get
<1>4. ASSUME Wait_type(t) PROVE Quiet
  BY <1>4 DEF Wait_type
<1>5. ASSUME Wait_mutex_get(t) PROVE Quiet
  BY <1>5 DEF Wait_mutex_get
<1>6. ASSUME Wait_event_get(t) PROVE Quiet
  BY <1>6 DEF Wait_event_get
<1>7. ASSUME Wait_mutex_timeout(t) PROVE Quiet
  BY <1>7 DEF Wait_mutex_timeout
<1>8. ASSUME Wait_event_satisfied(t) PROVE Quiet
  BY <1>8 DEF Wait_event_satisfied, InEventWait
<1>9. ASSUME Wait_event_sleep(t) PROVE Quiet
  BY <1>9 DEF Wait_event_sleep
<1>10. ASSUME Wait_event_timeout(t) PROVE Quiet
  BY <1>10 DEF Wait_event_timeout, InEventWait
<1>11. ASSUME Wait_event_error(t) PROVE Quiet
  BY <1>11 DEF Wait_event_error, InEventWait
<1>12. ASSUME Lookup(t) PROVE Quiet
  BY <1>12 DEF Lookup
<1>13. ASSUME ReleaseMutex_refused(t) PROVE Quiet
  BY <1>13 DEF ReleaseMutex_refused
<1>14. ASSUME SetEvent_set(t) PROVE Quiet
  BY <1>14 DEF SetEvent_set
<1>15. ASSUME ResetEvent_reset(t) PROVE Quiet
  BY <1>15 DEF ResetEvent_reset
<1>16. ASSUME SetOrReset_fails(t) PROVE Quiet
  BY <1>16 DEF SetOrReset_fails
<1>17. ASSUME Close_type(t) PROVE Quiet
  BY <1>17 DEF Close_type
<1>18. ASSUME Close_mutex_get_name(t) \/ Close_mutex_get(t) \/ Close_mutex_get_attr(t)
       PROVE  Quiet
  BY <1>18 DEF Close_mutex_get_name, Close_mutex_get, Close_mutex_get_attr
<1>19. ASSUME Close_event_get(t) PROVE Quiet
  BY <1>19 DEF Close_event_get
<1>20. ASSUME event_destroy(t) PROVE Quiet
  BY <1>20 DEF event_destroy
<1>21. ASSUME Close_erase(t) PROVE Quiet
  BY <1>21 DEF Close_erase
<1> QED BY <1>1, <1>2, <1>3, <1>4, <1>5, <1>6, <1>7, <1>8, <1>9, <1>10, <1>11,
           <1>12, <1>13, <1>14, <1>15, <1>16, <1>17, <1>18, <1>19, <1>20, <1>21 DEF QuietStep

(* A new mutex is made where there was none, so it is free already. *)
LEMMA CreateMutexIsQuiet ==
  ASSUME LockInv, NEW t \in Thread, CreateMutexA_new(t)
  PROVE  Quiet
<1>1. PICK o \in Obj : /\ kind[o] = "none"
                       /\ kind' = [kind EXCEPT ![o] = "MUTEX"]
                       /\ owner' = [owner EXCEPT ![o] = NoThread]
                       /\ count' = [count EXCEPT ![o] = 0]
  BY DEF CreateMutexA_new
<1>2. owner' = owner /\ count' = count
  BY <1>1 DEF LockInv, LockTypes, DeadMeansFree, CountedMeansOwned
<1>3. pc[t] = "new_mutex" /\ holds' = holds /\ ptr' = ptr /\ ignored' = ignored
      /\ \E place \in {"idle", "initial_owner"} : pc' = [pc EXCEPT ![t] = place]
  BY DEF CreateMutexA_new, GotMutex, Give, Return, Goto
<1> QED BY <1>1, <1>2, <1>3 DEF LockInv, LockTypes, Quiet, Places

LEMMA CreateEventIsQuiet ==
  ASSUME LockInv, NEW t \in Thread, CreateEventA_new(t)
  PROVE  Quiet
<1>1. PICK o \in Obj : kind[o] = "none" /\ kind' = [kind EXCEPT ![o] = "EVENT"]
  BY DEF CreateEventA_new
<1>2. pc[t] = "new_event" /\ pc' = [pc EXCEPT ![t] = "idle"]
      /\ owner' = owner /\ count' = count /\ UNCHANGED <<ptr, holds, ignored>>
  BY DEF CreateEventA_new, Give, Return, Goto, history
<1> QED BY <1>1, <1>2 DEF LockInv, LockTypes, Quiet, Places

(* Taking the mutex, for good (inc = 1) or inside ReleaseMutex (inc = 0). *)
LEMMA LockKeeps ==
  ASSUME LockInv, NEW t \in Thread, NEW o \in Obj, ptr[t] = o, kind[o] = "MUTEX",
         LockIt(t, o), NEW inc \in {0, 1}, NEW place \in Places,
         place = "unlock1" <=> inc = 0, pc[t] # "unlock1",
         pc' = [pc EXCEPT ![t] = place], ptr' = ptr,
         holds' = [holds EXCEPT ![t][o] = @ + inc], ignored' = ignored
  PROVE  LockInv'
<1>1. /\ owner[o] \in {NoThread, t}
      /\ owner' = [owner EXCEPT ![o] = t]
      /\ count' = [count EXCEPT ![o] = @ + 1]
      /\ kind' = kind
  BY DEF LockIt, Available
<1>2. LockTypes'
  BY <1>1 DEF LockInv, LockTypes
<1>3. CountedMeansOwned' /\ DeadMeansFree'
  BY <1>1, SynchAssumption DEF LockInv, LockTypes, CountedMeansOwned, DeadMeansFree
<1>4. "lock" \notin ignored[t][o] =>
        /\ count[o] >= holds[t][o]
        /\ "unlock" \notin ignored[t][o] => count[o] = holds[t][o]
  BY <1>1, SynchAssumption DEF LockInv, LockTypes, CountedMeansOwned, HoldsMatchLock, InRelease
<1>5. \A u \in Thread \ {t} : "lock" \notin ignored[u][o] => holds[u][o] = 0
  BY <1>1, SynchAssumption DEF LockInv, LockTypes, HoldsMatchLock
<1>6. HoldsMatchLock'
  BY <1>1, <1>4, <1>5 DEF LockInv, LockTypes, HoldsMatchLock, InRelease
<1> QED BY <1>2, <1>3, <1>6 DEF LockInv

(* ReleaseMutex's first unlock gives back what its trylock took. *)
LEMMA Unlock1Keeps ==
  ASSUME LockInv, NEW t \in Thread, ReleaseMutex_unlock1(t)
  PROVE  LockInv'
<1> DEFINE o == ptr[t]
<1>1. /\ o \in Obj /\ kind[o] = "MUTEX" /\ kind' = kind /\ UNCHANGED <<holds, ptr, ignored>>
      /\ pc[t] = "unlock1" /\ pc' = [pc EXCEPT ![t] = "unlock2"]
  BY DEF ReleaseMutex_unlock1, Live, UnlockIt, Goto, history
<1>2. CASE owner[o] = t
  <2>1. /\ count' = [count EXCEPT ![o] = @ - 1]
        /\ owner' = [owner EXCEPT ![o] = IF count[o] = 1 THEN NoThread ELSE t]
    BY <1>2 DEF ReleaseMutex_unlock1, UnlockIt
  <2>2. /\ count[o] > 0
        /\ "lock" \notin ignored[t][o] =>
             /\ count[o] >= holds[t][o] + 1
             /\ "unlock" \notin ignored[t][o] => count[o] = holds[t][o] + 1
    BY <1>1, <1>2, SynchAssumption
       DEF LockInv, LockTypes, CountedMeansOwned, HoldsMatchLock, InRelease
  <2>3. \A u \in Thread \ {t} : "lock" \notin ignored[u][o] => holds[u][o] = 0
    BY <1>1, <1>2 DEF LockInv, LockTypes, HoldsMatchLock
  <2>4. LockTypes'
    BY <1>1, <2>1, <2>2 DEF LockInv, LockTypes, Places
  <2>5. CountedMeansOwned' /\ DeadMeansFree'
    BY <1>1, <2>1, <2>2, SynchAssumption DEF LockInv, LockTypes, CountedMeansOwned, DeadMeansFree
  <2>6. HoldsMatchLock'
    BY <1>1, <1>2, <2>1, <2>2, <2>3, SynchAssumption
       DEF LockInv, LockTypes, HoldsMatchLock, InRelease
  <2> QED BY <2>4, <2>5, <2>6 DEF LockInv
<1>3. CASE owner[o] # t
  <2>1. owner' = owner /\ count' = count
    BY <1>3 DEF ReleaseMutex_unlock1, UnlockIt
  <2> QED BY <1>1, <1>3, <2>1 DEF LockInv, LockTypes, CountedMeansOwned, DeadMeansFree,
             HoldsMatchLock, InRelease, Places
<1> QED BY <1>2, <1>3

(* The second unlock gives back one wait, if the thread has one. *)
LEMMA Unlock2Keeps ==
  ASSUME LockInv, NEW t \in Thread, ReleaseMutex_unlock2(t)
  PROVE  LockInv'
<1> DEFINE o == ptr[t]
<1>1. /\ o \in Obj /\ kind[o] = "MUTEX" /\ kind' = kind /\ ptr' = ptr /\ ignored' = ignored
      /\ pc[t] = "unlock2" /\ pc' = [pc EXCEPT ![t] = "idle"]
      /\ holds' = IF holds[t][o] > 0 THEN [holds EXCEPT ![t][o] = @ - 1] ELSE holds
  BY DEF ReleaseMutex_unlock2, Live, UnlockIt, Released, Return, Goto
<1>2. CASE owner[o] = t
  <2>1. /\ count' = [count EXCEPT ![o] = @ - 1]
        /\ owner' = [owner EXCEPT ![o] = IF count[o] = 1 THEN NoThread ELSE t]
    BY <1>2 DEF ReleaseMutex_unlock2, UnlockIt
  <2>2. /\ count[o] > 0
        /\ "lock" \notin ignored[t][o] =>
             /\ count[o] >= holds[t][o]
             /\ "unlock" \notin ignored[t][o] => count[o] = holds[t][o]
    <3>1. count[o] > 0
      BY <1>1, <1>2, SynchAssumption DEF LockInv, LockTypes, CountedMeansOwned
    <3>2. InRelease(t, o) = 0 /\ holds[t][o] \in Nat
      BY <1>1 DEF InRelease, LockInv, LockTypes
    <3>3. "lock" \notin ignored[t][o] =>
            /\ count[o] >= holds[t][o] + InRelease(t, o)
            /\ "unlock" \notin ignored[t][o] => count[o] = holds[t][o] + InRelease(t, o)
      BY <1>1, <1>2 DEF LockInv, HoldsMatchLock
    <3> QED BY <3>1, <3>2, <3>3
  <2>3. \A u \in Thread \ {t} : "lock" \notin ignored[u][o] => holds[u][o] = 0
    BY <1>1, <1>2 DEF LockInv, LockTypes, HoldsMatchLock
  <2>4. LockTypes'
    BY <1>1, <2>1, <2>2 DEF LockInv, LockTypes, Places
  <2>5. CountedMeansOwned' /\ DeadMeansFree'
    BY <1>1, <2>1, <2>2, SynchAssumption DEF LockInv, LockTypes, CountedMeansOwned, DeadMeansFree
  <2>6. HoldsMatchLock'
    <3>1. CASE holds[t][o] > 0
      BY <1>1, <1>2, <2>1, <2>2, <2>3, <3>1, SynchAssumption
         DEF LockInv, LockTypes, HoldsMatchLock, InRelease
    <3>2. CASE ~(holds[t][o] > 0)
      BY <1>1, <1>2, <2>1, <2>2, <2>3, <3>2, SynchAssumption
         DEF LockInv, LockTypes, HoldsMatchLock, InRelease
    <3> QED BY <3>1, <3>2
  <2> QED BY <2>4, <2>5, <2>6 DEF LockInv
<1>3. CASE owner[o] # t
  <2>1. owner' = owner /\ count' = count
    BY <1>3 DEF ReleaseMutex_unlock2, UnlockIt
  <2>2. "lock" \notin ignored[t][o] => holds' = holds
    BY <1>1, <1>3 DEF LockInv, LockTypes, HoldsMatchLock
  <2>3. HoldsMatchLock'
    BY <1>1, <1>3, <2>1, <2>2 DEF LockInv, LockTypes, HoldsMatchLock, InRelease
  <2> QED BY <1>1, <1>3, <2>1, <2>3 DEF LockInv, LockTypes, CountedMeansOwned, DeadMeansFree,
             Places
<1> QED BY <1>2, <1>3

(* A failed lock is the one way to be given a mutex that one does not own; *)
(* a failed unlock leaves the lock count above what the thread believes.   *)
LEMMA FailuresKeep ==
  ASSUME LockInv, NEW t \in Thread,
         \/ InitialOwner_lock_fails(t) \/ ReleaseMutex_unlock1_fails(t)
         \/ ReleaseMutex_unlock2_fails(t)
  PROVE  LockInv'
<1> DEFINE o == ptr[t]
<1>0. /\ o \in Obj /\ UNCHANGED <<kind, owner, count, ptr>>
      /\ \E place \in {"idle", "unlock2"} : pc' = [pc EXCEPT ![t] = place]
  BY DEF InitialOwner_lock_fails, ReleaseMutex_unlock1_fails, ReleaseMutex_unlock2_fails, Live,
     Released, Give, Return, Goto, objects
<1>1. CASE InitialOwner_lock_fails(t)
  <2>1. /\ holds' = [holds EXCEPT ![t][o] = @ + 1] /\ pc[t] = "lock"
        /\ ignored' = [ignored EXCEPT ![t][o] = @ \cup {"lock"}]
    BY <1>1 DEF InitialOwner_lock_fails, Ignore
  <2>2. LockTypes' /\ CountedMeansOwned' /\ DeadMeansFree'
    BY <1>0, <2>1 DEF LockInv, LockTypes, CountedMeansOwned, DeadMeansFree, Places
  <2>3. HoldsMatchLock'
    BY <1>0, <2>1 DEF LockInv, LockTypes, HoldsMatchLock, InRelease
  <2> QED BY <2>2, <2>3 DEF LockInv
<1>2. CASE ReleaseMutex_unlock1_fails(t)
  <2>1. /\ holds' = holds /\ pc[t] = "unlock1"
        /\ ignored' = [ignored EXCEPT ![t][o] = @ \cup {"unlock"}]
    BY <1>2 DEF ReleaseMutex_unlock1_fails, Ignore
  <2>2. LockTypes' /\ CountedMeansOwned' /\ DeadMeansFree'
    BY <1>0, <2>1 DEF LockInv, LockTypes, CountedMeansOwned, DeadMeansFree, Places
  <2>3. HoldsMatchLock'
    BY <1>0, <2>1 DEF LockInv, LockTypes, HoldsMatchLock, InRelease
  <2> QED BY <2>2, <2>3 DEF LockInv
<1>3. CASE ReleaseMutex_unlock2_fails(t)
  <2>1. /\ holds' = IF holds[t][o] > 0 THEN [holds EXCEPT ![t][o] = @ - 1] ELSE holds
        /\ ignored' = [ignored EXCEPT ![t][o] = @ \cup {"unlock"}] /\ pc[t] = "unlock2"
    BY <1>3 DEF ReleaseMutex_unlock2_fails, Ignore, Released
  <2>2. LockTypes' /\ CountedMeansOwned' /\ DeadMeansFree'
    BY <1>0, <2>1 DEF LockInv, LockTypes, CountedMeansOwned, DeadMeansFree, Places
  <2>3. HoldsMatchLock'
    BY <1>0, <2>1 DEF LockInv, LockTypes, HoldsMatchLock, InRelease
  <2> QED BY <2>2, <2>3 DEF LockInv
<1> QED BY <1>1, <1>2, <1>3

(* CloseHandle takes the mutex from everybody. *)
LEMMA DeleteKeeps ==
  ASSUME LockInv, NEW t \in Thread, Delete_mutex(t)
  PROVE  LockInv'
<1> DEFINE o == ptr[t]
<1>1. /\ o \in Obj /\ kind' = [kind EXCEPT ![o] = "none"] /\ ptr' = ptr
      /\ owner' = [owner EXCEPT ![o] = NoThread]
      /\ count' = [count EXCEPT ![o] = 0]
      /\ holds' = [u \in Thread |-> [holds[u] EXCEPT ![o] = 0]]
      /\ ignored' = [u \in Thread |-> [ignored[u] EXCEPT ![o] = {}]]
      /\ pc[t] = "delete_mutex" /\ pc' = [pc EXCEPT ![t] = "erase"]
  BY DEF Delete_mutex, Live, Goto
<1> QED BY <1>1, SynchAssumption DEF LockInv, LockTypes, CountedMeansOwned, DeadMeansFree,
           HoldsMatchLock, InRelease, Places

(* A thread that crashes inside ReleaseMutex held nothing there: what it   *)
(* points to is no live mutex.                                             *)
LEMMA CrashKeeps ==
  ASSUME LockInv, NEW t \in Thread, UseAfterDelete(t)
  PROVE  LockInv'
<1>1. /\ owner' = owner /\ count' = count /\ kind' = kind /\ UNCHANGED <<holds, ptr, ignored>>
      /\ pc' = [pc EXCEPT ![t] = "crashed"]
      /\ pc[t] = "unlock1" => ptr[t] \notin Obj \/ kind[ptr[t]] # "MUTEX"
  BY DEF UseAfterDelete, Crash, Live, Goto, objects, history
<1> QED BY <1>1, SynchAssumption DEF LockInv, LockTypes, CountedMeansOwned, DeadMeansFree,
           HoldsMatchLock, InRelease, Places

LEMMA LockStep == LockInv /\ [Next]_vars => LockInv'
<1> SUFFICES ASSUME LockInv, [Next]_vars PROVE LockInv'
  OBVIOUS
<1>1. ASSUME UNCHANGED vars PROVE LockInv'
  BY <1>1 DEF LockInv, LockTypes, CountedMeansOwned, DeadMeansFree, HoldsMatchLock,
     InRelease, vars, objects, history
<1>2. ASSUME NEW t \in Thread, Call(t) PROVE LockInv'
  BY <1>2, CallIsQuiet, QuietKeeps
<1>3. ASSUME NEW t \in Thread, Step(t) PROVE LockInv'
  <2>1. CASE QuietStep(t) \/ CreateMutexA_new(t) \/ CreateEventA_new(t)
    BY <2>1, QuietStepIsQuiet, CreateMutexIsQuiet, CreateEventIsQuiet, QuietKeeps
  <2>2. CASE InitialOwner_lock(t)
    <3>1. /\ ptr[t] \in Obj /\ kind[ptr[t]] = "MUTEX" /\ LockIt(t, ptr[t])
          /\ pc[t] # "unlock1" /\ pc' = [pc EXCEPT ![t] = "idle"] /\ ptr' = ptr
          /\ holds' = [holds EXCEPT ![t][ptr[t]] = @ + 1] /\ ignored' = ignored
      BY <2>2 DEF InitialOwner_lock, Live, Give, Return, Goto
    <3>2. 1 \in {0, 1} /\ "idle" \in Places /\ (("idle" = "unlock1") <=> (1 = 0))
      BY DEF Places
    <3> QED BY <3>1, <3>2, LockKeeps
  <2>3. CASE Wait_mutex_lock(t)
    <3>1. /\ ptr[t] \in Obj /\ kind[ptr[t]] = "MUTEX" /\ LockIt(t, ptr[t])
          /\ pc[t] # "unlock1" /\ pc' = [pc EXCEPT ![t] = "idle"] /\ ptr' = ptr
          /\ holds' = [holds EXCEPT ![t][ptr[t]] = @ + 1] /\ ignored' = ignored
      BY <2>3 DEF Wait_mutex_lock, Live, Return, Goto
    <3>2. 1 \in {0, 1} /\ "idle" \in Places /\ (("idle" = "unlock1") <=> (1 = 0))
      BY DEF Places
    <3> QED BY <3>1, <3>2, LockKeeps
  <2>4. CASE ReleaseMutex_trylock(t)
    <3>1. /\ ptr[t] \in Obj /\ kind[ptr[t]] = "MUTEX" /\ LockIt(t, ptr[t])
          /\ pc[t] # "unlock1" /\ pc' = [pc EXCEPT ![t] = "unlock1"] /\ ptr' = ptr
          /\ holds' = holds /\ ignored' = ignored
      BY <2>4 DEF ReleaseMutex_trylock, Live, Goto, history
    <3>2. holds' = [holds EXCEPT ![t][ptr[t]] = @ + 0]
      BY <3>1 DEF LockInv, LockTypes
    <3> QED BY <3>1, <3>2, LockKeeps DEF Places
  <2>5. CASE ReleaseMutex_unlock1(t) \/ ReleaseMutex_unlock2(t) \/ Delete_mutex(t) \/ UseAfterDelete(t)
    BY <2>5, Unlock1Keeps, Unlock2Keeps, DeleteKeeps, CrashKeeps
  <2>6. CASE \/ InitialOwner_lock_fails(t) \/ ReleaseMutex_unlock1_fails(t)
             \/ ReleaseMutex_unlock2_fails(t)
    BY <2>6, FailuresKeep
  <2> QED BY <1>3, <2>1, <2>2, <2>3, <2>4, <2>5, <2>6 DEF Step, QuietStep
<1> QED BY <1>1, <1>2, <1>3 DEF Next

(* Mutual exclusion and recursion: whoever was given the mutex owns it, as *)
(* often as it was given it, whatever ReleaseMutex and CloseHandle do in   *)
(* between; with failing pthread calls, whoever had no lock fail unnoticed *)
(* owns what it was given, and has it too often only if an unlock failed.  *)
THEOREM MutexExcludes == Spec => []HoldsMatchLock
<1>1. LockInv => HoldsMatchLock
  BY DEF LockInv
<1> QED BY <1>1, LockInit, LockStep, PTL DEF Spec

-----------------------------------------------------------------------------
(* Types.  The table only ever holds addresses of objects, which is what   *)
(* makes a handle found by name as good as one just created.               *)

WordsAreObjects == \A k \in DOMAIN map : map[k].word \in Obj

TypeInv == TypeOK /\ WordsAreObjects

LEMMA RegisterTypes ==
  ASSUME TypeInv, NEW r, NEW k \in H!Key, NEW o \in Obj, NEW n \in Text,
         H!mutex_reg(r, k, o, NullWord, n) \/ H!reg_event(r, k, o)
  PROVE  (H!TypeOK /\ WordsAreObjects)'
<1>1. PICK header \in H!Header : header.word = o /\ H!Register(r, k, header)
  BY SynchAssumption DEF H!mutex_reg, H!reg_event, H!Header, H!Types
<1>2. /\ DOMAIN map' = DOMAIN map \cup {k}
      /\ \A j \in DOMAIN map' : map'[j] = IF j = k THEN header ELSE map[j]
  BY <1>1 DEF H!Register
<1> QED BY <1>1, <1>2 DEF TypeInv, TypeOK, WordsAreObjects, H!TypeOK

LEMMA FieldTypes ==
  ASSUME TypeInv, NEW k \in MinInt..MaxInt
  PROVE  /\ H!mutex_get(k) \in Obj \cup {NullWord}
         /\ H!get_event(k) = H!mutex_get(k)
BY DEF TypeInv, TypeOK, WordsAreObjects, H!mutex_get, H!get_event, H!Field

(* What LockInv does not cover; its own part of the types is LockTypes'.   *)
RestTypes ==
  /\ H!TypeOK
  /\ signaled \in [Obj -> BOOLEAN]
  /\ manual \in [Obj -> BOOLEAN]
  /\ op \in [Thread -> Creators \cup Users]
  /\ h \in [Thread -> MinInt..MaxInt]
  /\ ms \in [Thread -> Timeouts]
  /\ ptr \in [Thread -> Obj \cup {NullWord}]
  /\ name \in [Thread -> Text]
  /\ own \in [Thread -> BOOLEAN]
  /\ ret \in [Thread -> Results]
  /\ calls \in 0..MaxCalls
  /\ opened \in [Thread -> SUBSET ((MinInt..MaxInt) \X {"MUTEX", "EVENT"} \X Obj)]
  /\ took \in [Thread -> BOOLEAN]
  /\ late \in [Thread -> SUBSET (MinInt..MaxInt)]
  /\ WordsAreObjects

LEMMA TypeParts == LockInv => (TypeInv <=> RestTypes)
BY DEF LockInv, LockTypes, TypeInv, TypeOK, RestTypes

LEMMA CallTypes ==
  ASSUME TypeInv, LockInv, NEW t \in Thread, Call(t)
  PROVE  RestTypes'
<1> USE TypeParts DEF RestTypes, WordsAreObjects, H!TypeOK, Goto, Begin, objects, history
<1>0. calls < MaxCalls /\ calls \in 0..MaxCalls => calls + 1 \in 0..MaxCalls
  BY SynchAssumption
<1>1. ASSUME NEW n \in Text, NEW b \in BOOLEAN, CallCreateMutexA(t, n, b) PROVE RestTypes'
  BY <1>0, <1>1 DEF CallCreateMutexA, Creators
<1>2. ASSUME CallCreateEventA(t) PROVE RestTypes'
  BY <1>0, <1>2 DEF CallCreateEventA, Creators
<1>3. ASSUME NEW k \in MinInt..MaxInt, NEW d \in Timeouts, CallWaitForSingleObject(t, k, d)
      PROVE  RestTypes'
  BY <1>0, <1>3 DEF CallWaitForSingleObject, Users
<1>4. ASSUME NEW k \in MinInt..MaxInt, NEW f \in {"ReleaseMutex", "SetEvent", "ResetEvent"},
             NEW type, CallOn(t, k, f, type)
      PROVE  RestTypes'
  BY <1>0, <1>4 DEF CallOn, Users
<1>5. ASSUME NEW e \in opened[t], CallCloseHandle(t, e) PROVE RestTypes'
  <2>1. e[1] \in MinInt..MaxInt
    OBVIOUS
  <2> QED BY <1>0, <1>5, <2>1 DEF CallCloseHandle, Users
<1> QED BY <1>1, <1>2, <1>3, <1>4, <1>5 DEF Call, CallCreateMutexW, CallCreateEventW

(* The steps that leave the table and the callers' handles alone. *)
PlainStep(t) ==
  \/ CreateFails(t) \/ InitialOwner_get(t) \/ Wait_type(t) \/ Wait_mutex_get(t)
  \/ Wait_event_get(t) \/ Wait_mutex_lock(t) \/ Wait_mutex_timeout(t)
  \/ Wait_event_satisfied(t) \/ Wait_event_sleep(t) \/ Wait_event_timeout(t)
  \/ Wait_event_error(t) \/ Lookup(t) \/ ReleaseMutex_trylock(t)
  \/ ReleaseMutex_refused(t) \/ ReleaseMutex_unlock1(t) \/ ReleaseMutex_unlock2(t)
  \/ ReleaseMutex_unlock1_fails(t) \/ ReleaseMutex_unlock2_fails(t)
  \/ SetEvent_set(t) \/ ResetEvent_reset(t) \/ SetOrReset_fails(t)
  \/ Close_type(t) \/ Close_mutex_get_name(t) \/ Close_mutex_get(t)
  \/ Close_mutex_get_attr(t) \/ Close_event_get(t)
  \/ Delete_mutex(t) \/ event_destroy(t) \/ UseAfterDelete(t)

LEMMA PlainStepFrame ==
  ASSUME NEW t \in Thread, PlainStep(t)
  PROVE  /\ UNCHANGED <<map, locals, manual, calls, opened, late>>
         /\ \/ ret' = ret
            \/ \E r \in Results : ret' = [ret EXCEPT ![t] = r]
         /\ \/ ptr' = ptr
            \/ \E p \in {NullWord, H!mutex_get(h[t]), H!get_event(h[t])} :
                 ptr' = [ptr EXCEPT ![t] = p]
         /\ \/ took' = took
            \/ took' = [took EXCEPT ![t] = TRUE]
         /\ \/ signaled' = signaled
            \/ ptr[t] \in Obj
               /\ \E b \in {TRUE, FALSE, manual[ptr[t]]} :
                    signaled' = [signaled EXCEPT ![ptr[t]] = b]
<1> DEFINE Goal ==
         /\ UNCHANGED <<map, locals, manual, calls, opened, late>>
         /\ \/ ret' = ret
            \/ \E r \in Results : ret' = [ret EXCEPT ![t] = r]
         /\ \/ ptr' = ptr
            \/ \E p \in {NullWord, H!mutex_get(h[t]), H!get_event(h[t])} :
                 ptr' = [ptr EXCEPT ![t] = p]
         /\ \/ took' = took
            \/ took' = [took EXCEPT ![t] = TRUE]
         /\ \/ signaled' = signaled
            \/ ptr[t] \in Obj
               /\ \E b \in {TRUE, FALSE, manual[ptr[t]]} :
                    signaled' = [signaled EXCEPT ![ptr[t]] = b]
<1> USE DEF objects, history, Goto, Return, Point, Live, Results, LockIt, UnlockIt, InEventWait
<1>1. CASE CreateFails(t) \/ InitialOwner_get(t) \/ Wait_type(t) \/ Wait_mutex_get(t)
  BY <1>1 DEF CreateFails, InitialOwner_get, Wait_type, Wait_mutex_get
<1>2. CASE Wait_event_get(t) \/ Wait_mutex_lock(t) \/ Wait_mutex_timeout(t)
  BY <1>2 DEF Wait_event_get, Wait_mutex_lock, Wait_mutex_timeout
<1>3. CASE Wait_event_satisfied(t)
  BY <1>3 DEF Wait_event_satisfied
<1>4. CASE Wait_event_sleep(t) \/ Wait_event_timeout(t) \/ Wait_event_error(t)
  BY <1>4 DEF Wait_event_sleep, Wait_event_timeout, Wait_event_error
<1>5. CASE Lookup(t)
  BY <1>5 DEF Lookup
<1>6. CASE ReleaseMutex_trylock(t) \/ ReleaseMutex_refused(t)
           \/ ReleaseMutex_unlock1(t) \/ ReleaseMutex_unlock2(t)
           \/ ReleaseMutex_unlock1_fails(t) \/ ReleaseMutex_unlock2_fails(t)
  BY <1>6 DEF ReleaseMutex_trylock, ReleaseMutex_refused, ReleaseMutex_unlock1,
     ReleaseMutex_unlock2, ReleaseMutex_unlock1_fails, ReleaseMutex_unlock2_fails, Released
<1>7. CASE SetEvent_set(t) \/ ResetEvent_reset(t)
  BY <1>7 DEF SetEvent_set, ResetEvent_reset
<1>8. CASE SetOrReset_fails(t)
  <2>1. (pc[t] = "set") \in {TRUE, FALSE}
    OBVIOUS
  <2> QED BY <1>8, <2>1 DEF SetOrReset_fails
<1>9. CASE \/ Close_type(t) \/ Close_mutex_get_name(t) \/ Close_mutex_get(t)
           \/ Close_mutex_get_attr(t) \/ Close_event_get(t)
  BY <1>9 DEF Close_type, Close_mutex_get_name, Close_mutex_get, Close_mutex_get_attr,
     Close_event_get
<1>10. CASE Delete_mutex(t) \/ event_destroy(t) \/ UseAfterDelete(t)
  BY <1>10 DEF Delete_mutex, event_destroy, UseAfterDelete, Crash
<1> QED BY <1>1, <1>2, <1>3, <1>4, <1>5, <1>6, <1>7, <1>8, <1>9, <1>10 DEF PlainStep

LEMMA PlainStepTypes ==
  ASSUME TypeInv, LockInv, NEW t \in Thread, PlainStep(t)
  PROVE  RestTypes'
<1>1. h[t] \in MinInt..MaxInt
  BY DEF TypeInv, TypeOK
<1>2. H!mutex_get(h[t]) \in Obj \cup {NullWord} /\ H!get_event(h[t]) \in Obj \cup {NullWord}
  BY <1>1, FieldTypes
<1>3. (H!TypeOK /\ WordsAreObjects)'
  BY PlainStepFrame DEF TypeInv, TypeOK, WordsAreObjects, H!TypeOK
<1>4. (signaled \in [Obj -> BOOLEAN])' /\ (took \in [Thread -> BOOLEAN])'
  BY PlainStepFrame DEF TypeInv, TypeOK
<1>5. (ret \in [Thread -> Results])'
  <2>1. ret' = ret \/ \E r \in Results : ret' = [ret EXCEPT ![t] = r]
    BY PlainStepFrame
  <2>2. ret \in [Thread -> Results]
    BY DEF TypeInv, TypeOK
  <2> QED BY <2>1, <2>2
<1>6. (ptr \in [Thread -> Obj \cup {NullWord}])'
  <2>1. ptr' = ptr \/ \E p \in Obj \cup {NullWord} : ptr' = [ptr EXCEPT ![t] = p]
    BY <1>2, PlainStepFrame
  <2> QED BY <2>1 DEF TypeInv, TypeOK
<1> QED BY <1>3, <1>4, <1>5, <1>6, PlainStepFrame DEF TypeInv, TypeOK, RestTypes, locals

(* The steps that change them: creations, a name found, an entry erased.   *)
LEMMA TableStepTypes ==
  ASSUME TypeInv, LockInv, NEW t \in Thread,
         \/ CreateMutexA_find(t) \/ CreateMutexA_new(t) \/ InitialOwner_lock(t)
         \/ InitialOwner_lock_fails(t) \/ CreateEventA_new(t) \/ Close_erase(t)
  PROVE  RestTypes'
<1> USE TypeParts DEF RestTypes, Goto, Return, Give, GotMutex, Results, objects, locals, history
<1>1. CASE CreateMutexA_find(t)
  <2>1. PICK k \in H!mutex_find_by_name(name[t]) :
          /\ h' = [h EXCEPT ![t] = k]
          /\ \/ k = NULL /\ Goto(t, "new_mutex") /\ UNCHANGED <<ret, opened>>
             \/ k # NULL /\ GotMutex(t, k, H!mutex_get(k))
    BY <1>1 DEF CreateMutexA_find
  <2>2. k = NULL \/ k \in DOMAIN map
    BY <2>1 DEF H!mutex_find_by_name, H!FoundIn, H!NULL, NULL
  <2>3. k \in MinInt..MaxInt
    BY <2>2, SynchAssumption DEF TypeInv, TypeOK, H!TypeOK, H!Key, NULL
  <2>4. k # NULL => H!mutex_get(k) \in Obj
    BY <2>2 DEF TypeInv, WordsAreObjects, H!mutex_get, H!Field
  <2> QED BY <1>1, <2>1, <2>3, <2>4 DEF CreateMutexA_find, WordsAreObjects, H!TypeOK
<1>2. CASE CreateMutexA_new(t)
  <2>1. PICK o \in Obj, r \in H!RandResult, k \in H!Key :
          /\ H!mutex_reg(r, k, o, NullWord, name[t])
          /\ h' = [h EXCEPT ![t] = k]
          /\ late' = [u \in Thread |-> IF u # t /\ pc[u] = "new_mutex"
                                       THEN late[u] \cup {k} ELSE {}]
          /\ GotMutex(t, k, o)
    BY <1>2 DEF CreateMutexA_new
  <2>2. (H!TypeOK /\ WordsAreObjects)'
    BY <2>1, RegisterTypes
  <2>3. k \in MinInt..MaxInt
    BY DEF H!Key
  <2> QED BY <1>2, <2>1, <2>2, <2>3 DEF CreateMutexA_new
<1>3. CASE InitialOwner_lock(t) \/ InitialOwner_lock_fails(t)
  BY <1>3 DEF InitialOwner_lock, InitialOwner_lock_fails, Live, LockIt, WordsAreObjects, H!TypeOK
<1>4. CASE CreateEventA_new(t)
  <2> HIDE DEF Return, Give
  <2>1. PICK o \in Obj, r \in H!RandResult, k \in H!Key,
             bManualReset \in BOOLEAN, bInitialState \in BOOLEAN :
          /\ H!reg_event(r, k, o)
          /\ manual' = [manual EXCEPT ![o] = bManualReset]
          /\ signaled' = [signaled EXCEPT ![o] = bInitialState]
          /\ \/ k = NULL /\ Return(t, "NULL") /\ UNCHANGED opened
             \/ k # NULL /\ Give(t, k, "EVENT", o)
    BY <1>4 DEF CreateEventA_new
  <2>2. (H!TypeOK /\ WordsAreObjects)'
    BY <2>1, RegisterTypes, SynchAssumption
  <2>3. k \in MinInt..MaxInt
    BY DEF H!Key
  <2>4. (signaled \in [Obj -> BOOLEAN])' /\ (manual \in [Obj -> BOOLEAN])'
    BY <2>1
  <2>5. /\ (ret \in [Thread -> Results])'
        /\ opened' \in [Thread -> SUBSET ((MinInt..MaxInt) \X {"MUTEX", "EVENT"} \X Obj)]
    BY <2>1, <2>3 DEF Return, Give
  <2> QED BY <1>4, <2>2, <2>4, <2>5 DEF CreateEventA_new
<1>5. CASE Close_erase(t)
  BY <1>5 DEF Close_erase, H!erase, WordsAreObjects, H!TypeOK
<1> QED BY <1>1, <1>2, <1>3, <1>4, <1>5

LEMMA TypeStep == TypeInv /\ LockInv /\ [Next]_vars => TypeInv'
<1> SUFFICES ASSUME TypeInv, LockInv, [Next]_vars PROVE TypeInv'
  OBVIOUS
<1>1. LockInv'
  BY LockStep
<1>2. ASSUME UNCHANGED vars PROVE TypeInv'
  BY <1>2 DEF TypeInv, TypeOK, WordsAreObjects, H!TypeOK, vars, objects, locals, history
<1>3. ASSUME NEW t \in Thread, Call(t) \/ Step(t) PROVE RestTypes'
  BY <1>3, CallTypes, PlainStepTypes, TableStepTypes DEF Step, PlainStep
<1>4. LockInv' => (TypeInv' <=> RestTypes')
  BY DEF LockInv, LockTypes, TypeInv, TypeOK, RestTypes
<1> QED BY <1>1, <1>2, <1>3, <1>4 DEF Next

LEMMA TypeInit == Init => TypeInv
BY SynchAssumption DEF Init, TypeInv, TypeOK, WordsAreObjects, H!Init, H!TypeOK, Places,
   Users, Creators, Results, NULL

(* Every variable keeps its type: no count goes below 0 and every address  *)
(* in the table, or handed out with a handle, is that of an object.        *)
THEOREM TypeCorrect == Spec => []TypeOK
<1>1. TypeInv => TypeOK
  BY DEF TypeInv
<1> QED BY <1>1, LockInit, LockStep, TypeInit, TypeStep, PTL DEF Spec

-----------------------------------------------------------------------------
(* What WaitForSingleObject answers.                                       *)

(* What its callers have been told is true, and a thread that still waits  *)
(* has not acquired anything.                                              *)
Truly(t) ==
  pc[t] = "idle" /\ op[t] = "WaitForSingleObject" =>
    /\ ret[t] = "WAIT_OBJECT_0" =>
         took[t] \/ (~Forever(ms[t]) /\ (PthreadFails \/ IsNegativeLong(ms[t])))
    /\ ret[t] = "WAIT_TIMEOUT" /\ Forever(ms[t]) => PthreadFails
    /\ took[t] => ret[t] = "WAIT_OBJECT_0"
Waiting(t) == pc[t] # "idle" /\ op[t] = "WaitForSingleObject" => took[t] = FALSE

WaitInv == \A t \in Thread : Truly(t) /\ Waiting(t)

(* A step is one thread's, and leaves that thread waiting or truly answered.*)
Answers(t) ==
  /\ pc' = [pc EXCEPT ![t] = pc'[t]] /\ op' = [op EXCEPT ![t] = op'[t]]
  /\ ms' = [ms EXCEPT ![t] = ms'[t]] /\ took' = [took EXCEPT ![t] = took'[t]]
  /\ ret' = [ret EXCEPT ![t] = ret'[t]]
  /\ Truly(t)' /\ Waiting(t)'

LEMMA CallAnswers ==
  ASSUME TypeOK, NEW t \in Thread, Call(t)
  PROVE  Answers(t)
<1> USE DEF TypeOK, Answers, Truly, Waiting, Goto, Begin
<1>1. ASSUME NEW n \in Text, NEW b \in BOOLEAN, CallCreateMutexA(t, n, b) PROVE Answers(t)
  BY <1>1 DEF CallCreateMutexA, EntryPoints
<1>2. ASSUME CallCreateEventA(t) PROVE Answers(t)
  BY <1>2 DEF CallCreateEventA
<1>3. ASSUME NEW k, NEW d, CallWaitForSingleObject(t, k, d) PROVE Answers(t)
  BY <1>3 DEF CallWaitForSingleObject
<1>4. ASSUME NEW k, NEW f \in {"ReleaseMutex", "SetEvent", "ResetEvent"}, NEW type,
             CallOn(t, k, f, type)
      PROVE  Answers(t)
  BY <1>4 DEF CallOn
<1>5. ASSUME NEW e, CallCloseHandle(t, e) PROVE Answers(t)
  BY <1>5 DEF CallCloseHandle
<1> QED BY <1>1, <1>2, <1>3, <1>4, <1>5 DEF Call, CallCreateMutexW, CallCreateEventW

LEMMA StepAnswers ==
  ASSUME TypeOK, NEW t \in Thread, Waiting(t), Step(t)
  PROVE  Answers(t)
<1> USE DEF TypeOK, Answers, Truly, Waiting, Goto, Return, locals, history
<1>1. CASE CreateMutexA_find(t) \/ CreateMutexA_new(t) \/ CreateEventA_new(t)
  BY <1>1 DEF CreateMutexA_find, CreateMutexA_new, CreateEventA_new, GotMutex, Give
<1>2. CASE \/ CreateFails(t) \/ InitialOwner_get(t) \/ InitialOwner_lock(t)
           \/ InitialOwner_lock_fails(t)
  BY <1>2 DEF CreateFails, InitialOwner_get, InitialOwner_lock, InitialOwner_lock_fails, Give
<1>3. CASE Wait_type(t) \/ Wait_mutex_get(t) \/ Wait_event_get(t)
  BY <1>3 DEF Wait_type, Wait_mutex_get, Wait_event_get
<1>4. CASE Wait_mutex_lock(t)
  BY <1>4 DEF Wait_mutex_lock
<1>5. CASE Wait_mutex_timeout(t)
  BY <1>5 DEF Wait_mutex_timeout
<1>6. CASE Wait_event_satisfied(t)
  BY <1>6 DEF Wait_event_satisfied
<1>7. CASE Wait_event_sleep(t) \/ Wait_event_timeout(t)
  BY <1>7 DEF Wait_event_sleep, Wait_event_timeout, InEventWait
<1>8. CASE Wait_event_error(t)
  BY <1>8 DEF Wait_event_error, InEventWait
<1>9. CASE Lookup(t)
  BY <1>9 DEF Lookup
<1>10. CASE ReleaseMutex_trylock(t) \/ ReleaseMutex_refused(t)
            \/ ReleaseMutex_unlock1(t) \/ ReleaseMutex_unlock2(t)
            \/ ReleaseMutex_unlock1_fails(t) \/ ReleaseMutex_unlock2_fails(t)
  BY <1>10 DEF ReleaseMutex_trylock, ReleaseMutex_refused, ReleaseMutex_unlock1,
     ReleaseMutex_unlock2, ReleaseMutex_unlock1_fails, ReleaseMutex_unlock2_fails, Released
<1>11. CASE SetEvent_set(t) \/ ResetEvent_reset(t) \/ SetOrReset_fails(t)
  BY <1>11 DEF SetEvent_set, ResetEvent_reset, SetOrReset_fails
<1>12. CASE \/ Close_type(t) \/ Close_mutex_get_name(t) \/ Close_mutex_get(t)
            \/ Close_mutex_get_attr(t) \/ Close_event_get(t)
  BY <1>12 DEF Close_type, Close_mutex_get_name, Close_mutex_get, Close_mutex_get_attr,
     Close_event_get
<1>13. CASE Delete_mutex(t) \/ event_destroy(t) \/ Close_erase(t) \/ UseAfterDelete(t)
  BY <1>13 DEF Delete_mutex, event_destroy, Close_erase, UseAfterDelete, Crash
<1> QED BY <1>1, <1>2, <1>3, <1>4, <1>5, <1>6, <1>7, <1>8, <1>9, <1>10, <1>11, <1>12,
           <1>13 DEF Step

(* What WaitForSingleObject answers is true in every build, for every      *)
(* timeout and with pthread calls that fail, but for the two cases that    *)
(* the property names: an event_timedwait that fails is reported as        *)
(* success, and fails for certain where a long takes the timeout for       *)
(* negative; an INFINITE that is not DWORD's own is a timeout like others. *)
(* The runs synch_long_timeout and synch_infinite64 show both.             *)
THEOREM WaitsTellTheTruth == Spec => []WaitsAnswerTruly
<1>1. Init => WaitInv
  BY DEF Init, WaitInv, Truly, Waiting
<1>2. ASSUME TypeOK, WaitInv, [Next]_vars PROVE WaitInv'
  <2>1. CASE UNCHANGED vars
    BY <1>2, <2>1 DEF vars, locals, history, WaitInv, Truly, Waiting
  <2>2. ASSUME NEW t \in Thread, Call(t) \/ Step(t) PROVE WaitInv'
    <3>1. Answers(t)
      BY <1>2, <2>2, CallAnswers, StepAnswers DEF WaitInv
    <3>2. /\ pc \in [Thread -> Places] /\ op \in [Thread -> Creators \cup Users]
          /\ ms \in [Thread -> Timeouts] /\ took \in [Thread -> BOOLEAN]
          /\ ret \in [Thread -> Results]
      BY <1>2 DEF TypeOK
    <3>3. \A u \in Thread \ {t} : /\ pc'[u] = pc[u] /\ op'[u] = op[u] /\ ms'[u] = ms[u]
                                  /\ took'[u] = took[u] /\ ret'[u] = ret[u]
      BY <3>1, <3>2 DEF Answers
    <3>4. Truly(t)' /\ Waiting(t)'
      BY <3>1 DEF Answers
    <3>5. \A u \in Thread \ {t} : Truly(u)' /\ Waiting(u)'
      BY <1>2, <3>3 DEF WaitInv, Truly, Waiting
    <3> QED BY <3>4, <3>5 DEF WaitInv
  <2> QED BY <1>2, <2>1, <2>2 DEF Next
<1>3. WaitInv => WaitsAnswerTruly
  BY DEF WaitInv, Truly, WaitsAnswerTruly
<1> QED BY <1>1, <1>2, <1>3, TypeCorrect, PTL DEF Spec

----------------------------------------------------------------------------
(* Handles, table entries and heap objects of SynchApi belong together,    *)
(* for any number of threads, objects and calls, where the callers keep    *)
(* CreateMutex and CloseHandle apart and close what nobody else uses, and  *)
(* whether or not pthread calls fail.                                      *)

(* What a thread inside a function is doing with the table. *)
Naming(t)  == Inside(t, {"CreateMutexA", "CloseHandle"})
Closing(t) == Inside(t, {"CloseHandle"})
Using(t)   == Inside(t, Users \ {"CloseHandle"})
Pinning(t) == pc[t] \in {"initial_owner", "lock"} \/ Closing(t)
Erasing(k) == \E t \in Thread : pc[t] = "erase" /\ h[t] = k

(* Entries whose object is still there.  The object of an entry that is    *)
(* being erased is gone, and its address may be another's already.         *)
Standing == {k \in DOMAIN map : ~Erasing(k)}

(* The places where the handle is known to be a mutex's or an event's, and *)
(* those where the pointer has been fetched.                               *)
MutexPlaces == {"initial_owner", "lock", "wait_mutex", "timedlock", "trylock", "unlock1",
                "unlock2", "close_mutex", "close_get", "close_attr", "delete_mutex"}
EventPlaces == {"wait_event", "event_wait", "event_sleep", "set", "reset", "close_event",
                "delete_event"}
PointerPlaces == {"lock", "timedlock", "trylock", "unlock1", "unlock2", "close_attr",
                  "delete_mutex", "event_wait", "event_sleep", "set", "reset",
                  "delete_event"}

(* The function that a place belongs to. *)
InFunction(t) ==
  /\ pc[t] \in {"find", "new_mutex", "initial_owner", "lock"} => op[t] = "CreateMutexA"
  /\ pc[t] = "new_event" => op[t] = "CreateEventA"
  /\ pc[t] \in {"wait_type", "wait_mutex", "wait_event", "timedlock", "event_wait",
                "event_sleep"} => op[t] = "WaitForSingleObject"
  /\ pc[t] = "lookup" => op[t] \in {"ReleaseMutex", "SetEvent", "ResetEvent"}
  /\ pc[t] \in {"trylock", "unlock1", "unlock2"} => op[t] = "ReleaseMutex"
  /\ pc[t] = "set" => op[t] = "SetEvent"
  /\ pc[t] = "reset" => op[t] = "ResetEvent"
  /\ pc[t] \in {"close_type", "close_mutex", "close_get", "close_attr",
                "close_event", "delete_mutex", "delete_event", "erase"} => op[t] = "CloseHandle"
  /\ pc[t] = "crashed" => op[t] \in {"SetEvent", "ResetEvent"}

(* A thread's handle and pointer agree with the table.  Only SetEvent and  *)
(* ResetEvent go on with NULL, as with any key.                            *)
HandleFits(t) ==
  /\ Pinning(t) => h[t] # NULL /\ h[t] \in DOMAIN map
  /\ Using(t) /\ h[t] # NULL =>
       /\ h[t] \in DOMAIN map
       /\ \A u \in Thread : Closing(u) => h[u] # h[t]
  /\ pc[t] \in MutexPlaces => h[t] # NULL /\ map[h[t]].type = "MUTEX"
  /\ pc[t] \in EventPlaces =>
       \/ h[t] # NULL /\ map[h[t]].type = "EVENT"
       \/ h[t] = NULL /\ pc[t] \in {"set", "reset"}
  /\ pc[t] = "lookup" /\ h[t] # NULL =>
       map[h[t]].type = IF op[t] = "ReleaseMutex" THEN "MUTEX" ELSE "EVENT"
  /\ pc[t] \in PointerPlaces /\ h[t] # NULL => ptr[t] = map[h[t]].word
  /\ pc[t] = "crashed" => h[t] = NULL

(* A thread that is about to create a named mutex has seen that there is   *)
(* none, unless a mutex has been registered at key 0.                      *)
NameIsNew(t) ==
  pc[t] = "new_mutex" /\ name[t] # NoText /\ NULL \notin DOMAIN map =>
    \A k \in DOMAIN map : ~(map[k].type = "MUTEX" /\ map[k].text = name[t])

ThreadOK(t) == InFunction(t) /\ HandleFits(t) /\ NameIsNew(t)

OneNames == \A t, u \in Thread : Naming(t) /\ Naming(u) => t = u

EntriesFit ==
  /\ \A k \in DOMAIN map : map[k].type \in {"MUTEX", "EVENT"}
  /\ \A k \in Standing : kind[map[k].word] = map[k].type
  /\ \A j, k \in Standing : map[j].word = map[k].word => j = k
  /\ \A o \in Obj : kind[o] # "none" => \E k \in Standing : map[k].word = o

OpenedFit ==
  \A t \in Thread : \A e \in opened[t] :
    /\ e[1] # NULL /\ e[1] \in DOMAIN map
    /\ map[e[1]].type = e[2] /\ map[e[1]].word = e[3]
    /\ \A u \in Thread : Closing(u) => h[u] # e[1]

EntriesHeld ==
  \A k \in DOMAIN map \ {NULL} :
    \/ \E t \in Thread : \E e \in opened[t] : e[1] = k
    \/ \E t \in Thread : Pinning(t) /\ h[t] = k

NamesUnique ==
  NULL \notin DOMAIN map => \A n \in Text \ {NoText} :
    \A j, k \in MutexesNamed(n) : j = k

HandleInv ==
  /\ \A t \in Thread : ThreadOK(t)
  /\ OneNames
  /\ EntriesFit
  /\ OpenedFit
  /\ EntriesHeld
  /\ NamesUnique

-----------------------------------------------------------------------------
(* A step of t that leaves the table, the objects and the callers' handles *)
(* alone and neither gives up a handle it pins nor begins to close one.    *)
Same(u) == /\ pc'[u] = pc[u] /\ op'[u] = op[u] /\ h'[u] = h[u]
           /\ ptr'[u] = ptr[u] /\ name'[u] = name[u]

Local(t) ==
  /\ map' = map /\ kind' = kind /\ opened' = opened
  /\ \A u \in Thread \ {t} : Same(u)
  /\ pc[t] # "erase" /\ pc'[t] # "erase"
  /\ Pinning(t) => Pinning(t)' /\ h'[t] = h[t]
  /\ Closing(t)' => Closing(t) /\ h'[t] = h[t]
  /\ Naming(t)' => Naming(t) \/ \A u \in Thread \ {t} : ~Naming(u)

LEMMA SameMeans ==
  ASSUME NEW u \in Thread, Same(u)
  PROVE  /\ Naming(u)' <=> Naming(u)
         /\ Closing(u)' <=> Closing(u)
         /\ Using(u)' <=> Using(u)
         /\ Pinning(u)' <=> Pinning(u)
         /\ InFunction(u)' <=> InFunction(u)
BY DEF Same, Naming, Closing, Using, Pinning, Inside, InFunction

LEMMA LocalKeeps ==
  ASSUME HandleInv, NEW t \in Thread, Local(t), ThreadOK(t)'
  PROVE  HandleInv'
<1>1. \A u \in Thread \ {t} : Same(u)
  BY DEF Local
<1>2. \A u \in Thread : Closing(u)' => Closing(u) /\ h'[u] = h[u]
  BY <1>1, SameMeans DEF Local, Same
<1>3. Standing' = Standing
  BY <1>1 DEF Standing, Erasing, Local, Same
<1>4. ASSUME NEW u \in Thread \ {t} PROVE ThreadOK(u)'
  <2>1. InFunction(u)' /\ NameIsNew(u)'
    BY <1>1, SameMeans DEF HandleInv, ThreadOK, NameIsNew, Local, Same
  <2>2. HandleFits(u)
    BY DEF HandleInv, ThreadOK
  <2>3. HandleFits(u)'
    BY <1>1, <1>2, <2>2, SameMeans DEF HandleFits, Local, Same
  <2> QED BY <2>1, <2>3 DEF ThreadOK
<1>5. OneNames'
  BY <1>1, SameMeans DEF HandleInv, OneNames, Local
<1>6. EntriesFit'
  BY <1>3 DEF HandleInv, EntriesFit, Local
<1>7. OpenedFit'
  BY <1>2 DEF HandleInv, OpenedFit, Local
<1>8. EntriesHeld'
  <2>1. \A u \in Thread : Pinning(u) => Pinning(u)' /\ h'[u] = h[u]
    BY <1>1, SameMeans DEF Local, Same
  <2> QED BY <2>1 DEF HandleInv, EntriesHeld, Local
<1>9. NamesUnique'
  BY DEF HandleInv, NamesUnique, MutexesNamed, Local
<1> QED BY <1>4, <1>5, <1>6, <1>7, <1>8, <1>9 DEF HandleInv

(* Back to the caller: nothing is known of an idle thread. *)
LEMMA ReturnKeeps ==
  ASSUME HandleInv, TypeInv, NEW t \in Thread, pc' = [pc EXCEPT ![t] = "idle"],
         UNCHANGED <<map, kind, opened, op, h, name>>,
         \A u \in Thread \ {t} : ptr'[u] = ptr[u],
         ~Pinning(t)
  PROVE  HandleInv'
<1>1. InFunction(t)
  BY DEF HandleInv, ThreadOK
<1>2. pc'[t] = "idle" /\ \A u \in Thread \ {t} : pc'[u] = pc[u]
  BY DEF TypeInv, TypeOK
<1>3. ~Pinning(t)' /\ ~Closing(t)' /\ ~Naming(t)' /\ ~Using(t)'
  BY <1>2 DEF Pinning, Closing, Naming, Using, Inside
<1>4. pc[t] # "erase"
  BY <1>1 DEF InFunction, Pinning, Closing, Inside
<1>5. Local(t)
  BY <1>2, <1>3, <1>4 DEF Local, Same
<1>6. ThreadOK(t)'
  BY <1>2, <1>3 DEF ThreadOK, InFunction, HandleFits, NameIsNew, MutexPlaces, EventPlaces,
     PointerPlaces
<1> QED BY <1>5, <1>6, LocalKeeps

(* On to the next place of the function, where the handle and the pointer  *)
(* are what that place expects.                                            *)
Moves(t, place) ==
  /\ pc' = [pc EXCEPT ![t] = place]
  /\ UNCHANGED <<map, kind, opened, op, h, name>>
  /\ \A u \in Thread \ {t} : ptr'[u] = ptr[u]
  /\ pc[t] \notin {"idle", "erase", "lock"} /\ place \notin {"idle", "erase", "lookup"}
  /\ pc[t] = "initial_owner" => place = "lock"
  /\ place \in MutexPlaces => h[t] # NULL /\ h[t] \in DOMAIN map /\ map[h[t]].type = "MUTEX"
  /\ place \in EventPlaces =>
       \/ h[t] # NULL /\ h[t] \in DOMAIN map /\ map[h[t]].type = "EVENT"
       \/ h[t] = NULL /\ place \in {"set", "reset"}
  /\ place \in PointerPlaces /\ h[t] # NULL => ptr'[t] = map[h[t]].word
  /\ place = "crashed" => h[t] = NULL

LEMMA MoveKeeps ==
  ASSUME HandleInv, TypeInv, NEW t \in Thread, NEW place, Moves(t, place),
         InFunction(t)', NameIsNew(t)'
  PROVE  HandleInv'
<1> USE DEF Moves
<1>1. ThreadOK(t)
  BY DEF HandleInv
<1>2. pc'[t] = place /\ \A u \in Thread \ {t} : pc'[u] = pc[u]
  BY DEF TypeInv, TypeOK
<1>3. /\ Closing(t)' <=> Closing(t)
      /\ Naming(t)' <=> Naming(t)
      /\ Using(t)' <=> Using(t)
      /\ Pinning(t) => Pinning(t)'
      /\ Pinning(t)' => Pinning(t) \/ place \in {"initial_owner", "lock"}
  BY <1>2 DEF Pinning, Closing, Naming, Using, Inside
<1>4. Local(t)
  BY <1>2, <1>3 DEF Local, Same
<1>5. \A u \in Thread : Closing(u)' => Closing(u) /\ h'[u] = h[u]
  BY <1>2, <1>3 DEF Closing, Inside
<1>6. HandleFits(t)'
  <2>1. Pinning(t)' => h[t] # NULL /\ h[t] \in DOMAIN map
    BY <1>1, <1>3 DEF ThreadOK, HandleFits, MutexPlaces
  <2>2. (Using(t) /\ h[t] # NULL)' => /\ h[t] \in DOMAIN map
                                      /\ \A u \in Thread : Closing(u) => h[u] # h[t]
    BY <1>1, <1>3 DEF ThreadOK, HandleFits
  <2> QED BY <1>2, <1>5, <2>1, <2>2 DEF HandleFits
<1> QED BY <1>4, <1>6, LocalKeeps DEF ThreadOK

-----------------------------------------------------------------------------
(* The steps that only read the table.                                     *)

(* A pointer fetched for a handle other than NULL leads to a live object   *)
(* of the type that the function expects.                                  *)
LEMMA PointersLive ==
  ASSUME HandleInv, TypeInv, NEW t \in Thread, pc[t] \in PointerPlaces, h[t] # NULL
  PROVE  /\ pc[t] \in MutexPlaces => Live(t, "MUTEX")
         /\ pc[t] \in EventPlaces => Live(t, "EVENT")
<1>1. InFunction(t) /\ HandleFits(t)
  BY DEF HandleInv, ThreadOK
<1>2. Using(t) \/ Pinning(t)
  BY <1>1 DEF InFunction, Using, Pinning, Closing, Inside, PointerPlaces, Users
<1>3. h[t] \in DOMAIN map /\ ptr[t] = map[h[t]].word
  BY <1>1, <1>2 DEF HandleFits
<1>4. ~Erasing(h[t])
  <2> SUFFICES ASSUME NEW u \in Thread, pc[u] = "erase", h[u] = h[t] PROVE FALSE
    BY DEF Erasing
  <2>1. Closing(u) /\ Naming(u)
    BY DEF HandleInv, ThreadOK, InFunction, Closing, Naming, Inside
  <2>2. ~Using(t)
    BY <1>1, <2>1 DEF HandleFits
  <2>3. Naming(t)
    BY <1>1, <1>2, <2>2 DEF InFunction, Pinning, Closing, Naming, Inside
  <2>4. t = u
    BY <2>1, <2>3 DEF HandleInv, OneNames
  <2> QED BY <2>4 DEF PointerPlaces
<1>5. kind[map[h[t]].word] = map[h[t]].type
  BY <1>3, <1>4 DEF HandleInv, EntriesFit, Standing
<1>6. map[h[t]].word \in Obj
  BY <1>3 DEF TypeInv, WordsAreObjects
<1> QED BY <1>1, <1>3, <1>5, <1>6 DEF Live, HandleFits

LEMMA WaitKeeps ==
  ASSUME HandleInv, TypeInv, NEW t \in Thread,
         \/ Wait_type(t) \/ Wait_mutex_get(t) \/ Wait_event_get(t) \/ Wait_mutex_lock(t)
         \/ Wait_mutex_timeout(t) \/ Wait_event_satisfied(t) \/ Wait_event_sleep(t)
         \/ Wait_event_timeout(t) \/ Wait_event_error(t)
  PROVE  HandleInv'
<1> USE DEF Goto, Return, Point, objects, locals
<1>1. InFunction(t) /\ HandleFits(t) /\ pc \in [Thread -> Places] /\ ptr \in [Thread -> Obj \cup {NullWord}]
  BY DEF HandleInv, ThreadOK, TypeInv, TypeOK
<1>2. op[t] = "WaitForSingleObject" /\ pc[t] \notin {"idle", "erase", "lock", "initial_owner"} /\ ~Pinning(t)
  BY <1>1 DEF Wait_type, Wait_mutex_get, Wait_event_get, Wait_mutex_lock, Wait_mutex_timeout,
     Wait_event_satisfied, Wait_event_sleep, Wait_event_timeout, Wait_event_error, InFunction,
     InEventWait, Pinning, Closing, Inside
<1>3. Using(t) /\ (h[t] # NULL => h[t] \in DOMAIN map)
  BY <1>1, <1>2 DEF Using, Inside, Users, HandleFits
<1>4. CASE Wait_type(t)
  <2>1. CASE pc' = [pc EXCEPT ![t] = "idle"]
    BY <1>2, <1>4, <2>1, ReturnKeeps DEF Wait_type
  <2>2. CASE h[t] # NULL /\ H!type_get(h[t]) = "MUTEX" /\ pc' = [pc EXCEPT ![t] = "wait_mutex"]
    <3>1. map[h[t]].type = "MUTEX"
      BY <1>3, <2>2 DEF H!type_get
    <3>2. InFunction(t)' /\ NameIsNew(t)'
      BY <1>1, <1>2, <1>4, <2>2 DEF Wait_type, InFunction, NameIsNew
    <3>3. Moves(t, "wait_mutex")
      BY <1>2, <1>3, <1>4, <2>2, <3>1
      DEF Moves, Wait_type, MutexPlaces, EventPlaces, PointerPlaces
    <3> QED BY <3>2, <3>3, MoveKeeps
  <2>3. CASE h[t] # NULL /\ H!type_get(h[t]) = "EVENT" /\ pc' = [pc EXCEPT ![t] = "wait_event"]
    <3>1. map[h[t]].type = "EVENT"
      BY <1>3, <2>3 DEF H!type_get
    <3>2. InFunction(t)' /\ NameIsNew(t)'
      BY <1>1, <1>2, <1>4, <2>3 DEF Wait_type, InFunction, NameIsNew
    <3>3. Moves(t, "wait_event")
      BY <1>2, <1>3, <1>4, <2>3, <3>1
      DEF Moves, Wait_type, MutexPlaces, EventPlaces, PointerPlaces
    <3> QED BY <3>2, <3>3, MoveKeeps
  <2> QED BY <1>4, <2>1, <2>2, <2>3 DEF Wait_type, H!INVALID
<1>5. CASE Wait_mutex_get(t)
  <2>1. h[t] # NULL /\ map[h[t]].type = "MUTEX" /\ H!mutex_get(h[t]) = map[h[t]].word
    BY <1>1, <1>3, <1>5 DEF Wait_mutex_get, HandleFits, MutexPlaces, H!mutex_get, H!Field
  <2>2. pc' = [pc EXCEPT ![t] = "timedlock"] /\ ptr' = [ptr EXCEPT ![t] = map[h[t]].word]
    BY <1>5, <2>1 DEF Wait_mutex_get
  <2>3. InFunction(t)' /\ NameIsNew(t)'
    BY <1>1, <1>2, <1>5, <2>2 DEF Wait_mutex_get, InFunction, NameIsNew
  <2>4. Moves(t, "timedlock")
    BY <1>1, <1>2, <1>3, <1>5, <2>1, <2>2
    DEF Moves, Wait_mutex_get, MutexPlaces, EventPlaces, PointerPlaces
  <2> QED BY <2>3, <2>4, MoveKeeps
<1>6. CASE Wait_event_get(t)
  <2>1. h[t] # NULL /\ map[h[t]].type = "EVENT" /\ H!get_event(h[t]) = map[h[t]].word
    BY <1>1, <1>3, <1>6 DEF Wait_event_get, HandleFits, EventPlaces, H!get_event, H!Field
  <2>2. map[h[t]].word # NullWord
    BY <1>3, <2>1, SynchAssumption DEF TypeInv, WordsAreObjects
  <2>3. pc' = [pc EXCEPT ![t] = "event_wait"] /\ ptr' = [ptr EXCEPT ![t] = map[h[t]].word]
    BY <1>6, <2>1, <2>2 DEF Wait_event_get
  <2>4. InFunction(t)' /\ NameIsNew(t)'
    BY <1>1, <1>2, <1>6, <2>3 DEF Wait_event_get, InFunction, NameIsNew
  <2>5. /\ UNCHANGED <<map, kind, opened, op, h, name>>
        /\ ptr'[t] = map[h[t]].word
        /\ \A u \in Thread \ {t} : ptr'[u] = ptr[u]
    BY <1>1, <1>6, <2>3 DEF Wait_event_get
  <2>6. Moves(t, "event_wait")
    BY <1>2, <1>3, <2>1, <2>3, <2>5 DEF Moves, MutexPlaces, EventPlaces, PointerPlaces
  <2> QED BY <2>4, <2>6, MoveKeeps
<1>7. CASE Wait_event_sleep(t)
  <2>1. pc[t] = "event_wait" /\ pc' = [pc EXCEPT ![t] = "event_sleep"] /\ ptr' = ptr
    BY <1>7 DEF Wait_event_sleep
  <2>2. InFunction(t)' /\ NameIsNew(t)'
    BY <1>1, <1>2, <1>7, <2>1 DEF Wait_event_sleep, InFunction, NameIsNew
  <2>3. h[t] # NULL /\ map[h[t]].type = "EVENT" /\ ptr[t] = map[h[t]].word
    BY <1>1, <2>1 DEF HandleFits, EventPlaces, PointerPlaces
  <2>4. Moves(t, "event_sleep")
    BY <1>2, <1>3, <1>7, <2>1, <2>3
    DEF Moves, Wait_event_sleep, MutexPlaces, EventPlaces, PointerPlaces
  <2> QED BY <2>2, <2>4, MoveKeeps
<1>8. CASE Wait_mutex_lock(t) \/ Wait_mutex_timeout(t) \/ Wait_event_satisfied(t)
           \/ Wait_event_timeout(t) \/ Wait_event_error(t)
  BY <1>2, <1>8, ReturnKeeps DEF Wait_mutex_lock, Wait_mutex_timeout, Wait_event_satisfied,
     Wait_event_timeout, Wait_event_error, LockIt
<1> QED BY <1>4, <1>5, <1>6, <1>7, <1>8

LEMMA LookupKeeps ==
  ASSUME HandleInv, TypeInv, NEW t \in Thread, Lookup(t)
  PROVE  HandleInv'
<1>1. InFunction(t) /\ HandleFits(t) /\ pc \in [Thread -> Places] /\ ptr \in [Thread -> Obj \cup {NullWord}]
  BY DEF HandleInv, ThreadOK, TypeInv, TypeOK
<1>2. pc[t] = "lookup" /\ UNCHANGED <<map, kind, opened, op, h, name>>
  BY DEF Lookup, objects, locals
<1>3. Using(t) /\ ~Pinning(t) /\ (h[t] # NULL => h[t] \in DOMAIN map)
  BY <1>1, <1>2 DEF Using, Pinning, Closing, Inside, Users, HandleFits, InFunction
<1>4. PICK p : /\ ptr' = [ptr EXCEPT ![t] = p]
               /\ h[t] # NULL => p = map[h[t]].word
               /\ op[t] = "ReleaseMutex" /\ h[t] = NULL => p = NullWord
               /\ \/ p = NullWord /\ pc' = [pc EXCEPT ![t] = "idle"]
                  \/ /\ p # NullWord
                     /\ pc' = [pc EXCEPT ![t] = IF op[t] = "ReleaseMutex" THEN "trylock"
                                                ELSE IF op[t] = "SetEvent" THEN "set" ELSE "reset"]
  BY <1>3 DEF Lookup, Point, Goto, Return, H!get_event, H!mutex_get, H!Field
<1>5. CASE p = NullWord
  BY <1>1, <1>2, <1>3, <1>4, <1>5, ReturnKeeps
<1>6. CASE p # NullWord
  <2>1. PICK place \in {"trylock", "set", "reset"} :
          /\ pc' = [pc EXCEPT ![t] = place]
          /\ place = "trylock" => op[t] = "ReleaseMutex" /\ h[t] # NULL
          /\ place = "set" => op[t] = "SetEvent"
          /\ place = "reset" => op[t] = "ResetEvent"
    BY <1>1, <1>2, <1>4, <1>6 DEF InFunction
  <2>2. InFunction(t)' /\ NameIsNew(t)'
    BY <1>1, <1>2, <2>1 DEF InFunction, NameIsNew
  <2>3. h[t] # NULL => map[h[t]].type = IF place = "trylock" THEN "MUTEX" ELSE "EVENT"
    BY <1>1, <1>2, <2>1 DEF HandleFits
  <2>4. Moves(t, place)
    BY <1>1, <1>2, <1>3, <1>4, <2>1, <2>3 DEF Moves, MutexPlaces, EventPlaces, PointerPlaces
  <2> QED BY <2>2, <2>4, MoveKeeps
<1> QED BY <1>5, <1>6

LEMMA ReleaseKeeps ==
  ASSUME HandleInv, TypeInv, NEW t \in Thread,
         \/ ReleaseMutex_trylock(t) \/ ReleaseMutex_refused(t) \/ ReleaseMutex_unlock1(t)
         \/ ReleaseMutex_unlock2(t) \/ ReleaseMutex_unlock1_fails(t)
         \/ ReleaseMutex_unlock2_fails(t) \/ SetEvent_set(t) \/ ResetEvent_reset(t)
         \/ SetOrReset_fails(t)
  PROVE  HandleInv'
<1> USE DEF Goto, Return, Released, objects, locals, LockIt, UnlockIt
<1>1. InFunction(t) /\ HandleFits(t) /\ pc \in [Thread -> Places]
  BY DEF HandleInv, ThreadOK, TypeInv, TypeOK
<1>2. /\ pc[t] \in {"trylock", "unlock1", "unlock2", "set", "reset"}
      /\ UNCHANGED <<map, kind, opened, op, h, name, ptr>>
  BY DEF ReleaseMutex_trylock, ReleaseMutex_refused, ReleaseMutex_unlock1, ReleaseMutex_unlock2,
     ReleaseMutex_unlock1_fails, ReleaseMutex_unlock2_fails, SetEvent_set, ResetEvent_reset,
     SetOrReset_fails
<1>3. Using(t) /\ ~Pinning(t) /\ (h[t] # NULL => h[t] \in DOMAIN map)
  BY <1>1, <1>2 DEF Using, Pinning, Closing, Inside, Users, HandleFits, InFunction
<1>4. CASE ReleaseMutex_trylock(t) \/ ReleaseMutex_unlock1(t) \/ ReleaseMutex_unlock1_fails(t)
  <2>1. PICK place \in {"unlock1", "unlock2"} :
          pc[t] \in {"trylock", "unlock1"} /\ pc' = [pc EXCEPT ![t] = place]
    BY <1>4 DEF ReleaseMutex_trylock, ReleaseMutex_unlock1, ReleaseMutex_unlock1_fails
  <2>2. h[t] # NULL /\ map[h[t]].type = "MUTEX" /\ ptr[t] = map[h[t]].word /\ op[t] = "ReleaseMutex"
    BY <1>1, <2>1 DEF HandleFits, InFunction, MutexPlaces, PointerPlaces
  <2>3. InFunction(t)' /\ NameIsNew(t)'
    BY <1>1, <1>2, <2>1, <2>2 DEF InFunction, NameIsNew
  <2>4. Moves(t, place)
    BY <1>2, <1>3, <2>1, <2>2 DEF Moves, MutexPlaces, EventPlaces, PointerPlaces
  <2> QED BY <2>3, <2>4, MoveKeeps
<1>5. CASE \/ ReleaseMutex_refused(t) \/ ReleaseMutex_unlock2(t)
           \/ ReleaseMutex_unlock2_fails(t) \/ SetEvent_set(t)
           \/ ResetEvent_reset(t) \/ SetOrReset_fails(t)
  BY <1>2, <1>3, <1>5, ReturnKeeps DEF ReleaseMutex_refused, ReleaseMutex_unlock2,
     ReleaseMutex_unlock2_fails, SetEvent_set, ResetEvent_reset, SetOrReset_fails
<1> QED BY <1>4, <1>5

LEMMA CloseLooksKeep ==
  ASSUME HandleInv, TypeInv, NEW t \in Thread,
         \/ Close_type(t) \/ Close_mutex_get_name(t) \/ Close_mutex_get(t)
         \/ Close_mutex_get_attr(t) \/ Close_event_get(t)
  PROVE  HandleInv'
<1> USE DEF Goto, Return, Point, objects, locals
<1>1. InFunction(t) /\ HandleFits(t) /\ pc \in [Thread -> Places] /\ ptr \in [Thread -> Obj \cup {NullWord}]
  BY DEF HandleInv, ThreadOK, TypeInv, TypeOK
<1>2. /\ pc[t] \in {"close_type", "close_mutex", "close_get", "close_attr", "close_event"}
      /\ UNCHANGED <<map, kind, opened, op, h, name>>
  BY DEF Close_type, Close_mutex_get_name, Close_mutex_get, Close_mutex_get_attr, Close_event_get
<1>3. op[t] = "CloseHandle" /\ h[t] # NULL /\ h[t] \in DOMAIN map
  BY <1>1, <1>2 DEF Pinning, Closing, Inside, HandleFits, InFunction
<1>4. map[h[t]].type \in {"MUTEX", "EVENT"}
  BY <1>3 DEF HandleInv, EntriesFit
<1>5. map[h[t]].word # NullWord
  BY <1>3, SynchAssumption DEF TypeInv, WordsAreObjects
<1>6. PICK place \in {"close_mutex", "close_get", "close_attr", "close_event", "delete_mutex",
                       "delete_event"} :
        /\ pc' = [pc EXCEPT ![t] = place]
        /\ map[h[t]].type = IF place \in MutexPlaces THEN "MUTEX" ELSE "EVENT"
        /\ ptr' = ptr \/ ptr' = [ptr EXCEPT ![t] = map[h[t]].word]
        /\ place \in PointerPlaces => ptr'[t] = map[h[t]].word
  <2>1. CASE Close_type(t)
    BY <1>3, <1>4, <2>1 DEF Close_type, H!type_get, MutexPlaces, PointerPlaces
  <2>2. CASE Close_mutex_get(t)
    <3>1. map[h[t]].type = "MUTEX" /\ H!mutex_get(h[t]) = map[h[t]].word
      BY <1>1, <1>3, <2>2 DEF Close_mutex_get, HandleFits, MutexPlaces, H!mutex_get, H!Field
    <3> QED BY <1>1, <2>2, <3>1 DEF Close_mutex_get, MutexPlaces, PointerPlaces
  <2>3. CASE Close_event_get(t)
    <3>1. map[h[t]].type = "EVENT" /\ H!get_event(h[t]) = map[h[t]].word
      BY <1>1, <1>3, <2>3 DEF Close_event_get, HandleFits, EventPlaces, H!get_event, H!Field
    <3> QED BY <1>1, <1>5, <2>3, <3>1 DEF Close_event_get, MutexPlaces, PointerPlaces
  <2>4. CASE Close_mutex_get_name(t) \/ Close_mutex_get_attr(t)
    <3>1. /\ map[h[t]].type = "MUTEX"
          /\ pc[t] = "close_attr" => ptr[t] = map[h[t]].word
      BY <1>1, <1>3, <2>4
         DEF Close_mutex_get_name, Close_mutex_get_attr, HandleFits, MutexPlaces, PointerPlaces
    <3> QED BY <2>4, <3>1
            DEF Close_mutex_get_name, Close_mutex_get_attr, MutexPlaces, PointerPlaces
  <2> QED BY <2>1, <2>2, <2>3, <2>4
<1>7. InFunction(t)' /\ NameIsNew(t)'
  BY <1>1, <1>2, <1>3, <1>6 DEF InFunction, NameIsNew
<1>8. /\ place \in PointerPlaces => ptr'[t] = map[h[t]].word
      /\ \A u \in Thread \ {t} : ptr'[u] = ptr[u]
  BY <1>1, <1>6
<1>9. Moves(t, place)
  BY <1>2, <1>3, <1>6, <1>8 DEF Moves, MutexPlaces, EventPlaces, PointerPlaces
<1> QED BY <1>7, <1>9, MoveKeeps

(* Only SetEvent(NULL) and ResetEvent(NULL) can follow a bad pointer. *)
LEMMA OnlyNullCrashes ==
  ASSUME HandleInv, TypeInv, NEW t \in Thread, UseAfterDelete(t)
  PROVE  HandleInv'
<1>1. InFunction(t) /\ HandleFits(t) /\ pc \in [Thread -> Places]
  BY DEF HandleInv, ThreadOK, TypeInv, TypeOK
<1>2. /\ pc' = [pc EXCEPT ![t] = "crashed"]
      /\ UNCHANGED <<map, kind, opened, op, h, name, ptr>>
      /\ pc[t] \in PointerPlaces
      /\ pc[t] \in MutexPlaces => ~Live(t, "MUTEX")
      /\ pc[t] \in EventPlaces => ~Live(t, "EVENT")
      /\ pc[t] \in MutexPlaces \cup EventPlaces
  BY DEF UseAfterDelete, Crash, Goto, objects, locals, PointerPlaces, MutexPlaces, EventPlaces
<1>3. h[t] = NULL
  BY <1>2, PointersLive
<1>4. pc[t] \in {"set", "reset"}
  BY <1>1, <1>2, <1>3 DEF HandleFits
<1>5. InFunction(t)' /\ NameIsNew(t)'
  BY <1>1, <1>2, <1>4 DEF InFunction, NameIsNew
<1>6. Moves(t, "crashed")
  BY <1>2, <1>3, <1>4 DEF Moves, MutexPlaces, EventPlaces, PointerPlaces
<1> QED BY <1>5, <1>6, MoveKeeps

LEMMA CreateLooksKeep ==
  ASSUME HandleInv, TypeInv, NEW t \in Thread, CreateFails(t) \/ InitialOwner_get(t)
  PROVE  HandleInv'
<1> USE DEF Goto, Return, Point, objects, locals
<1>1. InFunction(t) /\ HandleFits(t) /\ pc \in [Thread -> Places] /\ ptr \in [Thread -> Obj \cup {NullWord}]
  BY DEF HandleInv, ThreadOK, TypeInv, TypeOK
<1>2. CASE CreateFails(t)
  <2>1. ~Pinning(t)
    BY <1>1, <1>2 DEF CreateFails, InFunction, Pinning, Closing, Inside
  <2> QED BY <1>2, <2>1, ReturnKeeps DEF CreateFails
<1>3. CASE InitialOwner_get(t)
  <2>1. pc[t] = "initial_owner" /\ pc' = [pc EXCEPT ![t] = "lock"]
        /\ UNCHANGED <<map, kind, opened, op, h, name>>
    BY <1>3 DEF InitialOwner_get
  <2>2. h[t] # NULL /\ h[t] \in DOMAIN map /\ map[h[t]].type = "MUTEX"
    BY <1>1, <2>1 DEF HandleFits, Pinning, MutexPlaces
  <2>3. ptr'[t] = map[h[t]].word /\ \A u \in Thread \ {t} : ptr'[u] = ptr[u]
    BY <1>1, <1>3, <2>2 DEF InitialOwner_get, H!mutex_get, H!Field
  <2>4. InFunction(t)' /\ NameIsNew(t)'
    BY <1>1, <2>1 DEF InFunction, NameIsNew
  <2>5. Moves(t, "lock")
    BY <2>1, <2>2, <2>3 DEF Moves, MutexPlaces, EventPlaces, PointerPlaces
  <2> QED BY <2>4, <2>5, MoveKeeps
<1> QED BY <1>2, <1>3

-----------------------------------------------------------------------------
(* The calls.                                                              *)

(* A call that neither closes nor pins: t was idle and has a fresh place.  *)
LEMMA CallKeeps ==
  ASSUME HandleInv, TypeInv, NEW t \in Thread, NEW place, NEW f,
         pc[t] = "idle", pc' = [pc EXCEPT ![t] = place], op' = [op EXCEPT ![t] = f],
         place \in {"find", "new_mutex", "new_event", "wait_type", "lookup"},
         f # "CloseHandle",
         f = "CreateMutexA" => \A u \in Thread \ {t} : ~Naming(u),
         UNCHANGED <<map, kind, opened, ptr>>,
         \A u \in Thread \ {t} : h'[u] = h[u] /\ name'[u] = name[u],
         ThreadOK(t)'
  PROVE  HandleInv'
<1>1. pc'[t] = place /\ op'[t] = f /\ \A u \in Thread \ {t} : Same(u)
  BY DEF TypeInv, TypeOK, Same
<1>2. ~Pinning(t)
  BY DEF Pinning, Closing, Inside
<1>3. ~Closing(t)' /\ (Naming(t)' => f = "CreateMutexA")
  BY <1>1 DEF Closing, Naming, Inside
<1>4. Local(t)
  BY <1>1, <1>2, <1>3 DEF Local
<1> QED BY <1>4, LocalKeeps

(* A handle that some thread has open is good to use. *)
LEMMA OpenIsUsable ==
  ASSUME HandleInv, TypeInv, NEW t \in Thread, NEW e \in Usable(t)
  PROVE  /\ e[1] # NULL /\ e[1] \in DOMAIN map /\ map[e[1]].type = e[2]
         /\ \A u \in Thread : Closing(u) => h[u] # e[1]
<1>1. \E u \in Thread : e \in opened[u]
  BY DEF Usable
<1> QED BY <1>1 DEF HandleInv, OpenedFit

LEMMA CallsKeep ==
  ASSUME Careful, HandleInv, TypeInv, NEW t \in Thread,
         \/ \E n \in Text, b \in BOOLEAN : CallCreateMutexA(t, n, b)
         \/ CallCreateEventA(t)
         \/ \E k \in MinInt..MaxInt, d \in Timeouts : CallWaitForSingleObject(t, k, d)
         \/ \E k \in MinInt..MaxInt : \/ CallOn(t, k, "ReleaseMutex", "MUTEX")
                                      \/ CallOn(t, k, "SetEvent", "EVENT")
                                      \/ CallOn(t, k, "ResetEvent", "EVENT")
  PROVE  HandleInv'
<1> USE DEF Begin, Goto, objects
<1>0. /\ pc \in [Thread -> Places] /\ op \in [Thread -> Creators \cup Users]
      /\ h \in [Thread -> MinInt..MaxInt] /\ name \in [Thread -> Text]
  BY DEF TypeInv, TypeOK
<1>1. ASSUME NEW n \in Text, NEW b \in BOOLEAN, CallCreateMutexA(t, n, b) PROVE HandleInv'
  <2>1. PICK place \in {"find", "new_mutex"} :
          /\ pc' = [pc EXCEPT ![t] = place]
          /\ place = "new_mutex" => n = NoText
    BY <1>1 DEF CallCreateMutexA, EntryPoints
  <2>2. /\ pc[t] = "idle" /\ op' = [op EXCEPT ![t] = "CreateMutexA"]
        /\ name' = [name EXCEPT ![t] = n]
        /\ UNCHANGED <<map, kind, opened, ptr, h>>
        /\ \A u \in Thread \ {t} : ~Naming(u)
    BY <1>1 DEF CallCreateMutexA, NobodyElseNaming, Naming
  <2>3. pc'[t] = place /\ op'[t] = "CreateMutexA" /\ name'[t] = n
    BY <1>0, <2>1, <2>2
  <2>4. ThreadOK(t)'
    BY <2>1, <2>3 DEF ThreadOK, InFunction, HandleFits, NameIsNew, Pinning, Closing, Using, Inside,
       Users, MutexPlaces, EventPlaces, PointerPlaces
  <2>5. \A u \in Thread \ {t} : h'[u] = h[u] /\ name'[u] = name[u]
    BY <1>0, <2>2
  <2> QED BY <2>1, <2>2, <2>4, <2>5, CallKeeps
<1>2. ASSUME CallCreateEventA(t) PROVE HandleInv'
  <2>1. /\ pc[t] = "idle" /\ pc' = [pc EXCEPT ![t] = "new_event"]
        /\ op' = [op EXCEPT ![t] = "CreateEventA"]
        /\ UNCHANGED <<map, kind, opened, ptr, h, name>>
    BY <1>2 DEF CallCreateEventA
  <2>2. pc'[t] = "new_event" /\ op'[t] = "CreateEventA"
    BY <1>0, <2>1
  <2>3. ThreadOK(t)'
    BY <2>2 DEF ThreadOK, InFunction, HandleFits, NameIsNew, Pinning, Closing, Using, Inside,
       Users, MutexPlaces, EventPlaces, PointerPlaces
  <2> QED BY <2>1, <2>3, CallKeeps
<1>3. ASSUME NEW k \in MinInt..MaxInt, NEW f, NEW type, NEW place \in {"wait_type", "lookup"},
             pc[t] = "idle", pc' = [pc EXCEPT ![t] = place], op' = [op EXCEPT ![t] = f],
             h' = [h EXCEPT ![t] = k], UNCHANGED <<map, kind, opened, ptr, name>>,
             f = "WaitForSingleObject" <=> place = "wait_type",
             f \in Users \ {"CloseHandle"},
             k = NULL \/ \E e \in Usable(t) : e[1] = k /\ (place = "lookup" => e[2] = type),
             type = IF f = "ReleaseMutex" THEN "MUTEX" ELSE "EVENT"
      PROVE  HandleInv'
  <2>1. pc'[t] = place /\ op'[t] = f /\ h'[t] = k
    BY <1>0, <1>3
  <2>2. k # NULL => /\ k \in DOMAIN map
                    /\ \A u \in Thread : Closing(u) => h[u] # k
                    /\ place = "lookup" => map[k].type = type
    BY <1>3, OpenIsUsable
  <2>3. \A u \in Thread : Closing(u)' => Closing(u) /\ h'[u] = h[u]
    BY <1>0, <1>3, <2>1 DEF Closing, Inside
  <2>4. InFunction(t)' /\ NameIsNew(t)'
    BY <1>3, <2>1 DEF InFunction, NameIsNew, Users
  <2>5. ~Pinning(t)'
    BY <1>3, <2>1 DEF Pinning, Closing, Inside
  <2>6. HandleFits(t)'
    BY <1>3, <2>1, <2>2, <2>3, <2>5 DEF HandleFits, MutexPlaces, EventPlaces, PointerPlaces
  <2>7. \A u \in Thread \ {t} : h'[u] = h[u] /\ name'[u] = name[u]
    BY <1>0, <1>3
  <2> QED BY <1>3, <2>4, <2>6, <2>7, CallKeeps DEF ThreadOK, Users
<1>4. ASSUME NEW k \in MinInt..MaxInt, NEW d \in Timeouts, CallWaitForSingleObject(t, k, d)
      PROVE  HandleInv'
  BY <1>3, <1>4 DEF CallWaitForSingleObject, Users
<1>5. ASSUME NEW k \in MinInt..MaxInt, CallOn(t, k, "ReleaseMutex", "MUTEX") PROVE HandleInv'
  BY <1>3, <1>5 DEF CallOn, Users
<1>6. ASSUME NEW k \in MinInt..MaxInt, CallOn(t, k, "SetEvent", "EVENT") PROVE HandleInv'
  BY <1>3, <1>6 DEF CallOn, Users
<1>7. ASSUME NEW k \in MinInt..MaxInt, CallOn(t, k, "ResetEvent", "EVENT") PROVE HandleInv'
  BY <1>3, <1>7 DEF CallOn, Users
<1> QED BY <1>1, <1>2, <1>4, <1>5, <1>6, <1>7

(* The handle to be closed is t's alone, and nobody is using it. *)
LEMMA CallCloseKeeps ==
  ASSUME Careful, HandleInv, TypeInv, NEW t \in Thread, NEW e \in opened[t],
         CallCloseHandle(t, e)
  PROVE  HandleInv'
<1> DEFINE k == e[1]
<1>0. /\ pc \in [Thread -> Places] /\ op \in [Thread -> Creators \cup Users]
      /\ h \in [Thread -> MinInt..MaxInt]
      /\ opened \in [Thread -> SUBSET ((MinInt..MaxInt) \X {"MUTEX", "EVENT"} \X Obj)]
  BY DEF TypeInv, TypeOK
<1>1. /\ pc[t] = "idle" /\ pc' = [pc EXCEPT ![t] = "close_type"]
      /\ op' = [op EXCEPT ![t] = "CloseHandle"] /\ h' = [h EXCEPT ![t] = k]
      /\ opened' = [opened EXCEPT ![t] = @ \ {e}]
      /\ UNCHANGED <<map, kind, ptr, name>>
      /\ \A u \in Thread \ {t} : /\ ~Naming(u)
                                 /\ Inside(u, Users) => h[u] # k
                                 /\ \A x \in opened[u] : x[1] # k
  BY DEF CallCloseHandle, Begin, Goto, objects, NobodyElseNaming, NobodyElseUsing, Naming
<1>2. /\ pc'[t] = "close_type" /\ op'[t] = "CloseHandle" /\ h'[t] = k
      /\ \A u \in Thread \ {t} : Same(u)
  BY <1>0, <1>1 DEF Same
<1>3. /\ k # NULL /\ k \in DOMAIN map
      /\ map[k].type = e[2] /\ map[k].word = e[3]
  BY DEF HandleInv, OpenedFit
<1>4. \A u \in Thread : Closing(u)' <=> u = t
  BY <1>1, <1>2, SameMeans DEF Closing, Naming, Inside
<1>5. Standing' = Standing
  BY <1>1, <1>2 DEF Standing, Erasing, Same
<1>6. \A u \in Thread : \A x \in opened'[u] : x \in opened[u] /\ x[1] # k
  <2>1. ASSUME NEW x \in opened'[t] PROVE x \in opened[t] /\ x[1] # k
    <3>1. x \in opened[t] /\ x # e
      BY <1>0, <1>1
    <3>2. x[2] = map[x[1]].type /\ x[3] = map[x[1]].word
      BY <3>1 DEF HandleInv, OpenedFit
    <3>3. x[1] = k => x[2] = e[2] /\ x[3] = e[3]
      BY <1>3, <3>2
    <3>4. x = <<x[1], x[2], x[3]>> /\ e = <<e[1], e[2], e[3]>>
      BY <1>0, <3>1
    <3> QED BY <3>1, <3>3, <3>4
  <2> QED BY <1>0, <1>1, <2>1
<1>7. ASSUME NEW u \in Thread PROVE ThreadOK(u)'
  <2>1. CASE u = t
    BY <1>1, <1>2, <1>3, <2>1 DEF ThreadOK, InFunction, HandleFits, NameIsNew, Using, Inside,
       MutexPlaces, EventPlaces, PointerPlaces
  <2>2. CASE u # t
    <3>1. InFunction(u) /\ HandleFits(u) /\ NameIsNew(u)
      BY DEF HandleInv, ThreadOK
    <3>2. InFunction(u)' /\ NameIsNew(u)'
      BY <1>1, <1>2, <2>2, <3>1, SameMeans DEF NameIsNew, Same
    <3>3. Using(u) => h[u] # k
      BY <1>1, <2>2 DEF Using, Inside
    <3>4. /\ Using(u)' <=> Using(u)
          /\ Pinning(u)' <=> Pinning(u)
      BY <1>2, <2>2, SameMeans
    <3>5. HandleFits(u)'
      BY <1>1, <1>2, <1>4, <2>2, <3>1, <3>3, <3>4 DEF HandleFits, Same
    <3> QED BY <3>2, <3>5 DEF ThreadOK
  <2> QED BY <2>1, <2>2
<1>8. OneNames'
  BY <1>1, <1>2, SameMeans DEF OneNames
<1>9. EntriesFit'
  BY <1>1, <1>5 DEF HandleInv, EntriesFit
<1>10. OpenedFit'
  BY <1>1, <1>2, <1>4, <1>6 DEF HandleInv, OpenedFit
<1>11. EntriesHeld'
  <2> SUFFICES ASSUME NEW j \in DOMAIN map \ {NULL}
               PROVE  \/ \E u \in Thread : \E x \in opened'[u] : x[1] = j
                      \/ \E u \in Thread : Pinning(u)' /\ h'[u] = j
    BY <1>1 DEF EntriesHeld
  <2>1. CASE j = k
    BY <1>2, <1>4, <2>1 DEF Pinning
  <2>2. CASE j # k
    <3>1. \A u \in Thread : \A x \in opened[u] : x[1] # k => x \in opened'[u]
      BY <1>0, <1>1
    <3>2. \A u \in Thread : Pinning(u) => Pinning(u)' /\ h'[u] = h[u]
      BY <1>1, <1>2, SameMeans DEF Pinning, Closing, Inside, Same
    <3> QED BY <2>2, <3>1, <3>2 DEF HandleInv, EntriesHeld
  <2> QED BY <2>1, <2>2
<1>12. NamesUnique'
  BY <1>1 DEF HandleInv, NamesUnique, MutexesNamed
<1> QED BY <1>7, <1>8, <1>9, <1>10, <1>11, <1>12 DEF HandleInv

-----------------------------------------------------------------------------
(* The ends of the creating functions.                                     *)

(* The handle k goes to t's caller.  t may have pinned it, and nothing     *)
(* else.                                                                   *)
LEMMA GiveKeeps ==
  ASSUME HandleInv, TypeInv, NEW t \in Thread, NEW k \in DOMAIN map, k # NULL,
         UNCHANGED <<map, kind, op, ptr, name>>,
         pc' = [pc EXCEPT ![t] = "idle"],
         \A u \in Thread \ {t} : h'[u] = h[u],
         op[t] = "CreateMutexA", pc[t] # "idle", Pinning(t) => h[t] = k,
         opened' = [opened EXCEPT ![t] = @ \cup {<<k, map[k].type, map[k].word>>}]
  PROVE  HandleInv'
<1>0. /\ pc \in [Thread -> Places]
      /\ opened \in [Thread -> SUBSET ((MinInt..MaxInt) \X {"MUTEX", "EVENT"} \X Obj)]
  BY DEF TypeInv, TypeOK
<1>1. pc'[t] = "idle" /\ \A u \in Thread \ {t} : Same(u)
  BY <1>0 DEF Same
<1>2. \A u \in Thread : Naming(u) => u = t
  BY DEF HandleInv, OneNames, Naming, Inside
<1>3. \A u \in Thread : ~Closing(u)
  BY <1>2 DEF Closing, Naming, Inside
<1>4. \A u \in Thread : ~Closing(u)'
  BY <1>1, <1>3, SameMeans DEF Closing, Inside
<1>5. ~Pinning(t)' /\ ~Using(t)' /\ ~Naming(t)'
  BY <1>1 DEF Pinning, Using, Naming, Closing, Inside
<1>6. \A u \in Thread : pc[u] # "erase" /\ pc'[u] # "erase"
  BY <1>1, <1>3 DEF HandleInv, ThreadOK, InFunction, Closing, Inside, Same
<1>7. Standing' = Standing
  BY <1>6 DEF Standing, Erasing
<1>8. ASSUME NEW u \in Thread PROVE ThreadOK(u)'
  <2>1. CASE u = t
    BY <1>1, <1>5, <2>1 DEF ThreadOK, InFunction, HandleFits, NameIsNew, MutexPlaces, EventPlaces,
       PointerPlaces
  <2>2. CASE u # t
    BY <1>1, <1>4, <2>2, SameMeans DEF HandleInv, ThreadOK, HandleFits, NameIsNew, Same
  <2> QED BY <2>1, <2>2
<1>9. OneNames'
  BY <1>1, <1>2, <1>5, SameMeans DEF OneNames
<1>10. EntriesFit'
  BY <1>7 DEF HandleInv, EntriesFit
<1>11. OpenedFit'
  BY <1>0, <1>4 DEF HandleInv, OpenedFit
<1>12. EntriesHeld'
  <2>1. \A u \in Thread : opened[u] \subseteq opened'[u]
    BY <1>0
  <2>2. \E x \in opened'[t] : x[1] = k
    <3>1. <<k, map[k].type, map[k].word>> \in opened'[t]
      BY <1>0
    <3>2. <<k, map[k].type, map[k].word>>[1] = k
      OBVIOUS
    <3> QED BY <3>1, <3>2
  <2>3. \A u \in Thread : Pinning(u) => h[u] = k \/ (Pinning(u)' /\ h'[u] = h[u])
    BY <1>1, SameMeans DEF Same
  <2> QED BY <2>1, <2>2, <2>3 DEF HandleInv, EntriesHeld
<1>13. NamesUnique'
  BY DEF HandleInv, NamesUnique, MutexesNamed
<1> QED BY <1>8, <1>9, <1>10, <1>11, <1>12, <1>13 DEF HandleInv

LEMMA InitialOwnerKeeps ==
  ASSUME HandleInv, TypeInv, NEW t \in Thread,
         InitialOwner_lock(t) \/ InitialOwner_lock_fails(t)
  PROVE  HandleInv'
<1>1. /\ pc[t] = "lock" /\ pc' = [pc EXCEPT ![t] = "idle"]
      /\ UNCHANGED <<map, kind, op, ptr, name, h>>
      /\ opened' = [opened EXCEPT ![t] = @ \cup {<<h[t], "MUTEX", ptr[t]>>}]
  BY DEF InitialOwner_lock, InitialOwner_lock_fails, Give, Return, Goto, LockIt, objects, locals
<1>2. /\ op[t] = "CreateMutexA" /\ h[t] # NULL /\ h[t] \in DOMAIN map
      /\ map[h[t]].type = "MUTEX" /\ ptr[t] = map[h[t]].word
  BY <1>1 DEF HandleInv, ThreadOK, InFunction, HandleFits, Pinning, MutexPlaces, PointerPlaces
<1> QED BY <1>1, <1>2, GiveKeeps

LEMMA FindKeeps ==
  ASSUME HandleInv, TypeInv, NEW t \in Thread, CreateMutexA_find(t)
  PROVE  HandleInv'
<1> DEFINE S == {j \in DOMAIN map : map[j].type = "MUTEX" /\ map[j].text = name[t]}
<1>0. pc \in [Thread -> Places] /\ h \in [Thread -> MinInt..MaxInt]
  BY DEF TypeInv, TypeOK
<1>1. /\ pc[t] = "find"
      /\ UNCHANGED <<map, kind, op, ptr, name>>
  BY DEF CreateMutexA_find, objects
<1>2. PICK k \in H!FoundIn(S) :
        /\ h' = [h EXCEPT ![t] = k]
        /\ \/ k = NULL /\ pc' = [pc EXCEPT ![t] = "new_mutex"] /\ opened' = opened
           \/ k # NULL /\ pc' = [pc EXCEPT ![t] = "initial_owner"] /\ opened' = opened
           \/ /\ k # NULL /\ pc' = [pc EXCEPT ![t] = "idle"]
              /\ opened' = [opened EXCEPT ![t] = @ \cup {<<k, "MUTEX", H!mutex_get(k)>>}]
  BY DEF CreateMutexA_find, GotMutex, Give, Return, Goto, H!mutex_find_by_name
<1>3. k = NULL => S = {} \/ NULL \in DOMAIN map
  BY <1>2 DEF H!FoundIn
<1>4. k # NULL => k \in DOMAIN map /\ map[k].type = "MUTEX" /\ H!mutex_get(k) = map[k].word
  BY <1>2 DEF H!FoundIn, H!NULL, NULL, H!mutex_get, H!Field
<1>5. op[t] = "CreateMutexA" /\ ~Pinning(t) /\ ~Closing(t)
  BY <1>1 DEF HandleInv, ThreadOK, InFunction, Pinning, Closing, Inside
<1>6. CASE k # NULL /\ pc' = [pc EXCEPT ![t] = "idle"]
  BY <1>0, <1>1, <1>2, <1>4, <1>5, <1>6, GiveKeeps
<1>7. ASSUME NEW place \in {"new_mutex", "initial_owner"}, pc' = [pc EXCEPT ![t] = place],
             opened' = opened, place = "new_mutex" <=> k = NULL
      PROVE  HandleInv'
  <2>1. /\ pc'[t] = place /\ op'[t] = "CreateMutexA" /\ h'[t] = k
        /\ \A u \in Thread \ {t} : Same(u)
    BY <1>0, <1>1, <1>2, <1>5, <1>7 DEF Same
  <2>2. Local(t)
    BY <1>1, <1>5, <1>7, <2>1 DEF Local, Closing, Naming, Inside
  <2>3. InFunction(t)'
    BY <1>7, <2>1 DEF InFunction
  <2>4. NameIsNew(t)'
    BY <1>1, <1>3, <1>7, <2>1 DEF NameIsNew
  <2>5. HandleFits(t)'
    BY <1>1, <1>4, <1>7, <2>1 DEF HandleFits, Pinning, Closing, Using, Inside, Users, MutexPlaces,
       EventPlaces, PointerPlaces
  <2> QED BY <2>2, <2>3, <2>4, <2>5, LocalKeeps DEF ThreadOK
<1> QED BY <1>2, <1>6, <1>7

(* A thread that is somewhere with a handle has one from the table. *)
LEMMA HandlesInTable ==
  ASSUME HandleInv, NEW u \in Thread, h[u] # NULL,
         pc[u] \in MutexPlaces \cup EventPlaces \cup {"lookup"}
  PROVE  h[u] \in DOMAIN map
<1>1. InFunction(u) /\ HandleFits(u)
  BY DEF HandleInv, ThreadOK
<1>2. Using(u) \/ Pinning(u)
  BY <1>1 DEF InFunction, Using, Pinning, Closing, Inside, MutexPlaces, EventPlaces, Users
<1> QED BY <1>1, <1>2 DEF HandleFits

(* A new entry k for a new object o, and what the caller is told of it:    *)
(* nothing, if k is 0; the handle; or, first, its mutex is locked.         *)
Creates(t, k, o, header) ==
  /\ k \notin DOMAIN map /\ DOMAIN map' = DOMAIN map \cup {k}
  /\ map'[k] = header /\ \A j \in DOMAIN map : map'[j] = map[j]
  /\ kind[o] = "none" /\ kind' = [kind EXCEPT ![o] = header.type]
  /\ header.word = o /\ header.type \in {"MUTEX", "EVENT"}
  /\ UNCHANGED <<op, ptr, name>> /\ \A u \in Thread \ {t} : h'[u] = h[u]
  /\ \/ pc[t] = "new_mutex" /\ header.type = "MUTEX" /\ header.text = name[t]
     \/ pc[t] = "new_event" /\ header.type = "EVENT"
  /\ \/ k = NULL /\ pc' = [pc EXCEPT ![t] = "idle"] /\ opened' = opened
     \/ /\ k # NULL /\ pc' = [pc EXCEPT ![t] = "initial_owner"]
        /\ header.type = "MUTEX" /\ h'[t] = k /\ opened' = opened
     \/ /\ k # NULL /\ pc' = [pc EXCEPT ![t] = "idle"]
        /\ opened' = [opened EXCEPT ![t] = @ \cup {<<k, header.type, o>>}]

LEMMA CreatesKeeps ==
  ASSUME HandleInv, TypeInv, NEW t \in Thread, NEW k \in H!Key, NEW o \in Obj, NEW header,
         Creates(t, k, o, header)
  PROVE  HandleInv'
<1>0. /\ pc \in [Thread -> Places] /\ kind \in [Obj -> {"none", "MUTEX", "EVENT"}]
      /\ opened \in [Thread -> SUBSET ((MinInt..MaxInt) \X {"MUTEX", "EVENT"} \X Obj)]
      /\ \A j \in DOMAIN map : map[j].word \in Obj
  BY DEF TypeInv, TypeOK, WordsAreObjects
<1>1. /\ k \notin DOMAIN map /\ DOMAIN map' = DOMAIN map \cup {k}
      /\ map'[k] = header /\ \A j \in DOMAIN map : map'[j] = map[j]
      /\ header.word = o /\ header.type \in {"MUTEX", "EVENT"}
      /\ kind[o] = "none" /\ kind' = [kind EXCEPT ![o] = header.type]
      /\ UNCHANGED <<op, ptr, name>>
  BY DEF Creates
<1>2. pc'[t] \in {"idle", "initial_owner"} /\ \A u \in Thread \ {t} : Same(u)
  BY <1>0 DEF Creates, Same
<1>3. /\ pc[t] = "new_mutex" => op[t] = "CreateMutexA" /\ Naming(t) /\ header.type = "MUTEX"
      /\ pc[t] = "new_event" => op[t] = "CreateEventA" /\ ~Naming(t) /\ header.type = "EVENT"
      /\ pc[t] \in {"new_mutex", "new_event"} /\ ~Pinning(t) /\ ~Closing(t)
  BY DEF Creates, HandleInv, ThreadOK, InFunction, Naming, Pinning, Closing, Inside
<1>4. \A u \in Thread : Closing(u)' <=> Closing(u)
  BY <1>1, <1>2, <1>3, SameMeans DEF Closing, Inside
<1>5. \A u \in Thread : Closing(u) => u # t /\ h'[u] = h[u] /\ h[u] \in DOMAIN map /\ h[u] # k
  BY <1>1, <1>2, <1>3 DEF HandleInv, ThreadOK, HandleFits, Pinning, Same
<1>6. Standing' = Standing \cup {k}
  <2>1. \A u \in Thread : pc[u] = "erase" => Closing(u)
    BY DEF HandleInv, ThreadOK, InFunction, Closing, Inside
  <2>2. \A u \in Thread : pc'[u] = "erase" <=> pc[u] = "erase"
    BY <1>2, <1>3 DEF Same
  <2>3. \A j : Erasing(j)' <=> Erasing(j)
    BY <1>5, <2>1, <2>2 DEF Erasing
  <2>4. ~Erasing(k)
    BY <1>5, <2>1 DEF Erasing
  <2> QED BY <1>1, <2>3, <2>4 DEF Standing
<1>7. InFunction(t)' /\ NameIsNew(t)'
  <2>1. pc'[t] = "initial_owner" => op'[t] = "CreateMutexA"
    BY <1>0, <1>1, <1>3 DEF Creates
  <2> QED BY <1>2, <2>1 DEF InFunction, NameIsNew
<1>8. HandleFits(t)'
  <2>1. ~Using(t)'
    BY <1>1, <1>2, <1>3 DEF Using, Inside, Users
  <2>2. pc'[t] = "initial_owner" => /\ h'[t] = k /\ k # NULL /\ header.type = "MUTEX"
    BY <1>0 DEF Creates
  <2>3. Pinning(t)' => pc'[t] = "initial_owner"
    BY <1>2, <1>3, <1>4 DEF Pinning
  <2> QED BY <1>1, <1>2, <2>1, <2>2, <2>3 DEF HandleFits, MutexPlaces, EventPlaces, PointerPlaces
<1>9. ASSUME NEW u \in Thread \ {t} PROVE ThreadOK(u)'
  <2>1. InFunction(u) /\ HandleFits(u) /\ NameIsNew(u)
    BY DEF HandleInv, ThreadOK
  <2>2. InFunction(u)' /\ Same(u) /\ (Using(u)' <=> Using(u)) /\ (Pinning(u)' <=> Pinning(u))
    BY <1>2, <2>1, SameMeans
  <2>3. NameIsNew(u)'
    <3>1. pc[u] = "new_mutex" => header.type # "MUTEX"
      BY <1>3, <2>1 DEF HandleInv, OneNames, Naming, Inside, InFunction
    <3> QED BY <1>1, <2>1, <2>2, <3>1 DEF NameIsNew, Same
  <2>4. h[u] \in DOMAIN map => map'[h[u]] = map[h[u]]
    BY <1>1
  <2>5. h[u] # NULL /\ pc[u] \in MutexPlaces \cup EventPlaces \cup {"lookup"} => h[u] \in DOMAIN map
    BY HandlesInTable
  <2>6. PointerPlaces \subseteq MutexPlaces \cup EventPlaces
    BY DEF PointerPlaces, MutexPlaces, EventPlaces
  <2>7. HandleFits(u)'
    <3> USE DEF HandleFits, Same
    <3>1. Pinning(u)' => h'[u] # NULL /\ h'[u] \in DOMAIN map'
      BY <1>1, <2>1, <2>2
    <3>2. Using(u)' /\ h'[u] # NULL =>
            /\ h'[u] \in DOMAIN map'
            /\ \A w \in Thread : Closing(w)' => h'[w] # h'[u]
      BY <1>1, <1>4, <1>5, <2>1, <2>2
    <3>3. /\ pc'[u] \in MutexPlaces => h'[u] # NULL /\ map'[h'[u]].type = "MUTEX"
          /\ pc'[u] \in EventPlaces =>
               \/ h'[u] # NULL /\ map'[h'[u]].type = "EVENT"
               \/ h'[u] = NULL /\ pc'[u] \in {"set", "reset"}
          /\ pc'[u] = "lookup" /\ h'[u] # NULL =>
               map'[h'[u]].type = IF op'[u] = "ReleaseMutex" THEN "MUTEX" ELSE "EVENT"
      BY <2>1, <2>2, <2>4, <2>5
    <3>4. /\ pc'[u] \in PointerPlaces /\ h'[u] # NULL => ptr'[u] = map'[h'[u]].word
          /\ pc'[u] = "crashed" => h'[u] = NULL
      BY <2>1, <2>2, <2>4, <2>5, <2>6
    <3> QED BY <3>1, <3>2, <3>3, <3>4
  <2> QED BY <2>2, <2>3, <2>7 DEF ThreadOK
<1>10. OneNames'
  <2>1. Naming(t)' => Naming(t)
    BY <1>1, <1>2, <1>3 DEF Naming, Inside
  <2> QED BY <1>2, <2>1, SameMeans DEF HandleInv, OneNames
<1>11. EntriesFit'
  <2>1. \A j \in Standing : j \in DOMAIN map /\ j # k /\ map'[j] = map[j] /\ map[j].word # o
    BY <1>1 DEF HandleInv, EntriesFit, Standing
  <2>2. \A j \in DOMAIN map' : map'[j].type \in {"MUTEX", "EVENT"}
    BY <1>1 DEF HandleInv, EntriesFit
  <2>3. \A j \in Standing' : kind'[map'[j].word] = map'[j].type
    BY <1>0, <1>1, <1>6, <2>1 DEF HandleInv, EntriesFit
  <2>4. \A i, j \in Standing' : map'[i].word = map'[j].word => i = j
    BY <1>1, <1>6, <2>1 DEF HandleInv, EntriesFit
  <2>5. \A p \in Obj : kind'[p] # "none" => \E j \in Standing' : map'[j].word = p
    BY <1>0, <1>1, <1>6, <2>1 DEF HandleInv, EntriesFit
  <2> QED BY <2>2, <2>3, <2>4, <2>5 DEF EntriesFit
<1>12. OpenedFit'
  <2> SUFFICES ASSUME NEW u \in Thread, NEW x \in opened'[u]
               PROVE  /\ x[1] # NULL /\ x[1] \in DOMAIN map'
                      /\ map'[x[1]].type = x[2] /\ map'[x[1]].word = x[3]
                      /\ \A w \in Thread : Closing(w)' => h'[w] # x[1]
    BY DEF OpenedFit
  <2>1. CASE x \in opened[u]
    BY <1>1, <1>4, <1>5, <2>1 DEF HandleInv, OpenedFit
  <2>2. CASE x \notin opened[u]
    <3>1. x = <<k, header.type, o>> /\ k # NULL
      BY <1>0, <2>2 DEF Creates
    <3>2. x[1] = k /\ x[2] = header.type /\ x[3] = o
      BY <3>1
    <3> QED BY <1>1, <1>4, <1>5, <3>1, <3>2
  <2> QED BY <2>1, <2>2
<1>13. EntriesHeld'
  <2>1. \A u \in Thread : opened[u] \subseteq opened'[u]
    BY <1>0 DEF Creates
  <2>2. \A u \in Thread : Pinning(u) => Pinning(u)' /\ h'[u] = h[u]
    BY <1>2, <1>3, SameMeans DEF Same
  <2>3. \/ k = NULL
        \/ pc'[t] = "initial_owner" /\ h'[t] = k
        \/ <<k, header.type, o>> \in opened'[t]
    BY <1>0 DEF Creates
  <2>4. <<k, header.type, o>>[1] = k
    OBVIOUS
  <2>5. k # NULL => \/ \E x \in opened'[t] : x[1] = k
                    \/ Pinning(t)' /\ h'[t] = k
    BY <2>3, <2>4 DEF Pinning
  <2> QED BY <1>1, <2>1, <2>2, <2>5 DEF HandleInv, EntriesHeld
<1>14. NamesUnique'
  <2>1. pc[t] = "new_mutex" => NameIsNew(t) /\ header.text = name[t]
    BY <1>3 DEF Creates, HandleInv, ThreadOK
  <2>2. ASSUME NULL \notin DOMAIN map', header.type = "MUTEX", header.text # NoText,
               NEW j \in DOMAIN map
        PROVE  ~(map[j].type = "MUTEX" /\ map[j].text = header.text)
    BY <1>1, <1>3, <2>1, <2>2 DEF NameIsNew
  <2> QED BY <1>1, <2>2 DEF HandleInv, NamesUnique, MutexesNamed
<1> QED BY <1>7, <1>8, <1>9, <1>10, <1>11, <1>12, <1>13, <1>14 DEF HandleInv, ThreadOK

LEMMA CreateMutexKeeps ==
  ASSUME HandleInv, TypeInv, NEW t \in Thread, CreateMutexA_new(t)
  PROVE  HandleInv'
<1>0. h \in [Thread -> MinInt..MaxInt]
  BY DEF TypeInv, TypeOK
<1>1. PICK o \in Obj, r \in H!RandResult, k \in H!Key :
        /\ kind[o] = "none" /\ kind' = [kind EXCEPT ![o] = "MUTEX"]
        /\ H!mutex_reg(r, k, o, NullWord, name[t])
        /\ h' = [h EXCEPT ![t] = k]
        /\ GotMutex(t, k, o)
  BY DEF CreateMutexA_new
<1> DEFINE header == [type |-> "MUTEX", word |-> o, more |-> NullWord,
                      text |-> name[t], pattern |-> NoText]
<1>2. /\ k \notin DOMAIN map /\ DOMAIN map' = DOMAIN map \cup {k}
      /\ map'[k] = header /\ \A j \in DOMAIN map : map'[j] = map[j]
  BY <1>1 DEF H!mutex_reg, H!Register, H!new_key_get
<1>3. pc[t] = "new_mutex" /\ UNCHANGED <<op, ptr, name>>
  BY DEF CreateMutexA_new
<1>4. Creates(t, k, o, header)
  BY <1>0, <1>1, <1>2, <1>3 DEF Creates, GotMutex, Give, Return, Goto
<1> QED BY <1>4, CreatesKeeps

LEMMA CreateEventKeeps ==
  ASSUME HandleInv, TypeInv, NEW t \in Thread, CreateEventA_new(t)
  PROVE  HandleInv'
<1>1. PICK o \in Obj, r \in H!RandResult, k \in H!Key :
        /\ kind[o] = "none" /\ kind' = [kind EXCEPT ![o] = "EVENT"]
        /\ H!reg_event(r, k, o)
        /\ \/ k = NULL /\ Return(t, "NULL") /\ UNCHANGED opened
           \/ k # NULL /\ Give(t, k, "EVENT", o)
  BY DEF CreateEventA_new
<1> DEFINE header == [type |-> "EVENT", word |-> o, more |-> NullWord,
                      text |-> NoText, pattern |-> NoText]
<1>2. /\ k \notin DOMAIN map /\ DOMAIN map' = DOMAIN map \cup {k}
      /\ map'[k] = header /\ \A j \in DOMAIN map : map'[j] = map[j]
  BY <1>1 DEF H!reg_event, H!Register, H!new_key_get
<1>3. pc[t] = "new_event" /\ UNCHANGED <<op, ptr, name, h>>
  BY DEF CreateEventA_new, locals
<1>4. Creates(t, k, o, header)
  BY <1>1, <1>2, <1>3 DEF Creates, Give, Return, Goto
<1> QED BY <1>4, CreatesKeeps

-----------------------------------------------------------------------------
(* The end of CloseHandle.                                                 *)

(* The object goes, and its entry no longer stands; nobody else is closing.*)
LEMMA DeletesKeep ==
  ASSUME HandleInv, TypeInv, NEW t \in Thread, Delete_mutex(t) \/ event_destroy(t)
  PROVE  HandleInv'
<1>0. pc \in [Thread -> Places] /\ kind \in [Obj -> {"none", "MUTEX", "EVENT"}]
  BY DEF TypeInv, TypeOK
<1>1. /\ pc[t] \in {"delete_mutex", "delete_event"} /\ pc' = [pc EXCEPT ![t] = "erase"]
      /\ kind' = [kind EXCEPT ![ptr[t]] = "none"] /\ ptr[t] \in Obj
      /\ UNCHANGED <<map, opened, op, h, name, ptr>>
  BY DEF Delete_mutex, event_destroy, Live, Goto, locals
<1>2. /\ op[t] = "CloseHandle" /\ h[t] # NULL /\ h[t] \in DOMAIN map
      /\ ptr[t] = map[h[t]].word
  BY <1>1 DEF HandleInv, ThreadOK, InFunction, HandleFits, Pinning, Closing, Inside,
     PointerPlaces
<1>3. pc'[t] = "erase" /\ \A u \in Thread \ {t} : Same(u)
  BY <1>0, <1>1 DEF Same
<1>4. Naming(t) /\ Closing(t) /\ Closing(t)' /\ Pinning(t)' /\ Naming(t)' /\ ~Using(t)'
  BY <1>1, <1>2, <1>3 DEF Naming, Closing, Pinning, Using, Inside
<1>5. \A u \in Thread : Closing(u)' <=> Closing(u)
  BY <1>3, <1>4, SameMeans
<1>6. \A u \in Thread : pc[u] # "erase"
  <2> SUFFICES ASSUME NEW u \in Thread, pc[u] = "erase" PROVE FALSE
    OBVIOUS
  <2>1. Naming(u)
    BY DEF HandleInv, ThreadOK, InFunction, Naming, Inside
  <2> QED BY <1>1, <1>4, <2>1 DEF HandleInv, OneNames
<1>7. Standing = DOMAIN map /\ Standing' = DOMAIN map \ {h[t]}
  BY <1>1, <1>3, <1>6 DEF Standing, Erasing, Same
<1>8. ASSUME NEW u \in Thread PROVE ThreadOK(u)'
  <2>1. CASE u = t
    BY <1>1, <1>2, <1>3, <1>4, <2>1 DEF ThreadOK, InFunction, HandleFits, NameIsNew, MutexPlaces,
       EventPlaces, PointerPlaces
  <2>2. CASE u # t
    BY <1>1, <1>3, <1>5, <2>2, SameMeans DEF HandleInv, ThreadOK, HandleFits, NameIsNew, Same
  <2> QED BY <2>1, <2>2
<1>9. OneNames'
  BY <1>3, <1>4, SameMeans DEF HandleInv, OneNames
<1>10. EntriesFit'
  <2>1. \A j \in Standing' : map[j].word # ptr[t]
    BY <1>2, <1>7 DEF HandleInv, EntriesFit
  <2> QED BY <1>0, <1>1, <1>2, <1>7, <2>1 DEF HandleInv, EntriesFit
<1>11. OpenedFit'
  BY <1>1, <1>5 DEF HandleInv, OpenedFit
<1>12. EntriesHeld'
  <2>1. \A u \in Thread : Pinning(u) => Pinning(u)'
    BY <1>3, <1>4, SameMeans
  <2> QED BY <1>1, <2>1 DEF HandleInv, EntriesHeld
<1>13. NamesUnique'
  BY <1>1 DEF HandleInv, NamesUnique, MutexesNamed
<1> QED BY <1>8, <1>9, <1>10, <1>11, <1>12, <1>13 DEF HandleInv

(* The entry goes; no open handle, no user and no creator has it. *)
LEMMA EraseKeeps ==
  ASSUME HandleInv, TypeInv, NEW t \in Thread, Close_erase(t)
  PROVE  HandleInv'
<1> DEFINE k == h[t]
<1>0. pc \in [Thread -> Places]
  BY DEF TypeInv, TypeOK
<1>1. /\ pc[t] = "erase" /\ pc' = [pc EXCEPT ![t] = "idle"]
      /\ DOMAIN map' = DOMAIN map \ {k} /\ \A j \in DOMAIN map' : map'[j] = map[j]
      /\ UNCHANGED <<kind, opened, op, h, name, ptr>>
  BY DEF Close_erase, H!erase, Return, Goto, objects, locals
<1>2. pc'[t] = "idle" /\ \A u \in Thread \ {t} : Same(u)
  BY <1>0, <1>1 DEF Same
<1>3. Naming(t) /\ Closing(t) /\ k # NULL /\ k \in DOMAIN map
  BY <1>1 DEF HandleInv, ThreadOK, InFunction, HandleFits, Naming, Pinning, Closing, Inside
<1>4. ~Naming(t)' /\ ~Closing(t)' /\ ~Pinning(t)' /\ ~Using(t)'
  BY <1>2 DEF Naming, Closing, Pinning, Using, Inside
<1>5. \A u \in Thread \ {t} : ~Naming(u) /\ ~Closing(u) /\ ~Pinning(u) /\ pc[u] # "new_mutex"
  <2> SUFFICES ASSUME NEW u \in Thread \ {t}
               PROVE  ~Naming(u) /\ ~Closing(u) /\ ~Pinning(u) /\ pc[u] # "new_mutex"
    OBVIOUS
  <2>1. ~Naming(u)
    BY <1>3 DEF HandleInv, OneNames
  <2>2. InFunction(u)
    BY DEF HandleInv, ThreadOK
  <2> QED BY <2>1, <2>2 DEF InFunction, Naming, Closing, Pinning, Inside
<1>6. \A u \in Thread : ~Naming(u)' /\ ~Closing(u)' /\ ~Pinning(u)'
  BY <1>2, <1>4, <1>5, SameMeans
<1>7. \A u \in Thread \ {t} : pc[u] # "erase"
  BY <1>5 DEF HandleInv, ThreadOK, InFunction, Closing, Inside
<1>8. Standing' = Standing /\ k \notin Standing /\ DOMAIN map' = Standing
  BY <1>1, <1>2, <1>7 DEF Standing, Erasing, Same
<1>9. ASSUME NEW u \in Thread PROVE ThreadOK(u)'
  <2>1. CASE u = t
    BY <1>2, <1>4, <2>1 DEF ThreadOK, InFunction, HandleFits, NameIsNew, MutexPlaces, EventPlaces,
       PointerPlaces
  <2>2. CASE u # t
    <3>1. InFunction(u) /\ HandleFits(u)
      BY DEF HandleInv, ThreadOK
    <3>2. InFunction(u)' /\ NameIsNew(u)' /\ Same(u) /\ (Using(u)' <=> Using(u))
      BY <1>2, <1>5, <2>2, <3>1, SameMeans DEF NameIsNew, Same
    <3>3. h[u] # NULL /\ pc[u] \in MutexPlaces \cup EventPlaces \cup {"lookup"} =>
            h[u] \in DOMAIN map'
      <4>1. Using(u) /\ h[u] # NULL => h[u] # k
        BY <1>3, <3>1 DEF HandleFits
      <4>2. pc[u] \in MutexPlaces \cup EventPlaces \cup {"lookup"} => Using(u)
        BY <1>5, <2>2, <3>1 DEF InFunction, Using, Naming, Inside, MutexPlaces, EventPlaces, Users
      <4> QED BY <1>1, <4>1, <4>2, HandlesInTable
    <3>4. Using(u) /\ h[u] # NULL => h[u] \in DOMAIN map'
      BY <1>1, <1>3, <3>1 DEF HandleFits
    <3>5. PointerPlaces \subseteq MutexPlaces \cup EventPlaces
      BY DEF PointerPlaces, MutexPlaces, EventPlaces
    <3>6. h[u] \in DOMAIN map' => map'[h[u]] = map[h[u]]
      BY <1>1
    <3>7. HandleFits(u)'
      <4> USE DEF HandleFits, Same
      <4>1. ~Pinning(u)' /\ \A w \in Thread : ~Closing(w)'
        BY <1>6
      <4>2. /\ pc'[u] \in MutexPlaces => h'[u] # NULL /\ map'[h'[u]].type = "MUTEX"
            /\ pc'[u] \in EventPlaces =>
                 \/ h'[u] # NULL /\ map'[h'[u]].type = "EVENT"
                 \/ h'[u] = NULL /\ pc'[u] \in {"set", "reset"}
            /\ pc'[u] = "lookup" /\ h'[u] # NULL =>
                 map'[h'[u]].type = IF op'[u] = "ReleaseMutex" THEN "MUTEX" ELSE "EVENT"
        BY <3>1, <3>2, <3>3, <3>6
      <4>3. /\ pc'[u] \in PointerPlaces /\ h'[u] # NULL => ptr'[u] = map'[h'[u]].word
            /\ pc'[u] = "crashed" => h'[u] = NULL
        BY <3>1, <3>2, <3>3, <3>5, <3>6
      <4> QED BY <3>2, <3>4, <4>1, <4>2, <4>3
    <3> QED BY <3>2, <3>7 DEF ThreadOK
  <2> QED BY <2>1, <2>2
<1>10. OneNames'
  BY <1>6 DEF OneNames
<1>11. EntriesFit'
  BY <1>1, <1>8 DEF HandleInv, EntriesFit
<1>12. OpenedFit'
  BY <1>1, <1>3, <1>6 DEF HandleInv, OpenedFit
<1>13. EntriesHeld'
  <2>1. \A j \in DOMAIN map' \ {NULL} : \E u \in Thread : \E x \in opened[u] : x[1] = j
    BY <1>1, <1>5 DEF HandleInv, EntriesHeld
  <2> QED BY <1>1, <2>1 DEF EntriesHeld
<1>14. NamesUnique'
  BY <1>1, <1>3 DEF HandleInv, NamesUnique, MutexesNamed
<1> QED BY <1>9, <1>10, <1>11, <1>12, <1>13, <1>14 DEF HandleInv

-----------------------------------------------------------------------------
LEMMA HandleInit == Init => HandleInv
<1> SUFFICES ASSUME Init PROVE HandleInv
  OBVIOUS
<1>1. /\ DOMAIN map = {} /\ kind = [o \in Obj |-> "none"]
      /\ \A t \in Thread : pc[t] = "idle" /\ opened[t] = {}
  BY DEF Init, H!Init
<1>2. \A t \in Thread : ~Naming(t) /\ ~Closing(t) /\ ~Using(t) /\ ~Pinning(t)
  BY <1>1 DEF Naming, Closing, Using, Pinning, Inside
<1>3. \A t \in Thread : ThreadOK(t)
  BY <1>1, <1>2 DEF ThreadOK, InFunction, HandleFits, NameIsNew, MutexPlaces, EventPlaces,
     PointerPlaces
<1>4. Standing = {}
  BY <1>1 DEF Standing
<1> QED BY <1>1, <1>2, <1>3, <1>4 DEF HandleInv, OneNames, EntriesFit, OpenedFit, EntriesHeld,
           NamesUnique, MutexesNamed

LEMMA HandleStep ==
  ASSUME Careful, HandleInv, TypeInv, [Next]_vars
  PROVE  HandleInv'
<1>1. ASSUME UNCHANGED vars PROVE HandleInv'
  BY <1>1 DEF vars, objects, locals, HandleInv, ThreadOK, InFunction, HandleFits, NameIsNew,
     OneNames, EntriesFit, OpenedFit, EntriesHeld, NamesUnique, MutexesNamed, Standing, Erasing,
     Naming, Closing, Using, Pinning, Inside
<1>2. ASSUME NEW t \in Thread, Call(t) PROVE HandleInv'
  BY <1>2, CallsKeep, CallCloseKeeps DEF Call, CallCreateMutexW, CallCreateEventW
<1>3. ASSUME NEW t \in Thread, Step(t) PROVE HandleInv'
  BY <1>3, WaitKeeps, LookupKeeps, ReleaseKeeps, CloseLooksKeep, OnlyNullCrashes,
     CreateLooksKeep, FindKeeps, CreateMutexKeeps, InitialOwnerKeeps, CreateEventKeeps,
     DeletesKeep, EraseKeeps DEF Step
<1> QED BY <1>1, <1>2, <1>3 DEF Next

(* An open handle is good: its entry has no eraser. *)
LEMMA HandleInvImplies ==
  ASSUME HandleInv, TypeInv
  PROVE  HandlesMatchObjects
<1>1. OpenHandlesAreValid
  <2> SUFFICES ASSUME NEW t \in Thread, NEW e \in opened[t]
               PROVE  /\ H!type_get(e[1]) = e[2]
                      /\ map[e[1]].word = e[3] /\ kind[e[3]] = e[2]
    BY DEF OpenHandlesAreValid
  <2>1. /\ e[1] \in DOMAIN map /\ map[e[1]].type = e[2] /\ map[e[1]].word = e[3]
        /\ \A u \in Thread : Closing(u) => h[u] # e[1]
    BY DEF HandleInv, OpenedFit
  <2>2. \A u \in Thread : pc[u] = "erase" => Closing(u)
    BY DEF HandleInv, ThreadOK, InFunction, Closing, Inside
  <2>3. e[1] \in Standing
    BY <2>1, <2>2 DEF Standing, Erasing
  <2> QED BY <2>1, <2>3 DEF HandleInv, EntriesFit, H!type_get
<1>2. NoUseAfterDelete
  BY DEF HandleInv, ThreadOK, HandleFits, NoUseAfterDelete
<1>3. NothingLeaks
  <2>1. \A t \in Thread : Pinning(t) => pc[t] # "idle"
    BY DEF Pinning, Closing, Inside
  <2> QED BY <2>1 DEF HandleInv, EntriesFit, EntriesHeld, Standing, NothingLeaks
<1> QED BY <1>1, <1>2, <1>3 DEF HandleInv, HandlesMatchObjects

(* Callers that keep CreateMutex and CloseHandle apart and close what      *)
(* nobody else uses: every open handle denotes the live object it was made *)
(* for, no pointer is followed after CloseHandle has freed its object, and *)
(* nothing leaks, with an address that CloseHandle has freed given out     *)
(* again before its entry is erased, and with pthread calls that fail.     *)
THEOREM CarefulHandlesMatch ==
  ASSUME Careful
  PROVE  Spec => []HandlesMatchObjects
<1>1. HandleInv /\ TypeInv /\ [Next]_vars => HandleInv'
  BY HandleStep
<1>2. HandleInv /\ TypeInv => HandlesMatchObjects
  BY HandleInvImplies
<1> QED BY <1>1, <1>2, HandleInit, LockInit, LockStep, TypeInit, TypeStep, PTL DEF Spec

-----------------------------------------------------------------------------
(* Names, with or without discipline.                                      *)

(* Key 0 is never closed: CreateMutexA and CreateEventA do not give it to  *)
(* anybody.  Once it is in the table it stays there.                       *)
NullIsNobodys ==
  \A t \in Thread :
    /\ \A e \in opened[t] : e[1] # NULL
    /\ pc[t] \in {"initial_owner", "lock", "close_type", "close_mutex", "close_get",
                  "close_attr", "close_event", "delete_mutex", "delete_event", "erase"} =>
         h[t] # NULL

(* A thread about to create a named mutex missed only what came late. *)
MissedAreLate(t) ==
  pc[t] = "new_mutex" /\ name[t] # NoText /\ NULL \notin DOMAIN map =>
    \A k \in DOMAIN map : map[k].type = "MUTEX" /\ map[k].text = name[t] => k \in late[t]

LateInv == NullIsNobodys /\ \A t \in Thread : MissedAreLate(t)

LEMMA LateInit == Init => LateInv
BY DEF Init, LateInv, NullIsNobodys, MissedAreLate, H!Init

LEMMA CallNullIsNobodys ==
  ASSUME NullIsNobodys, TypeOK, NEW t \in Thread, Call(t)
  PROVE  NullIsNobodys'
<1> USE DEF TypeOK, NullIsNobodys, Goto, Begin
<1>1. ASSUME NEW n \in Text, NEW b \in BOOLEAN, CallCreateMutexA(t, n, b) PROVE NullIsNobodys'
  BY <1>1 DEF CallCreateMutexA, EntryPoints
<1>2. ASSUME CallCreateEventA(t) PROVE NullIsNobodys'
  BY <1>2 DEF CallCreateEventA
<1>3. ASSUME NEW k, NEW d, CallWaitForSingleObject(t, k, d) PROVE NullIsNobodys'
  BY <1>3 DEF CallWaitForSingleObject
<1>4. ASSUME NEW k, NEW f, NEW type, CallOn(t, k, f, type) PROVE NullIsNobodys'
  BY <1>4 DEF CallOn
<1>5. ASSUME NEW e \in opened[t], CallCloseHandle(t, e) PROVE NullIsNobodys'
  BY <1>5 DEF CallCloseHandle
<1> QED BY <1>1, <1>2, <1>3, <1>4, <1>5 DEF Call, CallCreateMutexW, CallCreateEventW

LEMMA StepNullIsNobodys ==
  ASSUME NullIsNobodys, TypeOK, NEW t \in Thread, Step(t)
  PROVE  NullIsNobodys'
<1> USE DEF TypeOK, NullIsNobodys, Goto, Return, locals
<1>1. CASE CreateMutexA_find(t)
  BY <1>1 DEF CreateMutexA_find, GotMutex, Give
<1>2. CASE CreateMutexA_new(t)
  BY <1>2 DEF CreateMutexA_new, GotMutex, Give
<1>3. CASE CreateEventA_new(t)
  <2>1. /\ pc' = [pc EXCEPT ![t] = "idle"] /\ h' = h
        /\ \/ opened' = opened
           \/ \E k \in H!Key, o \in Obj :
                k # NULL /\ opened' = [opened EXCEPT ![t] = @ \cup {<<k, "EVENT", o>>}]
    BY <1>3 DEF CreateEventA_new, Give
  <2>2. \A u \in Thread : \A e \in opened'[u] : e[1] # NULL
    <3>1. CASE opened' = opened
      BY <3>1
    <3>2. ASSUME NEW k \in H!Key, NEW o \in Obj, k # NULL,
                 opened' = [opened EXCEPT ![t] = @ \cup {<<k, "EVENT", o>>}]
          PROVE  \A u \in Thread : \A e \in opened'[u] : e[1] # NULL
      <4>1. <<k, "EVENT", o>>[1] # NULL
        BY <3>2
      <4>2. \A u \in Thread : \A e \in opened'[u] : e \in opened[u] \/ e = <<k, "EVENT", o>>
        BY <3>2
      <4> QED BY <4>1, <4>2
    <3> QED BY <2>1, <3>1, <3>2
  <2> QED BY <2>1, <2>2
<1>4. CASE InitialOwner_lock(t) \/ InitialOwner_lock_fails(t)
  BY <1>4 DEF InitialOwner_lock, InitialOwner_lock_fails, Give
<1>5. CASE CreateFails(t) \/ InitialOwner_get(t) \/ Wait_type(t) \/ Wait_mutex_get(t)
  BY <1>5 DEF CreateFails, InitialOwner_get, Wait_type, Wait_mutex_get
<1>6. CASE \/ Wait_event_get(t) \/ Wait_mutex_lock(t) \/ Wait_mutex_timeout(t)
           \/ Wait_event_satisfied(t)
  BY <1>6 DEF Wait_event_get, Wait_mutex_lock, Wait_mutex_timeout, Wait_event_satisfied
<1>7. CASE Wait_event_sleep(t) \/ Wait_event_timeout(t) \/ Wait_event_error(t) \/ Lookup(t)
  BY <1>7 DEF Wait_event_sleep, Wait_event_timeout, Wait_event_error, Lookup
<1>8. CASE \/ ReleaseMutex_trylock(t) \/ ReleaseMutex_refused(t)
           \/ ReleaseMutex_unlock1(t) \/ ReleaseMutex_unlock2(t)
           \/ ReleaseMutex_unlock1_fails(t) \/ ReleaseMutex_unlock2_fails(t)
  BY <1>8 DEF ReleaseMutex_trylock, ReleaseMutex_refused, ReleaseMutex_unlock1,
     ReleaseMutex_unlock2, ReleaseMutex_unlock1_fails, ReleaseMutex_unlock2_fails, Released
<1>9. CASE SetEvent_set(t) \/ ResetEvent_reset(t) \/ SetOrReset_fails(t)
  BY <1>9 DEF SetEvent_set, ResetEvent_reset, SetOrReset_fails
<1>10. CASE \/ Close_type(t) \/ Close_mutex_get_name(t) \/ Close_mutex_get(t)
            \/ Close_mutex_get_attr(t) \/ Close_event_get(t)
  BY <1>10 DEF Close_type, Close_mutex_get_name, Close_mutex_get, Close_mutex_get_attr,
     Close_event_get
<1>11. CASE Delete_mutex(t) \/ event_destroy(t) \/ Close_erase(t) \/ UseAfterDelete(t)
  BY <1>11 DEF Delete_mutex, event_destroy, Close_erase, UseAfterDelete, Crash
<1> QED BY <1>1, <1>2, <1>3, <1>4, <1>5, <1>6, <1>7, <1>8, <1>9, <1>10, <1>11 DEF Step

(* The steps that neither search, nor register, nor erase: who is about to *)
(* create a mutex was so before.                                           *)
Unnamed ==
  /\ map' = map /\ late' = late
  /\ \A u \in Thread : pc'[u] = "new_mutex" =>
       name'[u] = NoText \/ (pc[u] = "new_mutex" /\ name'[u] = name[u])

LEMMA UnnamedKeeps == (\A u \in Thread : MissedAreLate(u)) /\ Unnamed =>
                        \A u \in Thread : MissedAreLate(u)'
BY DEF Unnamed, MissedAreLate

LEMMA CallIsUnnamed ==
  ASSUME TypeOK, NEW t \in Thread, Call(t)
  PROVE  Unnamed
<1> USE DEF TypeOK, Unnamed, Goto, Begin
<1>1. ASSUME NEW n \in Text, NEW b \in BOOLEAN, CallCreateMutexA(t, n, b) PROVE Unnamed
  BY <1>1 DEF CallCreateMutexA, EntryPoints
<1>2. ASSUME CallCreateEventA(t) PROVE Unnamed
  BY <1>2 DEF CallCreateEventA
<1>3. ASSUME NEW k, NEW d, CallWaitForSingleObject(t, k, d) PROVE Unnamed
  BY <1>3 DEF CallWaitForSingleObject
<1>4. ASSUME NEW k, NEW f, NEW type, CallOn(t, k, f, type) PROVE Unnamed
  BY <1>4 DEF CallOn
<1>5. ASSUME NEW e, CallCloseHandle(t, e) PROVE Unnamed
  BY <1>5 DEF CallCloseHandle
<1> QED BY <1>1, <1>2, <1>3, <1>4, <1>5 DEF Call, CallCreateMutexW, CallCreateEventW

LEMMA PlainIsUnnamed ==
  ASSUME TypeOK, NEW t \in Thread,
         PlainStep(t) \/ InitialOwner_lock(t) \/ InitialOwner_lock_fails(t)
  PROVE  Unnamed
<1>1. UNCHANGED <<map, late, name>>
  BY PlainStepFrame DEF InitialOwner_lock, InitialOwner_lock_fails, locals
<1>2. \E place \in Places : pc' = [pc EXCEPT ![t] = place] /\ place # "new_mutex"
  <2> USE DEF Goto, Return, Places
  <2>1. CASE InitialOwner_lock(t) \/ InitialOwner_lock_fails(t)
    BY <2>1 DEF InitialOwner_lock, InitialOwner_lock_fails, Give
  <2>2. CASE CreateFails(t) \/ InitialOwner_get(t) \/ Wait_type(t) \/ Wait_mutex_get(t)
    BY <2>2 DEF CreateFails, InitialOwner_get, Wait_type, Wait_mutex_get
  <2>3. CASE \/ Wait_event_get(t) \/ Wait_mutex_lock(t) \/ Wait_mutex_timeout(t)
             \/ Wait_event_satisfied(t)
    BY <2>3 DEF Wait_event_get, Wait_mutex_lock, Wait_mutex_timeout, Wait_event_satisfied
  <2>4. CASE Wait_event_sleep(t) \/ Wait_event_timeout(t) \/ Wait_event_error(t) \/ Lookup(t)
    BY <2>4 DEF Wait_event_sleep, Wait_event_timeout, Wait_event_error, Lookup
  <2>5. CASE \/ ReleaseMutex_trylock(t) \/ ReleaseMutex_refused(t)
             \/ ReleaseMutex_unlock1(t) \/ ReleaseMutex_unlock2(t)
             \/ ReleaseMutex_unlock1_fails(t) \/ ReleaseMutex_unlock2_fails(t)
    BY <2>5 DEF ReleaseMutex_trylock, ReleaseMutex_refused, ReleaseMutex_unlock1,
       ReleaseMutex_unlock2, ReleaseMutex_unlock1_fails, ReleaseMutex_unlock2_fails, Released
  <2>6. CASE SetEvent_set(t) \/ ResetEvent_reset(t) \/ SetOrReset_fails(t)
    BY <2>6 DEF SetEvent_set, ResetEvent_reset, SetOrReset_fails
  <2>7. CASE \/ Close_type(t) \/ Close_mutex_get_name(t) \/ Close_mutex_get(t)
             \/ Close_mutex_get_attr(t) \/ Close_event_get(t)
    BY <2>7 DEF Close_type, Close_mutex_get_name, Close_mutex_get, Close_mutex_get_attr,
       Close_event_get
  <2>8. CASE Delete_mutex(t) \/ event_destroy(t) \/ UseAfterDelete(t)
    BY <2>8 DEF Delete_mutex, event_destroy, UseAfterDelete, Crash
  <2> QED BY <2>1, <2>2, <2>3, <2>4, <2>5, <2>6, <2>7, <2>8 DEF PlainStep
<1> QED BY <1>1, <1>2 DEF TypeOK, Unnamed

(* Who searches in vain starts with nothing missed. *)
LEMMA FindMisses ==
  ASSUME LateInv, TypeOK, NEW t \in Thread, CreateMutexA_find(t), NEW u \in Thread
  PROVE  MissedAreLate(u)'
<1> DEFINE S == {j \in DOMAIN map : map[j].type = "MUTEX" /\ map[j].text = name[t]}
<1>1. PICK k \in H!FoundIn(S) : k # NULL => pc'[t] # "new_mutex"
  BY DEF CreateMutexA_find, GotMutex, Give, Return, Goto, H!mutex_find_by_name, TypeOK
<1>2. UNCHANGED <<map, name>> /\ late' = [late EXCEPT ![t] = {}]
      /\ \E place \in {"new_mutex", "initial_owner", "idle"} : pc' = [pc EXCEPT ![t] = place]
  BY DEF CreateMutexA_find, GotMutex, Give, Return, Goto
<1>3. k = NULL => S = {} \/ NULL \in DOMAIN map
  BY <1>1 DEF H!FoundIn
<1>4. CASE u = t
  BY <1>1, <1>2, <1>3, <1>4 DEF MissedAreLate
<1>5. CASE u # t
  BY <1>2, <1>5 DEF LateInv, MissedAreLate, TypeOK
<1> QED BY <1>4, <1>5

(* What is registered now is late for all who have searched already. *)
LEMMA NewIsLate ==
  ASSUME LateInv, TypeOK, NEW t \in Thread, CreateMutexA_new(t), NEW u \in Thread
  PROVE  MissedAreLate(u)'
<1>1. PICK o \in Obj, r \in H!RandResult, k \in H!Key :
        /\ H!mutex_reg(r, k, o, NullWord, name[t])
        /\ late' = [v \in Thread |-> IF v # t /\ pc[v] = "new_mutex"
                                     THEN late[v] \cup {k} ELSE {}]
  BY DEF CreateMutexA_new
<1>2. DOMAIN map' = DOMAIN map \cup {k} /\ \A j \in DOMAIN map \ {k} : map'[j] = map[j]
  BY <1>1 DEF H!mutex_reg, H!Register
<1>3. name' = name /\ \E place \in {"initial_owner", "idle"} : pc' = [pc EXCEPT ![t] = place]
  BY DEF CreateMutexA_new, GotMutex, Give, Return, Goto
<1>4. CASE u = t
  BY <1>3, <1>4 DEF MissedAreLate, TypeOK
<1>5. CASE u # t
  BY <1>1, <1>2, <1>3, <1>5 DEF LateInv, MissedAreLate, TypeOK
<1> QED BY <1>4, <1>5

(* An event, or an entry less, gives no mutex to miss; key 0 stays. *)
LEMMA OthersMiss ==
  ASSUME LateInv, TypeOK, NEW t \in Thread, CreateEventA_new(t) \/ Close_erase(t), NEW u \in Thread
  PROVE  MissedAreLate(u)'
<1>1. late' = late /\ name' = name /\ pc' = [pc EXCEPT ![t] = "idle"]
  BY DEF CreateEventA_new, Close_erase, Give, Return, Goto, locals, history
<1>2. CASE CreateEventA_new(t)
  <2>1. PICK o \in Obj, r \in H!RandResult, k \in H!Key : H!reg_event(r, k, o)
    BY <1>2 DEF CreateEventA_new
  <2>2. /\ DOMAIN map' = DOMAIN map \cup {k} /\ \A j \in DOMAIN map \ {k} : map'[j] = map[j]
        /\ map'[k].type = "EVENT"
    BY <2>1 DEF H!reg_event, H!Register
  <2> QED BY <1>1, <2>2 DEF LateInv, MissedAreLate, TypeOK
<1>3. CASE Close_erase(t)
  <2>1. h[t] # NULL
    BY <1>3 DEF Close_erase, LateInv, NullIsNobodys
  <2>2. DOMAIN map' = DOMAIN map \ {h[t]} /\ \A j \in DOMAIN map' : map'[j] = map[j]
    BY <1>3 DEF Close_erase, H!erase
  <2> QED BY <1>1, <2>1, <2>2 DEF LateInv, MissedAreLate, TypeOK
<1> QED BY <1>2, <1>3

LEMMA LateStep == LateInv /\ TypeInv /\ [Next]_vars => LateInv'
<1> SUFFICES ASSUME LateInv, TypeOK, [Next]_vars PROVE LateInv'
  BY DEF TypeInv
<1>1. ASSUME UNCHANGED vars PROVE LateInv'
  BY <1>1 DEF vars, locals, history, LateInv, NullIsNobodys, MissedAreLate
<1>2. ASSUME NEW t \in Thread, Call(t) PROVE LateInv'
  BY <1>2, CallNullIsNobodys, CallIsUnnamed, UnnamedKeeps DEF LateInv
<1>3. ASSUME NEW t \in Thread, Step(t) PROVE LateInv'
  <2>1. NullIsNobodys'
    BY <1>3, StepNullIsNobodys DEF LateInv
  <2>2. CASE PlainStep(t) \/ InitialOwner_lock(t) \/ InitialOwner_lock_fails(t)
    BY <2>1, <2>2, PlainIsUnnamed, UnnamedKeeps DEF LateInv
  <2>3. CASE CreateMutexA_find(t)
    BY <2>1, <2>3, FindMisses DEF LateInv
  <2>4. CASE CreateMutexA_new(t)
    BY <2>1, <2>4, NewIsLate DEF LateInv
  <2>5. CASE CreateEventA_new(t) \/ Close_erase(t)
    BY <2>1, <2>5, OthersMiss DEF LateInv
  <2> QED BY <1>3, <2>2, <2>3, <2>4, <2>5 DEF Step, PlainStep
<1> QED BY <1>1, <1>2, <1>3 DEF Next

(* CreateMutexA's search and its registration are two steps of the table.  *)
(* Whatever the callers do, who is about to register a name that is taken  *)
(* was overtaken between the two, and where creations are kept apart no    *)
(* name is taken twice; until a mutex is registered at key 0.              *)
THEOREM NamesClashOnlyByOverlap == Spec => []OneMutexPerName
<1>1. Init => (Careful => HandleInv)
  BY HandleInit
<1>2. (Careful => HandleInv) /\ TypeInv /\ [Next]_vars => (Careful => HandleInv)'
  BY HandleStep
<1>3. (Careful => HandleInv) /\ LateInv => OneMutexPerName
  BY DEF HandleInv, NamesUnique, LateInv, MissedAreLate, OneMutexPerName, MutexesNamed
<1> QED BY <1>1, <1>2, <1>3, LateInit, LateStep, LockInit, LockStep, TypeInit, TypeStep, PTL
        DEF Spec
=============================================================================
