------------------------------ MODULE SynchApi ------------------------------
(***************************************************************************)
(* Compat/synchapi.cpp and the MUTEX and EVENT branches of CloseHandle     *)
(* (handleapi.cpp) over the handle table: threads create, wait for, set,   *)
(* release and close mutexes and events through handles.                   *)
(*                                                                         *)
(* A function looks the handle up (one locked step of the table), drops    *)
(* the table's lock, and then works on the object the pointer named: the   *)
(* two are different actions here.  pthread mutexes are recursive, as      *)
(* CreateMutexA makes them; an event's operations are the indivisible ones *)
(* of Win32Event, which EventApi implements.                               *)
(***************************************************************************)
EXTENDS Integers, FiniteSets

CONSTANTS
  Thread, NoThread,
  Obj,             \* heap addresses for pthread_mutex_t and event_t
  NullWord,        \* the null pointer
  Text, NoText,    \* mutex names; the empty name of an unnamed mutex
  MinInt, MaxInt,  \* the range of int, for handles
  InfiniteBits,    \* width of Winbase.h's INFINITE, 0xFFFFFFFF
  DwordBits,       \* width of DWORD, an unsigned long
  Timeouts,        \* the dwMilliseconds that callers pass
  Operations,      \* the functions the threads call
  Careful,         \* TRUE: threads share handles, but keep CreateMutex and
                   \* CloseHandle apart and close what nobody else uses;
                   \* FALSE: each thread uses and closes what it opened
  PthreadFails,    \* whether pthread calls may return errors
  MaxCalls         \* bound: calls in all

ASSUME SynchAssumption ==
  /\ NoThread \notin Thread
  /\ NullWord \notin Obj
  /\ NoText \in Text
  /\ MinInt \in Int /\ MaxInt \in Int /\ MinInt < 0 /\ 0 < MaxInt
  /\ Timeouts # {}
  /\ InfiniteBits \in Nat /\ DwordBits \in Nat
  /\ InfiniteBits <= DwordBits
  /\ Careful \in BOOLEAN
  /\ PthreadFails \in BOOLEAN
  /\ MaxCalls \in Nat

VARIABLES
  map,       \* the handle table
  kind,      \* per address: "none", or the live object there
  owner,     \* per address: holder of the recursive mutex
  count,     \* per address: its lock count
  signaled,  \* per address: state of the event
  manual,    \* per address: whether the event is manual-reset
  pc, op, h, ms, ptr, name, own,  \* per thread: place, function, locals
  ret,       \* per thread: result of its last call
  calls,     \* calls made so far
  opened,    \* per thread: handles it got from Create* and has not closed,
             \* each with its type and, as history, its object
  holds,     \* history, per thread and mutex: waits less releases
  took,      \* history, per thread: its last wait acquired the object
  ignored,   \* history, per thread and mutex: which calls on it failed for
             \* the thread without anybody looking
  late       \* history, per thread about to register a mutex: the mutexes
             \* registered since it searched for the name

objects == <<kind, owner, count, signaled, manual>>
locals  == <<op, h, ms, name, own>>
history == <<holds, took, ignored, late>>
vars    == <<map, objects, pc, locals, ptr, ret, calls, opened, history>>

H == INSTANCE HandleTable WITH Word <- Obj \cup {NullWord}

NULL     == 0
INFINITE == 2^InfiniteBits - 1         \* what a caller writes

Forever(d) == d = 2^DwordBits - 1      \* synchapi.cpp's own INFINITE
IsNegativeLong(d) == d >= 2^(DwordBits - 1)
Results  == {"NONE", "NULL", "HANDLE", "TRUE", "FALSE",
             "WAIT_OBJECT_0", "WAIT_TIMEOUT", "WAIT_FAILED"}
Creators == {"CreateMutexA", "CreateEventA"}
Users    == {"WaitForSingleObject", "ReleaseMutex", "SetEvent", "ResetEvent",
             "CloseHandle"}
Places   == {"idle", "find", "new_mutex", "new_event", "initial_owner", "lock",
             "lookup", "wait_type", "wait_mutex", "wait_event", "timedlock",
             "event_wait", "event_sleep", "trylock", "unlock1", "unlock2", "set", "reset",
             "close_type", "close_mutex", "close_get", "close_attr", "close_event",
             "delete_mutex", "delete_event", "erase", "crashed"}

TypeOK ==
  /\ H!TypeOK
  /\ kind \in [Obj -> {"none", "MUTEX", "EVENT"}]
  /\ owner \in [Obj -> Thread \cup {NoThread}]
  /\ count \in [Obj -> Nat]
  /\ signaled \in [Obj -> BOOLEAN]
  /\ manual \in [Obj -> BOOLEAN]
  /\ pc \in [Thread -> Places]
  /\ op \in [Thread -> Creators \cup Users]
  /\ h \in [Thread -> MinInt..MaxInt]
  /\ ms \in [Thread -> Timeouts]
  /\ ptr \in [Thread -> Obj \cup {NullWord}]
  /\ name \in [Thread -> Text]
  /\ own \in [Thread -> BOOLEAN]
  /\ ret \in [Thread -> Results]
  /\ calls \in 0..MaxCalls
  /\ opened \in [Thread -> SUBSET ((MinInt..MaxInt) \X {"MUTEX", "EVENT"} \X Obj)]
  /\ holds \in [Thread -> [Obj -> Nat]]
  /\ took \in [Thread -> BOOLEAN]
  /\ ignored \in [Thread -> [Obj -> SUBSET {"lock", "unlock"}]]
  /\ late \in [Thread -> SUBSET (MinInt..MaxInt)]

Init ==
  /\ H!Init
  /\ kind = [o \in Obj |-> "none"]
  /\ owner = [o \in Obj |-> NoThread]
  /\ count = [o \in Obj |-> 0]
  /\ signaled = [o \in Obj |-> FALSE]
  /\ manual = [o \in Obj |-> FALSE]
  /\ pc = [t \in Thread |-> "idle"]
  /\ op = [t \in Thread |-> "CloseHandle"]
  /\ h = [t \in Thread |-> NULL]
  /\ ms = [t \in Thread |-> CHOOSE d \in Timeouts : TRUE]
  /\ ptr = [t \in Thread |-> NullWord]
  /\ name = [t \in Thread |-> NoText]
  /\ own = [t \in Thread |-> FALSE]
  /\ ret = [t \in Thread |-> "NONE"]
  /\ calls = 0
  /\ opened = [t \in Thread |-> {}]
  /\ holds = [t \in Thread |-> [o \in Obj |-> 0]]
  /\ took = [t \in Thread |-> FALSE]
  /\ ignored = [t \in Thread |-> [o \in Obj |-> {}]]
  /\ late = [t \in Thread |-> {}]

Goto(t, place) == pc' = [pc EXCEPT ![t] = place]
Return(t, r)   == Goto(t, "idle") /\ ret' = [ret EXCEPT ![t] = r]
Point(t, p)    == ptr' = [ptr EXCEPT ![t] = p]
Live(t, k)     == ptr[t] \in Obj /\ kind[ptr[t]] = k

(* Use of a pointer to no live object is undefined: the thread crashes.    *)
Crash(t, k) ==
  /\ ~Live(t, k)
  /\ Goto(t, "crashed")
  /\ UNCHANGED <<map, objects, locals, ptr, ret, calls, opened, history>>

(* A pthread recursive mutex.  Unlocking one that is not the caller's is   *)
(* refused with EPERM, which no caller here looks at.                      *)
Available(t, o) == owner[o] \in {NoThread, t}
LockIt(t, o) ==
  /\ Available(t, o)
  /\ owner' = [owner EXCEPT ![o] = t]
  /\ count' = [count EXCEPT ![o] = @ + 1]
  /\ UNCHANGED <<kind, signaled, manual>>
(* Mutant: an unlock by a thread that is not the owner goes through. *)
UnlockUnchecked(t, o) ==
  /\ count' = [count EXCEPT ![o] = @ - 1]
  /\ owner' = [owner EXCEPT ![o] = IF count[o] = 1 THEN NoThread ELSE @]
  /\ UNCHANGED <<kind, signaled, manual>>
UnlockIt(t, o) ==
  /\ IF owner[o] = t
     THEN /\ count' = [count EXCEPT ![o] = @ - 1]
          /\ owner' = [owner EXCEPT ![o] = IF count[o] = 1 THEN NoThread ELSE t]
     ELSE UNCHANGED <<owner, count>>
  /\ UNCHANGED <<kind, signaled, manual>>

-----------------------------------------------------------------------------
(* What the callers do.                                                    *)

Inside(t, functions) == pc[t] # "idle" /\ op[t] \in functions
Usable(t) == IF Careful THEN UNION {opened[u] : u \in Thread} ELSE opened[t]
NobodyElseNaming(t) ==
  \A u \in Thread \ {t} : ~Inside(u, {"CreateMutexA", "CloseHandle"})
NobodyElseUsing(t, k) ==
  \A u \in Thread \ {t} : /\ Inside(u, Users) => h[u] # k
                          /\ \A e \in opened[u] : e[1] # k

(* Bound: there is memory for every creation under way. *)
MemoryLeft ==
  Cardinality({o \in Obj : kind[o] # "none"})
    + Cardinality({u \in Thread : pc[u] \in {"find", "new_mutex", "new_event"}})
    < Cardinality(Obj)

Begin(t, f) ==
  /\ pc[t] = "idle"
  /\ f \in Operations
  /\ calls < MaxCalls
  /\ calls' = calls + 1
  /\ op' = [op EXCEPT ![t] = f]
  /\ UNCHANGED <<map, objects, ptr, ret, holds, ignored, late>>

(* NoText stands for a null lpName and for "": the first is not looked up. *)
EntryPoints(lpName) == {"find"} \cup (IF lpName = NoText THEN {"new_mutex"} ELSE {})
CallCreateMutexA(t, lpName, bInitialOwner) ==
  /\ MemoryLeft
  /\ Careful => NobodyElseNaming(t)
  /\ Begin(t, "CreateMutexA")
  /\ name' = [name EXCEPT ![t] = lpName]
  /\ own' = [own EXCEPT ![t] = bInitialOwner]
  /\ \E place \in EntryPoints(lpName) : Goto(t, place)
  /\ UNCHANGED <<h, ms, opened, took>>

(* The wide functions hand on the name in UTF-8, or no name; one that cannot *)
(* be converted creates nothing.                                             *)
CallCreateMutexW(t, lpName, bInitialOwner) == CallCreateMutexA(t, lpName, bInitialOwner)

CallCreateEventA(t) ==
  /\ MemoryLeft
  /\ Begin(t, "CreateEventA")
  /\ Goto(t, "new_event")
  /\ UNCHANGED <<h, ms, name, own, opened, took>>

CallCreateEventW(t) == CallCreateEventA(t)

CallWaitForSingleObject(t, k, dwMilliseconds) ==
  /\ k = NULL \/ \E e \in Usable(t) : e[1] = k
  /\ Begin(t, "WaitForSingleObject")
  /\ h' = [h EXCEPT ![t] = k]
  /\ ms' = [ms EXCEPT ![t] = dwMilliseconds]
  /\ took' = [took EXCEPT ![t] = FALSE]
  /\ Goto(t, "wait_type")
  /\ UNCHANGED <<name, own, opened>>

(* ReleaseMutex on a mutex, SetEvent and ResetEvent on an event. *)
CallOn(t, k, f, type) ==
  /\ k = NULL \/ \E e \in Usable(t) : e[1] = k /\ e[2] = type
  /\ Begin(t, f)
  /\ h' = [h EXCEPT ![t] = k]
  /\ Goto(t, "lookup")
  /\ UNCHANGED <<ms, name, own, opened, took>>

CallCloseHandle(t, e) ==
  /\ e \in opened[t]
  /\ Careful => NobodyElseNaming(t) /\ NobodyElseUsing(t, e[1])
  /\ Begin(t, "CloseHandle")
  /\ h' = [h EXCEPT ![t] = e[1]]
  /\ opened' = [opened EXCEPT ![t] = @ \ {e}]
  /\ Goto(t, "close_type")
  /\ UNCHANGED <<ms, name, own, took>>

Call(t) ==
  \/ \E n \in Text, b \in BOOLEAN : CallCreateMutexA(t, n, b) \/ CallCreateMutexW(t, n, b)
  \/ CallCreateEventA(t) \/ CallCreateEventW(t)
  \/ \E k \in MinInt..MaxInt, d \in Timeouts : CallWaitForSingleObject(t, k, d)
  \/ \E k \in MinInt..MaxInt :
       \/ CallOn(t, k, "ReleaseMutex", "MUTEX")
       \/ CallOn(t, k, "SetEvent", "EVENT")
       \/ CallOn(t, k, "ResetEvent", "EVENT")
  \/ \E e \in opened[t] : CallCloseHandle(t, e)

-----------------------------------------------------------------------------
(* CreateMutexA and CreateEventA.                                          *)

(* The handle is returned: from now on the caller has it. *)
Give(t, k, type, o) ==
  /\ Return(t, "HANDLE")
  /\ opened' = [opened EXCEPT ![t] = @ \cup {<<k, type, o>>}]

(* After a handle k is there: NULL is an error, bInitialOwner locks.       *)
GotMutex(t, k, o) ==
  \/ /\ k = NULL
     /\ Return(t, "NULL")
     /\ UNCHANGED opened
  \/ /\ k # NULL /\ own[t]
     /\ Goto(t, "initial_owner")
     /\ UNCHANGED <<ret, opened>>
  \/ /\ k # NULL /\ ~own[t]
     /\ Give(t, k, "MUTEX", o)

CreateMutexA_find(t) ==
  /\ pc[t] = "find"
  /\ \E k \in H!mutex_find_by_name(name[t]) :
       /\ h' = [h EXCEPT ![t] = k]
       /\ \/ k = NULL /\ Goto(t, "new_mutex") /\ UNCHANGED <<ret, opened>>
          \/ k # NULL /\ GotMutex(t, k, H!mutex_get(k))
  /\ late' = [late EXCEPT ![t] = {}]
  /\ UNCHANGED <<map, objects, op, ms, name, own, ptr, calls, holds, took, ignored>>

CreateMutexA_new(t) ==
  /\ pc[t] = "new_mutex"
  /\ \E o \in {p \in Obj : kind[p] = "none"}, r \in H!RandResult, k \in H!Key :
       /\ H!mutex_reg(r, k, o, NullWord, name[t])
       /\ kind' = [kind EXCEPT ![o] = "MUTEX"]
       /\ owner' = [owner EXCEPT ![o] = NoThread]
       /\ count' = [count EXCEPT ![o] = 0]
       /\ h' = [h EXCEPT ![t] = k]
       /\ late' = [u \in Thread |-> IF u # t /\ pc[u] = "new_mutex"
                                    THEN late[u] \cup {k} ELSE {}]
       /\ GotMutex(t, k, o)
  /\ UNCHANGED <<signaled, manual, op, ms, name, own, ptr, calls, holds, took, ignored>>

CreateFails(t) ==
  /\ PthreadFails
  /\ pc[t] \in {"new_mutex", "new_event"}
  /\ Return(t, "NULL")
  /\ UNCHANGED <<map, objects, locals, ptr, calls, opened, history>>

InitialOwner_get(t) ==
  /\ pc[t] = "initial_owner"
  /\ Point(t, H!mutex_get(h[t]))
  /\ Goto(t, "lock")
  /\ UNCHANGED <<map, objects, locals, ret, calls, opened, history>>

InitialOwner_lock(t) ==
  /\ pc[t] = "lock" /\ Live(t, "MUTEX")
  /\ LockIt(t, ptr[t])
  /\ holds' = [holds EXCEPT ![t][ptr[t]] = @ + 1]
  /\ Give(t, h[t], "MUTEX", ptr[t])
  /\ UNCHANGED <<map, locals, ptr, calls, took, ignored, late>>

(* The result of pthread_mutex_lock is not looked at: the caller is told   *)
(* that the mutex is its own although the lock failed.                     *)
Ignore(t, failed) == ignored' = [ignored EXCEPT ![t][ptr[t]] = @ \cup {failed}]
InitialOwner_lock_fails(t) ==
  /\ PthreadFails
  /\ pc[t] = "lock" /\ Live(t, "MUTEX")
  /\ holds' = [holds EXCEPT ![t][ptr[t]] = @ + 1]
  /\ Ignore(t, "lock")
  /\ Give(t, h[t], "MUTEX", ptr[t])
  /\ UNCHANGED <<map, objects, locals, ptr, calls, took, late>>

CreateEventA_new(t) ==
  /\ pc[t] = "new_event"
  /\ \E o \in {p \in Obj : kind[p] = "none"}, r \in H!RandResult, k \in H!Key,
        bManualReset \in BOOLEAN, bInitialState \in BOOLEAN :
       /\ H!reg_event(r, k, o)
       /\ kind' = [kind EXCEPT ![o] = "EVENT"]
       /\ manual' = [manual EXCEPT ![o] = bManualReset]
       /\ signaled' = [signaled EXCEPT ![o] = bInitialState]
       /\ \/ k = NULL /\ Return(t, "NULL") /\ UNCHANGED opened
          \/ k # NULL /\ Give(t, k, "EVENT", o)
  /\ UNCHANGED <<owner, count, locals, ptr, calls, history>>

-----------------------------------------------------------------------------
(* WaitForSingleObject.                                                    *)

Wait_type(t) ==
  /\ pc[t] = "wait_type"
  /\ LET type == IF h[t] = NULL THEN H!INVALID ELSE H!type_get(h[t])
     IN  \/ type = "MUTEX" /\ Goto(t, "wait_mutex") /\ UNCHANGED ret
         \/ type = "EVENT" /\ Goto(t, "wait_event") /\ UNCHANGED ret
         \/ type \notin {"MUTEX", "EVENT"} /\ Return(t, "WAIT_FAILED")
  /\ UNCHANGED <<map, objects, locals, ptr, calls, opened, history>>

Wait_mutex_get(t) ==
  /\ pc[t] = "wait_mutex"
  /\ Point(t, H!mutex_get(h[t]))
  /\ Goto(t, "timedlock")
  /\ UNCHANGED <<map, objects, locals, ret, calls, opened, history>>

Wait_event_get(t) ==
  /\ pc[t] = "wait_event"
  /\ LET p == H!get_event(h[t])
     IN  /\ Point(t, p)
         /\ \/ p # NullWord /\ Goto(t, "event_wait") /\ UNCHANGED ret
            \/ p = NullWord /\ Return(t, "WAIT_FAILED")
  /\ UNCHANGED <<map, objects, locals, calls, opened, history>>

Wait_mutex_lock(t) ==
  /\ pc[t] = "timedlock" /\ Live(t, "MUTEX")
  /\ LockIt(t, ptr[t])
  /\ holds' = [holds EXCEPT ![t][ptr[t]] = @ + 1]
  /\ took' = [took EXCEPT ![t] = TRUE]
  /\ Return(t, "WAIT_OBJECT_0")
  /\ UNCHANGED <<map, locals, ptr, calls, opened, ignored, late>>

(* Any error of pthread_mutex_timedlock or _lock is WAIT_TIMEOUT.          *)
Wait_mutex_timeout(t) ==
  /\ pc[t] = "timedlock" /\ Live(t, "MUTEX")
  /\ \/ ~Forever(ms[t]) /\ ~Available(t, ptr[t])
     \/ PthreadFails
  /\ Return(t, "WAIT_TIMEOUT")
  /\ UNCHANGED <<map, objects, locals, ptr, calls, opened, history>>

InEventWait(t) == pc[t] \in {"event_wait", "event_sleep"} /\ Live(t, "EVENT")

Wait_event_satisfied(t) ==
  /\ InEventWait(t)
  /\ signaled[ptr[t]]
  /\ signaled' = [signaled EXCEPT ![ptr[t]] = manual[ptr[t]]]
  /\ took' = [took EXCEPT ![t] = TRUE]
  /\ Return(t, "WAIT_OBJECT_0")
  /\ UNCHANGED <<map, kind, owner, count, manual, locals, ptr, calls, opened, holds, ignored, late>>

Wait_event_sleep(t) ==
  /\ pc[t] = "event_wait" /\ Live(t, "EVENT")
  /\ ~signaled[ptr[t]]
  /\ Goto(t, "event_sleep")
  /\ UNCHANGED <<map, objects, locals, ptr, ret, calls, opened, history>>

(* Mutant: event_timedwait's result is compared with -1, as event_wait's.  *)
EventTimeoutIgnored(t) ==
  /\ InEventWait(t)
  /\ \/ ~Forever(ms[t]) /\ pc[t] = "event_sleep"
     \/ Forever(ms[t]) /\ PthreadFails
  /\ Return(t, IF Forever(ms[t]) THEN "WAIT_TIMEOUT" ELSE "WAIT_OBJECT_0")
  /\ UNCHANGED <<map, objects, locals, ptr, calls, opened, history>>

(* event_timedwait returned 1 (the signal may come too late to matter), or *)
(* event_wait returned -1.                                                 *)
Wait_event_timeout(t) ==
  /\ InEventWait(t)
  /\ \/ ~Forever(ms[t]) /\ pc[t] = "event_sleep"
     \/ Forever(ms[t]) /\ PthreadFails
  /\ Return(t, "WAIT_TIMEOUT")
  /\ UNCHANGED <<map, objects, locals, ptr, calls, opened, history>>

(* event_timedwait returned -1, which is not the 1 that is asked for.  Its *)
(* parameter is a long: a DWORD from 2^31 up in the 32-bit build makes the *)
(* deadline's tv_nsec negative, and pthread_cond_timedwait refuses it.     *)
Wait_event_error(t) ==
  /\ InEventWait(t)
  /\ ~Forever(ms[t])
  /\ PthreadFails \/ (IsNegativeLong(ms[t]) /\ pc[t] = "event_sleep")
  /\ Return(t, "WAIT_OBJECT_0")
  /\ UNCHANGED <<map, objects, locals, ptr, calls, opened, history>>

-----------------------------------------------------------------------------
(* ReleaseMutex, SetEvent and ResetEvent.                                  *)

Lookup(t) ==
  /\ pc[t] = "lookup"
  /\ LET p == IF op[t] # "ReleaseMutex" THEN H!get_event(h[t])
              ELSE IF h[t] = NULL THEN NullWord ELSE H!mutex_get(h[t])
     IN  /\ Point(t, p)
         /\ \/ p = NullWord /\ Return(t, "FALSE")
            \/ /\ p # NullWord
               /\ Goto(t, IF op[t] = "ReleaseMutex" THEN "trylock"
                          ELSE IF op[t] = "SetEvent" THEN "set" ELSE "reset")
               /\ UNCHANGED ret
  /\ UNCHANGED <<map, objects, locals, calls, opened, history>>

(* trylock succeeds on the caller's own mutex, and on a free one.          *)
ReleaseMutex_trylock(t) ==
  /\ pc[t] = "trylock" /\ Live(t, "MUTEX")
  /\ LockIt(t, ptr[t])
  /\ Goto(t, "unlock1")
  /\ UNCHANGED <<map, locals, ptr, ret, calls, opened, history>>

(* Mutant: trylock that finds the mutex taken waits. *)
ReleaseBlocking(t) ==
  /\ pc[t] = "trylock" /\ Live(t, "MUTEX")
  /\ PthreadFails
  /\ Return(t, "FALSE")
  /\ UNCHANGED <<map, objects, locals, ptr, calls, opened, history>>
ReleaseMutex_refused(t) ==
  /\ pc[t] = "trylock" /\ Live(t, "MUTEX")
  /\ ~Available(t, ptr[t]) \/ PthreadFails
  /\ Return(t, "FALSE")
  /\ UNCHANGED <<map, objects, locals, ptr, calls, opened, history>>

(* The caller is told that it has given back one of its waits. *)
Released(t) ==
  /\ holds' = IF holds[t][ptr[t]] > 0
              THEN [holds EXCEPT ![t][ptr[t]] = @ - 1] ELSE holds
  /\ Return(t, "TRUE")
(* Mutant: what trylock took is given back, and nothing more. *)
ReleaseUnlockingOnce(t) ==
  /\ pc[t] = "unlock1" /\ Live(t, "MUTEX")
  /\ UnlockIt(t, ptr[t])
  /\ Released(t)
  /\ UNCHANGED <<map, locals, ptr, calls, opened, took, ignored, late>>
ReleaseMutex_unlock1(t) ==
  /\ pc[t] = "unlock1" /\ Live(t, "MUTEX")
  /\ UnlockIt(t, ptr[t])
  /\ Goto(t, "unlock2")
  /\ UNCHANGED <<map, locals, ptr, ret, calls, opened, history>>

ReleaseMutex_unlock2(t) ==
  /\ pc[t] = "unlock2" /\ Live(t, "MUTEX")
  /\ UnlockIt(t, ptr[t])
  /\ Released(t)
  /\ UNCHANGED <<map, locals, ptr, calls, opened, took, ignored, late>>

(* Nor is the result of either pthread_mutex_unlock: the answer is TRUE.   *)
ReleaseMutex_unlock1_fails(t) ==
  /\ PthreadFails
  /\ pc[t] = "unlock1" /\ Live(t, "MUTEX")
  /\ Ignore(t, "unlock")
  /\ Goto(t, "unlock2")
  /\ UNCHANGED <<map, objects, locals, ptr, ret, calls, opened, holds, took, late>>

ReleaseMutex_unlock2_fails(t) ==
  /\ PthreadFails
  /\ pc[t] = "unlock2" /\ Live(t, "MUTEX")
  /\ Ignore(t, "unlock")
  /\ Released(t)
  /\ UNCHANGED <<map, objects, locals, ptr, calls, opened, took, late>>

SetEvent_set(t) ==
  /\ pc[t] = "set" /\ Live(t, "EVENT")
  /\ signaled' = [signaled EXCEPT ![ptr[t]] = TRUE]
  /\ Return(t, "TRUE")
  /\ UNCHANGED <<map, kind, owner, count, manual, locals, ptr, calls, opened, history>>

ResetEvent_reset(t) ==
  /\ pc[t] = "reset" /\ Live(t, "EVENT")
  /\ signaled' = [signaled EXCEPT ![ptr[t]] = FALSE]
  /\ Return(t, "TRUE")
  /\ UNCHANGED <<map, kind, owner, count, manual, locals, ptr, calls, opened, history>>

(* event_set or event_reset returned -1, before or after its assignment.   *)
SetOrReset_fails(t) ==
  /\ PthreadFails
  /\ pc[t] \in {"set", "reset"} /\ Live(t, "EVENT")
  /\ signaled' \in {signaled, [signaled EXCEPT ![ptr[t]] = (pc[t] = "set")]}
  /\ Return(t, "FALSE")
  /\ UNCHANGED <<map, kind, owner, count, manual, locals, ptr, calls, opened, history>>

-----------------------------------------------------------------------------
(* CloseHandle.                                                            *)

Close_type(t) ==
  /\ pc[t] = "close_type"
  /\ LET type == H!type_get(h[t])
     IN  \/ type = "MUTEX" /\ Goto(t, "close_mutex") /\ UNCHANGED ret
         \/ type = "EVENT" /\ Goto(t, "close_event") /\ UNCHANGED ret
         \/ type \notin {"MUTEX", "EVENT"} /\ Return(t, "FALSE")
  /\ UNCHANGED <<map, objects, locals, ptr, calls, opened, history>>

(* The name, the mutex and its attribute object are three lookups; the     *)
(* name changes nothing, and the attribute object, which is only ever      *)
(* deleted along with its mutex, is not told apart from it.                *)
Close_mutex_get_name(t) ==
  /\ pc[t] = "close_mutex"
  /\ Goto(t, "close_get")
  /\ UNCHANGED <<map, objects, locals, ptr, ret, calls, opened, history>>

Close_mutex_get(t) ==
  /\ pc[t] = "close_get"
  /\ Point(t, H!mutex_get(h[t]))
  /\ Goto(t, "close_attr")
  /\ UNCHANGED <<map, objects, locals, ret, calls, opened, history>>

Close_mutex_get_attr(t) ==
  /\ pc[t] = "close_attr"
  /\ Goto(t, "delete_mutex")
  /\ UNCHANGED <<map, objects, locals, ptr, ret, calls, opened, history>>

Close_event_get(t) ==
  /\ pc[t] = "close_event"
  /\ LET p == H!get_event(h[t])
     IN  Point(t, p) /\ Goto(t, IF p = NullWord THEN "erase" ELSE "delete_event")
  /\ UNCHANGED <<map, objects, locals, ret, calls, opened, history>>

(* pthread_mutex_destroy refuses a locked mutex, but the memory is freed.  *)
Delete_mutex(t) ==
  /\ pc[t] = "delete_mutex" /\ Live(t, "MUTEX")
  /\ kind' = [kind EXCEPT ![ptr[t]] = "none"]
  /\ owner' = [owner EXCEPT ![ptr[t]] = NoThread]
  /\ count' = [count EXCEPT ![ptr[t]] = 0]
  /\ holds' = [u \in Thread |-> [holds[u] EXCEPT ![ptr[t]] = 0]]
  /\ ignored' = [u \in Thread |-> [ignored[u] EXCEPT ![ptr[t]] = {}]]
  /\ Goto(t, "erase")
  /\ UNCHANGED <<map, signaled, manual, locals, ptr, ret, calls, opened, took, late>>

event_destroy(t) ==
  /\ pc[t] = "delete_event" /\ Live(t, "EVENT")
  /\ kind' = [kind EXCEPT ![ptr[t]] = "none"]
  /\ Goto(t, "erase")
  /\ UNCHANGED <<map, owner, count, signaled, manual, locals, ptr, ret, calls, opened, history>>

Close_erase(t) ==
  /\ pc[t] = "erase"
  /\ H!erase(h[t])
  /\ Return(t, IF ptr[t] = NullWord THEN "FALSE" ELSE "TRUE")
  /\ UNCHANGED <<objects, locals, ptr, calls, opened, history>>

(* Every place where a pointer is used without a look at what it points to.*)
UseAfterDelete(t) ==
  \/ pc[t] \in {"lock", "timedlock", "trylock", "unlock1", "unlock2", "delete_mutex"}
     /\ Crash(t, "MUTEX")
  \/ pc[t] \in {"event_wait", "event_sleep", "set", "reset", "delete_event"}
     /\ Crash(t, "EVENT")

-----------------------------------------------------------------------------
Step(t) ==
  \/ CreateMutexA_find(t) \/ CreateMutexA_new(t) \/ CreateFails(t)
  \/ InitialOwner_get(t) \/ InitialOwner_lock(t) \/ InitialOwner_lock_fails(t)
  \/ CreateEventA_new(t)
  \/ Wait_type(t) \/ Wait_mutex_get(t) \/ Wait_event_get(t)
  \/ Wait_mutex_lock(t) \/ Wait_mutex_timeout(t)
  \/ Wait_event_satisfied(t) \/ Wait_event_sleep(t) \/ Wait_event_timeout(t)
  \/ Wait_event_error(t)
  \/ Lookup(t) \/ ReleaseMutex_trylock(t) \/ ReleaseMutex_refused(t)
  \/ ReleaseMutex_unlock1(t) \/ ReleaseMutex_unlock2(t)
  \/ ReleaseMutex_unlock1_fails(t) \/ ReleaseMutex_unlock2_fails(t)
  \/ SetEvent_set(t) \/ ResetEvent_reset(t) \/ SetOrReset_fails(t)
  \/ Close_type(t) \/ Close_mutex_get_name(t) \/ Close_mutex_get(t)
  \/ Close_mutex_get_attr(t) \/ Close_event_get(t)
  \/ Delete_mutex(t) \/ event_destroy(t) \/ Close_erase(t)
  \/ UseAfterDelete(t)

Next == \E t \in Thread : Call(t) \/ Step(t)

Spec == Init /\ [][Next]_vars

(* A thread inside a call keeps running; nobody is obliged to call.        *)
FairSpec == Spec /\ \A t \in Thread : WF_vars(Step(t))

-----------------------------------------------------------------------------
(* Properties.                                                             *)

(* A mutex excludes: whoever has been given it by WaitForSingleObject or   *)
(* bInitialOwner, and has not released it, owns the pthread mutex, as many *)
(* times as it was given it; so no two threads have it at once, even while *)
(* other threads run ReleaseMutex's trylock, unlock, unlock on it.  Calls  *)
(* that fail unnoticed (synchapi.cpp:80, 206, 207) only hurt as follows: a *)
(* failed lock lets this one thread believe that it has the mutex, and a   *)
(* failed unlock leaves it with the mutex more often than it believes.     *)
InRelease(t, o) == IF pc[t] = "unlock1" /\ ptr[t] = o THEN 1 ELSE 0
HoldsMatchLock ==
  \A t \in Thread, o \in Obj :
    LET believed == holds[t][o] + InRelease(t, o)
    IN  "lock" \notin ignored[t][o] =>
          /\ holds[t][o] > 0 => owner[o] = t
          /\ owner[o] = t => count[o] >= believed
          /\ owner[o] = t /\ "unlock" \notin ignored[t][o] => count[o] = believed

(* A thread that waited successfully has what it waited for (synchapi.cpp  *)
(* WaitForSingleObject: WAIT_OBJECT_0).                                    *)
SuccessMeansAcquired ==
  \A t \in Thread :
    pc[t] = "idle" /\ op[t] = "WaitForSingleObject" /\ ret[t] = "WAIT_OBJECT_0"
      => took[t]

(* A wait with INFINITE does not time out.                                 *)
InfiniteNeverTimesOut ==
  \A t \in Thread :
    pc[t] = "idle" /\ op[t] = "WaitForSingleObject" /\ ms[t] = INFINITE
      => ret[t] # "WAIT_TIMEOUT"

(* What WaitForSingleObject answers is true but for two cases.  It says    *)
(* WAIT_OBJECT_0 without the object only of a wait with a timeout, when    *)
(* event_timedwait failed, as it must for a timeout that a long takes for  *)
(* negative; and WAIT_TIMEOUT of an INFINITE wait only where INFINITE is   *)
(* not DWORD's, or a pthread call failed.  WAIT_TIMEOUT and WAIT_FAILED    *)
(* never leave the caller with the object.                                 *)
WaitsAnswerTruly ==
  \A t \in Thread :
    pc[t] = "idle" /\ op[t] = "WaitForSingleObject" =>
      /\ ret[t] = "WAIT_OBJECT_0" =>
           took[t] \/ (~Forever(ms[t]) /\ (PthreadFails \/ IsNegativeLong(ms[t])))
      /\ ret[t] = "WAIT_TIMEOUT" /\ Forever(ms[t]) => PthreadFails
      /\ took[t] => ret[t] = "WAIT_OBJECT_0"

(* No thread follows a pointer that CloseHandle has freed meanwhile, or    *)
(* that points to an object of another type.  SetEvent(NULL) may: the NULL *)
(* is looked up like any key, and a mutex may have been registered at 0.   *)
NoUseAfterDelete == \A t \in Thread : pc[t] = "crashed" => h[t] = NULL

(* An open handle denotes the object it was created for, still alive,      *)
(* whatever other handles are created and closed meanwhile.                *)
OpenHandlesAreValid ==
  \A t \in Thread : \A e \in opened[t] :
    /\ H!type_get(e[1]) = e[2]
    /\ map[e[1]].word = e[3] /\ kind[e[3]] = e[2]

(* CreateMutexA with one name gives one mutex, unless creations overlap:   *)
(* a thread about to register a name that a mutex of the table has already *)
(* was overtaken, that mutex having been registered since its own search.  *)
(* Where creations are kept apart no two mutexes of the table share a name.*)
(* Both end the day rand() returns 0 for a named mutex: its key is found,  *)
(* and taken for "none".                                                   *)
MutexesNamed(n) == {k \in DOMAIN map : map[k].type = "MUTEX" /\ map[k].text = n}
OneMutexPerName ==
  NULL \notin DOMAIN map => \A n \in Text \ {NoText} :
    /\ \A t \in Thread :
         pc[t] = "new_mutex" /\ name[t] = n => MutexesNamed(n) \subseteq late[t]
    /\ Careful => \A j, k \in MutexesNamed(n) : j = k

(* CloseHandle leaves nothing behind: every live object is in the table,   *)
(* and every entry of the table is a handle that some thread has open or   *)
(* is creating or closing.  Key 0 is the exception: rand() may return it,  *)
(* and the object registered there is reported to the caller as a failure. *)
NothingLeaks ==
  /\ \A o \in Obj : kind[o] # "none" => \E k \in DOMAIN map : map[k].word = o
  /\ \A k \in DOMAIN map \ {NULL} :
       \/ \E t \in Thread : \E e \in opened[t] : e[1] = k
       \/ \E t \in Thread : pc[t] # "idle" /\ h[t] = k

(* Handles, entries of the table and objects on the heap belong together,  *)
(* through every creation and every CloseHandle (handleapi.cpp:77).        *)
HandlesMatchObjects == OpenHandlesAreValid /\ NoUseAfterDelete /\ NothingLeaks

(* A thread stays in WaitForSingleObject(mutex, INFINITE) for ever only if *)
(* again and again some thread has the mutex: ReleaseMutex really frees it.*)
ReleasedMutexIsGranted ==
  \A t \in Thread :
    <>[](pc[t] = "timedlock" /\ Forever(ms[t]))
      => []<>(\E u \in Thread, o \in Obj : o = ptr[t] /\ holds[u][o] > 0)

(* Every other call returns: a wait with a timeout, SetEvent, ResetEvent,  *)
(* ReleaseMutex, CloseHandle, and a create that need not lock.             *)
MayBlock(t) == \/ op[t] = "WaitForSingleObject" /\ Forever(ms[t])
               \/ op[t] = "CreateMutexA" /\ own[t]
BoundedCallsReturn ==
  \A t \in Thread : (pc[t] # "idle" /\ ~MayBlock(t)) ~> (pc[t] = "idle")

=============================================================================
