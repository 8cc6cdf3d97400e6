------------------------------ MODULE ThreadApi ------------------------------
(***************************************************************************)
(* Compat/process.cpp, processthreadsapi.cpp, the critical sections of     *)
(* synchapi.cpp and the THREAD branch of CloseHandle, over the handle      *)
(* table.  A thread is a pthread_t in the table; its exit code is kept in  *)
(* the entry, found again by the pthread_t.                                *)
(*                                                                         *)
(* pthread_t values are recycled, so every thread also has a serial number *)
(* that no code can see: the properties are about those.                   *)
(***************************************************************************)
EXTENDS Integers, FiniteSets

CONSTANTS
  Tid, Main,        \* pthread_t values; the first thread's
  CutTid,           \* what an int keeps of a pthread_t wider than int
  Zero,             \* tid 0, exit code 0
  STILL_ACTIVE,
  Codes,            \* exit codes
  NoText,
  MinInt, MaxInt,   \* the range of int, for handles
  Settings,         \* the circumstances a behaviour may have: see Setting
  MaxThreads,       \* bound: threads ever started
  MaxCalls          \* bound: calls in all

Acting   == {"SuspendThread", "TerminateThread", "SetThreadPriority"}
OnHandle == Acting \cup {"GetThreadPriority", "GetExitCodeThread", "CloseHandle"}
OnSelf   == {"CreateThread", "ExitThread", "GetCurrentThreadId", "GetCurrentThread",
             "_endthread", "EnterCriticalSection"}

Setting == [ops      : SUBSET (OnHandle \cup OnSelf),  \* the functions in use
            wide     : BOOLEAN,   \* pthread_t does not fit an int
            recycles : BOOLEAN,   \* a new thread may get a pthread_t that an
                                  \* entry of the table still has
            orderly  : BOOLEAN,   \* a thread waits until its creator has its
                                  \* handle, nobody closes a handle in use,
                                  \* asks for one being closed, or deletes a
                                  \* critical section in use
            zero     : BOOLEAN]   \* rand() may give key 0

ASSUME ThreadAssumption ==
  /\ Main \in Tid
  /\ CutTid \notin Tid /\ Zero \notin Tid
  /\ MinInt \in Int /\ MaxInt \in Int /\ MinInt < 0 /\ 0 < MaxInt
  /\ Settings \subseteq Setting
  /\ MaxThreads \in Nat \ {0} /\ MaxCalls \in Nat

VARIABLES
  setting,          \* never changes
  map,              \* the handle table
  life,             \* per pthread_t: "none", "running", "cancelled", "gone"
  detached,         \* per pthread_t
  serial,           \* per pthread_t: which thread it stands for, or stood
  prio,             \* per pthread_t: whether it has a real-time priority
  call,             \* per thread: the function it is in, where, and its locals
  cs,               \* a CRITICAL_SECTION: its state, its owner's serial, its count
  crashed,          \* a pthread call was given a bad pthread_t or mutex
  calls,            \* calls made so far
  given,            \* handles returned to callers and not closed
  entry,            \* history, per handle: the thread it was made for
  said,             \* history, per serial: the exit code its entry should have
  named,            \* history: threads whose handle was given to a function
                    \* that acts on the thread
  inside,           \* history, per serial: entries into cs not left yet
  missed            \* history: threads that looked for their own entry in vain,
                    \* before their creator registered them or past an entry at key 0

kernel  == <<life, detached, serial, prio>>
history == <<entry, said, named, inside, missed>>
vars    == <<setting, map, kernel, call, cs, crashed, calls, given, history>>

Word == Tid \cup {CutTid, Zero, STILL_ACTIVE} \cup Codes
H == INSTANCE HandleTable
       WITH NullWord <- Zero, Text <- {NoText}

NULL     == 0
Serial   == 1..MaxThreads
NoSerial == 0
Places   == {"idle", "start", "register", "detach", "activate", "store", "exit",
             "find", "register_self", "lookup", "cancel", "schedule", "read", "erase", "enter"}

Frame == [pc : Places, op : OnHandle \cup OnSelf, h : MinInt..MaxInt,
          tid : Word, code : Word, made : Tid \cup {Zero}, wantsId : BOOLEAN]
Idle == [pc |-> "idle", op |-> "CloseHandle", h |-> NULL,
         tid |-> Zero, code |-> Zero, made |-> Zero, wantsId |-> FALSE]

TypeOK ==
  /\ setting \in Settings
  /\ H!TypeOK
  /\ life \in [Tid -> {"none", "running", "cancelled", "gone"}]
  /\ detached \in [Tid -> BOOLEAN]
  /\ serial \in [Tid -> Serial \cup {NoSerial}]
  /\ prio \in [Tid -> BOOLEAN]
  /\ call \in [Tid -> Frame]
  /\ cs.state \in {"raw", "live", "deleted"}
  /\ cs.owner \in Serial \cup {NoSerial} /\ cs.count \in Nat
  /\ (cs.owner = NoSerial) = (cs.count = 0)
  /\ crashed \in BOOLEAN
  /\ calls \in 0..MaxCalls
  /\ given \subseteq MinInt..MaxInt
  /\ DOMAIN entry = DOMAIN map
  /\ \A k \in DOMAIN entry : entry[k] \in Serial
  /\ said \in [Serial -> Word]
  /\ named \subseteq Serial
  /\ inside \in [Serial -> Nat]
  /\ missed \subseteq Serial

Init ==
  /\ setting \in Settings
  /\ H!Init
  /\ life = [t \in Tid |-> IF t = Main THEN "running" ELSE "none"]
  /\ detached = [t \in Tid |-> FALSE]
  /\ serial = [t \in Tid |-> IF t = Main THEN 1 ELSE NoSerial]
  /\ prio = [t \in Tid |-> FALSE]
  /\ call = [t \in Tid |-> Idle]
  /\ cs = [state |-> "raw", owner |-> NoSerial, count |-> 0]
  /\ crashed = FALSE
  /\ calls = 0
  /\ given = {}
  /\ entry = [k \in {} |-> NoSerial]
  /\ said = [s \in Serial |-> Zero]
  /\ named = {}
  /\ inside = [s \in Serial |-> 0]
  /\ missed = {}

Started == Cardinality({s \in Serial : \E t \in Tid : serial[t] >= s})
Alive(t) == life[t] \in {"running", "cancelled"}
Goto(t, place) == call' = [call EXCEPT ![t].pc = place]
Done(t) == call' = [call EXCEPT ![t] = Idle]
Return(t, place) == IF place = "idle" THEN Done(t) ELSE Goto(t, place)
At(t, place) == call[t].pc = place

-----------------------------------------------------------------------------
(* What the callers do.                                                    *)

BeingMade(t) == \E u \in Tid : Alive(u) /\ call[u].made = t
Denotes(k, t) == k \in DOMAIN map /\ map[k].word = t
InUse(k) ==
  \E t \in Tid : /\ Alive(t) /\ call[t].pc \notin {"idle", "start"}
                 /\ \/ call[t].op \in OnHandle \cup {"CreateThread"} /\ call[t].h = k
                    \/ call[t].op \in {"GetCurrentThreadId", "GetCurrentThread"}
                       /\ Denotes(k, t)
BeingClosed(t) ==
  \E u \in Tid : /\ call[u].pc # "idle" /\ call[u].op = "CloseHandle"
                 /\ Denotes(call[u].h, t)
Free(t) == Alive(t) /\ At(t, "idle") /\ (setting.orderly => ~BeingMade(t))

Begin(t, frame) ==
  /\ Free(t) /\ frame.op \in setting.ops
  /\ calls < MaxCalls
  /\ calls' = calls + 1
  /\ call' = [call EXCEPT ![t] = frame]
  /\ UNCHANGED <<setting, map, kernel, cs, crashed, entry, said, inside, missed>>

CallCreateThread(t, lpThreadId) ==
  /\ Begin(t, [Idle EXCEPT !.op = "CreateThread", !.pc = "start", !.wantsId = lpThreadId])
  /\ UNCHANGED <<given, named>>

CallExitThread(t, dwExitCode) ==
  /\ Begin(t, [Idle EXCEPT !.op = "ExitThread", !.pc = "store", !.code = dwExitCode])
  /\ UNCHANGED <<given, named>>

CallGetCurrentThread(t, f) ==
  /\ f \in {"GetCurrentThreadId", "GetCurrentThread"}
  /\ setting.orderly => ~BeingClosed(t)
  /\ Begin(t, [Idle EXCEPT !.op = f, !.pc = "find"])
  /\ UNCHANGED <<given, named>>

CallOnHandle(t, f, k, dwExitCode) ==
  /\ k \in given \cup {NULL}
  /\ f = "CloseHandle" /\ setting.orderly => ~InUse(k)
  /\ Begin(t, [Idle EXCEPT !.op = f, !.pc = "lookup", !.h = k, !.code = dwExitCode])
  /\ given' = IF f = "CloseHandle" THEN given \ {k} ELSE given
  /\ named' = IF f \in Acting /\ k \in DOMAIN map THEN named \cup {entry[k]} ELSE named

Call(t) ==
  \/ \E b \in BOOLEAN : CallCreateThread(t, b)
  \/ \E c \in Codes : CallExitThread(t, c)
  \/ \E f \in OnSelf : CallGetCurrentThread(t, f)
  \/ \E k \in MinInt..MaxInt :
       \/ \E c \in Codes : CallOnHandle(t, "TerminateThread", k, c)
       \/ \E f \in OnHandle \ {"TerminateThread"} : CallOnHandle(t, f, k, Zero)

-----------------------------------------------------------------------------
(* The end of a thread: it returns from its start routine, a cancellation  *)
(* takes effect, or pthread_exit.  A pthread_t that is not detached yet is *)
(* not free for another thread.                                            *)
Die(t) ==
  /\ life' = [life EXCEPT ![t] = IF detached[t] THEN "none" ELSE "gone"]
  /\ Done(t)
  /\ UNCHANGED <<setting, map, detached, serial, prio, cs, crashed, calls, given, history>>

ReturnFromStart(t) == Free(t) /\ t # Main /\ Die(t)

(* Cancellation is deferred, and pthread_mutex_lock is no place for it.    *)
CancellationActs(t) == life[t] = "cancelled" /\ call[t].pc # "enter" /\ Die(t)

ExitThread_exit(t) == At(t, "exit") /\ Die(t)

(* pthread_cancel(pthread_self()) *)
_endthread(t) ==
  /\ Free(t) /\ "_endthread" \in setting.ops
  /\ life' = [life EXCEPT ![t] = "cancelled"]
  /\ named' = named \cup {serial[t]}
  /\ UNCHANGED <<setting, map, detached, serial, prio, call, cs, crashed, calls, given,
                 entry, said, inside, missed>>

-----------------------------------------------------------------------------
(* _beginthread and CreateThread.                                          *)

FreeTids == {t \in Tid : life[t] = "none"
                         /\ (setting.recycles \/ \A k \in DOMAIN map : map[k].word # t)}

(* new std::thread: from here on the thread runs.                          *)
Beginthread_start(t) ==
  /\ At(t, "start")
  /\ Started < MaxThreads
  /\ \E new \in FreeTids :
       /\ life' = [life EXCEPT ![new] = "running"]
       /\ detached' = [detached EXCEPT ![new] = FALSE]
       /\ serial' = [serial EXCEPT ![new] = Started + 1]
       /\ prio' = [prio EXCEPT ![new] = prio[t]]
       /\ call' = [call EXCEPT ![t].made = new, ![t].pc = "register"]
  /\ UNCHANGED <<setting, map, cs, crashed, calls, given, history>>

(* Without resources std::thread throws: the handle is 0.                  *)
Beginthread_throws(t) ==
  /\ At(t, "start")
  /\ Return(t, IF call[t].wantsId THEN "lookup" ELSE "idle")
  /\ UNCHANGED <<setting, map, kernel, cs, crashed, calls, given, history>>

Register(r, k, new) ==
  /\ setting.zero \/ k # NULL
  /\ H!reg_thread(r, k, new)
  /\ entry' = [j \in DOMAIN entry \cup {k} |-> IF j = k THEN serial[new] ELSE entry[j]]
  /\ UNCHANGED <<setting, kernel, cs, crashed, calls, said, named, inside, missed>>

Beginthread_register(t, r, k) ==
  /\ At(t, "register")
  /\ Register(r, k, call[t].made)
  /\ call' = [call EXCEPT ![t].h = k, ![t].pc = "detach"]
  /\ UNCHANGED given

(* *lpThreadId has the handle before CreateThread returns it; orderly      *)
(* callers wait for that.                                                  *)
Beginthread_detach(t) ==
  /\ At(t, "detach")
  /\ detached' = [detached EXCEPT ![call[t].made] = TRUE]
  /\ life' = [life EXCEPT ![call[t].made] = IF @ = "gone" THEN "none" ELSE @]
  /\ given' = IF call[t].wantsId /\ setting.orderly THEN given
              ELSE (given \cup {call[t].h}) \ {NULL}
  /\ Return(t, IF call[t].wantsId THEN "lookup" ELSE "idle")
  /\ UNCHANGED <<setting, map, serial, prio, cs, crashed, calls, history>>

(* The one place that writes an exit code, for the thread s: by pthread_t. *)
MadeFor(k) == IF k \in DOMAIN entry THEN entry[k] ELSE NoSerial
SetExitCode(target, c, s) ==
  /\ H!set_thread_exitcode(target, c)
  /\ said' = IF s = NoSerial THEN said ELSE [said EXCEPT ![s] = c]
  /\ UNCHANGED <<setting, kernel, cs, crashed, calls, entry, named, inside, missed>>

(* STILL_ACTIVE is not meant to replace a code that has been set.          *)
Unsaid(s) == IF s # NoSerial /\ said[s] # Zero THEN NoSerial ELSE s
CreateThread_activate(t) ==
  /\ At(t, "activate")
  /\ SetExitCode(call[t].tid, STILL_ACTIVE, Unsaid(MadeFor(call[t].h)))
  /\ given' = IF setting.orderly THEN (given \cup {call[t].h}) \ {NULL} ELSE given
  /\ Done(t)

(* Mutant: the code is stored under another thread's id. *)
ExitThread_of_main(t) ==
  /\ At(t, "store") /\ call[t].op = "ExitThread"
  /\ SetExitCode(Main, call[t].code, serial[t]) /\ UNCHANGED given
  /\ Goto(t, "exit")
ExitThread_store(t) ==
  /\ At(t, "store") /\ call[t].op = "ExitThread"
  /\ SetExitCode(t, call[t].code, serial[t]) /\ UNCHANGED given
  /\ Goto(t, "exit")

Unregistered(t) == \E u \in Tid : call[u].made = t /\ At(u, "register")
HasEntry(s) == \E k \in DOMAIN entry : entry[k] = s

(* GetCurrentThread returns the handle, 0 if there is none;                *)
(* GetCurrentThreadId then registers the thread.                           *)
FindCurrentThread(t) ==
  /\ At(t, "find")
  /\ \E k \in H!find_thread_by_tid(t) :
       /\ given' = (given \cup {k}) \ {NULL}
       /\ Return(t, IF k = NULL /\ call[t].op = "GetCurrentThreadId"
                    THEN "register_self" ELSE "idle")
       /\ missed' = IF k = NULL /\ (Unregistered(t) \/ HasEntry(serial[t]))
                    THEN missed \cup {serial[t]} ELSE missed
  /\ UNCHANGED <<setting, map, kernel, cs, crashed, calls, entry, said, named, inside>>

GetCurrentThreadId_register(t, r, k) ==
  /\ At(t, "register_self")
  /\ Register(r, k, t)
  /\ given' = (given \cup {k}) \ {NULL}
  /\ Done(t)

-----------------------------------------------------------------------------
(* The functions that take a handle: first get_thread_tid, whose local is  *)
(* an int.                                                                 *)
AsInt(word) == IF setting.wide /\ word \in Tid THEN CutTid ELSE word
get_thread_tid(k) == AsInt(H!Field(k, "word", Zero))

AfterLookup(f, found) ==
  IF f = "CreateThread" THEN "activate"
  ELSE IF f = "CloseHandle" THEN "erase"
  ELSE IF found = Zero /\ f # "GetThreadPriority" THEN "idle"
  ELSE IF f \in {"SuspendThread", "TerminateThread"} THEN "cancel"
  ELSE IF f = "GetExitCodeThread" THEN "read" ELSE "schedule"

Lookup(t) ==
  /\ At(t, "lookup")
  /\ LET found == get_thread_tid(call[t].h)
         place == AfterLookup(call[t].op, found)
     IN  IF place = "idle" THEN Done(t)
         ELSE call' = [call EXCEPT ![t].tid = found, ![t].pc = place]
  /\ UNCHANGED <<setting, map, kernel, cs, crashed, calls, given, history>>

Exists(word) == word \in Tid /\ life[word] # "none"

(* pthread_cancel, pthread_setschedparam and pthread_getschedparam follow  *)
(* the pthread_t.  If no thread has it the result is an error, or a crash. *)
PthreadCrashes(t) ==
  /\ call[t].pc \in {"cancel", "schedule"}
  /\ ~Exists(call[t].tid)
  /\ crashed' = TRUE
  /\ UNCHANGED <<setting, map, kernel, call, cs, calls, given, history>>

Cancel(t) ==
  /\ At(t, "cancel")
  /\ life' = IF Exists(call[t].tid) /\ life[call[t].tid] = "running"
             THEN [life EXCEPT ![call[t].tid] = "cancelled"] ELSE life
  /\ Return(t, IF Exists(call[t].tid) /\ call[t].op = "TerminateThread"
               THEN "store" ELSE "idle")
  /\ UNCHANGED <<setting, map, detached, serial, prio, cs, crashed, calls, given, history>>

(* Mutant: the end of the thread is awaited first. *)
StoreAfterJoin(t) ==
  /\ At(t, "store") /\ call[t].op = "TerminateThread"
  /\ ~Alive(call[t].tid)
  /\ SetExitCode(call[t].tid, call[t].code, MadeFor(call[t].h)) /\ UNCHANGED given
  /\ Done(t)
TerminateThread_store(t) ==
  /\ At(t, "store") /\ call[t].op = "TerminateThread"
  /\ SetExitCode(call[t].tid, call[t].code, MadeFor(call[t].h)) /\ UNCHANGED given
  /\ Done(t)

(* sched_setscheduler(getpid()) first, which is the first thread's, and    *)
(* then the thread meant.  Without the privilege neither has an effect.    *)
(* Mutant: everybody's priority is changed. *)
SetAllPriorities(t) ==
  /\ At(t, "schedule")
  /\ prio' = [u \in Tid |-> TRUE]
  /\ Done(t)
  /\ UNCHANGED <<setting, map, life, detached, serial, cs, crashed, calls, given, history>>
SetThreadPriority_set(t) ==
  /\ At(t, "schedule")
  /\ \/ /\ call[t].op = "SetThreadPriority"
        /\ prio' = [u \in Tid |-> prio[u] \/ u \in {Main, call[t].tid}]
     \/ prio' = prio
  /\ Done(t)
  /\ UNCHANGED <<setting, map, life, detached, serial, cs, crashed, calls, given, history>>

(* Its result is H!get_thread_exitcode(call[t].tid, Zero).                 *)
GetExitCodeThread_read(t) ==
  /\ At(t, "read")
  /\ Done(t)
  /\ UNCHANGED <<setting, map, kernel, cs, crashed, calls, given, history>>

CloseHandle_erase(t) ==
  /\ At(t, "erase")
  /\ H!erase(call[t].h)
  /\ entry' = [k \in DOMAIN entry \ {call[t].h} |-> entry[k]]
  /\ said' = [s \in Serial |-> IF s = MadeFor(call[t].h) THEN Zero ELSE said[s]]
  /\ Done(t)
  /\ UNCHANGED <<setting, kernel, cs, crashed, calls, given, named, inside, missed>>

-----------------------------------------------------------------------------
(* Critical sections: a recursive pthread mutex.                           *)

Private == <<setting, map, kernel, calls, given, entry, said, named, missed>>

InitializeCriticalSection(t) ==
  /\ Free(t) /\ cs.state = "raw" /\ "EnterCriticalSection" \in setting.ops
  /\ cs' = [cs EXCEPT !.state = "live"]
  /\ UNCHANGED <<Private, call, crashed, inside>>

DeleteCriticalSection(t) ==
  /\ Free(t) /\ cs.state = "live"
  /\ setting.orderly => cs.owner = NoSerial /\ \A u \in Tid : call[u].pc # "enter"
  /\ cs' = [cs EXCEPT !.state = "deleted"]
  /\ UNCHANGED <<Private, call, crashed, inside>>

EnterCriticalSection(t) ==
  /\ cs.state # "raw" /\ (setting.orderly => cs.state = "live")
  /\ Begin(t, [Idle EXCEPT !.op = "EnterCriticalSection", !.pc = "enter"])
  /\ UNCHANGED <<given, named>>

Lock(t) ==
  /\ At(t, "enter") /\ cs.state = "live" /\ cs.owner \in {NoSerial, serial[t]}
  /\ cs' = [cs EXCEPT !.owner = serial[t], !.count = @ + 1]
  /\ inside' = [inside EXCEPT ![serial[t]] = @ + 1]
  /\ Done(t)
  /\ UNCHANGED <<Private, crashed>>

(* Mutant: the mutex lets anyone unlock. *)
LeaveUnchecked(t) ==
  /\ Free(t) /\ cs.state # "raw"
  /\ cs' = [cs EXCEPT !.owner = NoSerial, !.count = 0]
  /\ inside' = [inside EXCEPT ![serial[t]] = IF @ > 0 THEN @ - 1 ELSE 0]
  /\ UNCHANGED <<Private, call, crashed>>
(* Mutant: the last one out stays the owner. *)
LeaveAsOwner(t) ==
  /\ Free(t) /\ cs.state = "live"
  /\ cs' = IF cs.owner # serial[t] \/ cs.count = 0 THEN cs
           ELSE [cs EXCEPT !.count = @ - 1]
  /\ inside' = [inside EXCEPT ![serial[t]] = IF @ > 0 THEN @ - 1 ELSE 0]
  /\ UNCHANGED <<Private, call, crashed>>
LeaveCriticalSection(t) ==
  /\ Free(t) /\ cs.state = "live"
  /\ cs' = IF cs.owner # serial[t] THEN cs            \* EPERM, not looked at
           ELSE [cs EXCEPT !.owner = IF cs.count = 1 THEN NoSerial ELSE @, !.count = @ - 1]
  /\ inside' = [inside EXCEPT ![serial[t]] = IF @ > 0 THEN @ - 1 ELSE 0]
  /\ UNCHANGED <<Private, call, crashed>>

(* Entering, leaving or deleting one that is deleted: LockSemaphore is     *)
(* null, or the mutex freed.                                               *)
UseAfterDelete(t) ==
  /\ ~setting.orderly /\ cs.state = "deleted"
  /\ crashed' = TRUE
  /\ UNCHANGED <<Private, call, cs, inside>>

-----------------------------------------------------------------------------
(* What a thread does inside a function goes on by itself; what it does    *)
(* between calls need not happen.                                          *)
Step(t) ==
  /\ ~crashed /\ Alive(t)
  /\ \/ CancellationActs(t) \/ ExitThread_exit(t)
     \/ Beginthread_start(t) \/ Beginthread_throws(t) \/ Beginthread_detach(t)
     \/ \E r \in 0..MaxInt, k \in MinInt..MaxInt :
          Beginthread_register(t, r, k) \/ GetCurrentThreadId_register(t, r, k)
     \/ CreateThread_activate(t) \/ ExitThread_store(t) \/ FindCurrentThread(t)
     \/ Lookup(t) \/ PthreadCrashes(t) \/ Cancel(t) \/ TerminateThread_store(t)
     \/ SetThreadPriority_set(t) \/ GetExitCodeThread_read(t) \/ CloseHandle_erase(t)
     \/ Lock(t) \/ (At(t, "enter") /\ UseAfterDelete(t))

Choice(t) ==
  /\ ~crashed /\ Alive(t)
  /\ \/ Call(t) \/ ReturnFromStart(t) \/ _endthread(t)
     \/ InitializeCriticalSection(t) \/ DeleteCriticalSection(t)
     \/ EnterCriticalSection(t) \/ LeaveCriticalSection(t)
     \/ (Free(t) /\ UseAfterDelete(t))

Next == \E t \in Tid : Step(t) \/ Choice(t)

Spec == Init /\ [][Next]_vars /\ \A t \in Tid : WF_vars(Step(t))

-----------------------------------------------------------------------------
(* Callers that wait for each other, and handles that are not 0: rand()    *)
(* may give one that every function takes for "none".                      *)
Orderly == setting.orderly /\ ~setting.zero

(* process.cpp:19, processthreadsapi.cpp:85, common_handle.cpp:275 and     *)
(* 318: where threads wait for their creator, a pthread_t fits an int and  *)
(* none is recycled while the table has it, GetExitCodeThread gives for    *)
(* every open handle the code that was last set for that thread.           *)
ExitCodesAreKept ==
  Orderly /\ ~setting.wide /\ ~setting.recycles =>
    \A k \in given \cap DOMAIN entry :
      said[entry[k]] # Zero =>
        H!get_thread_exitcode(get_thread_tid(k), Zero) = {said[entry[k]]}

(* processthreadsapi.cpp:61 and process.cpp:19, in every circumstance: a   *)
(* thread is registered twice, and so has two handles and two ids, only if *)
(* it looked for its entry after new std::thread had started it and before *)
(* _beginthread registered it, or was led to key 0, which it takes for     *)
(* "none".  Closing, recycled and wide pthread_ts and careless callers     *)
(* bring no other case.                                                    *)
OneEntryPerThread ==
  \A j, k \in DOMAIN entry : entry[j] = entry[k] => j = k \/ entry[j] \in missed

(* TerminateThread, SuspendThread, SetThreadPriority: unless the system    *)
(* recycles a pthread_t or a handle is closed in use, the thread that is   *)
(* cancelled is one whose handle somebody passed.  A priority changes only *)
(* in SetThreadPriority, for the thread whose handle it was given and for  *)
(* the first thread, which nobody need have named: processthreadsapi.cpp:  *)
(* 102 gives the process id for a thread's.  Both get the same.            *)
SettingPriorityOf(t) ==
  {u \in Tid : At(u, "schedule") /\ call[u].op = "SetThreadPriority" /\ call[u].tid = t}
OnlyTheNamedThreadIsTouched ==
  [][ Orderly /\ ~setting.recycles =>
        \A t \in Tid : serial[t] # NoSerial /\ serial'[t] = serial[t] =>
          /\ life[t] = "running" /\ life'[t] = "cancelled" => serial[t] \in named'
          /\ prio'[t] # prio[t] =>
               \E meant \in Tid \cup {CutTid} :
                 /\ SettingPriorityOf(meant) # {} /\ t \in {meant, Main}
                 /\ meant \in Tid => serial[meant] \in named /\ prio'[meant] ]_vars

(* common_handle.cpp:275: where a pthread_t fits an int, the pthread calls *)
(* on a handle are given a bad pthread_t only after that thread has ended, *)
(* or for a handle that names none.                                        *)
OnlyTheDeadCrash ==
  Orderly /\ ~setting.wide /\ crashed =>
    \E t \in Tid :
      /\ call[t].pc \in {"cancel", "schedule"}
      /\ call[t].h \in DOMAIN entry =>
           \A u \in Tid : serial[u] = entry[call[t].h] => ~Alive(u)

(* A thread's entry in the table leads to that thread and to its exit      *)
(* code, through creation, registration, exit, termination and closing:    *)
(* the entries in every circumstance, the other parts in those they name.  *)
TableMatchesThreads == ExitCodesAreKept /\ OneEntryPerThread /\ OnlyTheDeadCrash

(* EnterCriticalSection and LeaveCriticalSection: one thread at a time is  *)
(* inside, as often as it entered and has not left, also when others call  *)
(* LeaveCriticalSection without having entered and when threads are ended. *)
CriticalSectionExcludes ==
  \A s \in Serial : inside[s] = IF cs.owner = s THEN cs.count ELSE 0

(* A thread stays in EnterCriticalSection for ever only while another one  *)
(* is inside for ever: one that does not leave, or that was ended inside.  *)
EntersUnlessKept ==
  \A t \in Tid :
    <>[](At(t, "enter")) => <>[](crashed \/ cs.owner \notin {NoSerial, serial[t]})

(* Every other function returns, or the thread or the program ends; only a *)
(* full table makes new_key_get look for ever.                             *)
OthersReturn ==
  \A t \in Tid : call[t].pc # "idle" ~>
    \/ call[t].pc \in {"idle", "enter"} \/ crashed
    \/ DOMAIN map = MinInt..MaxInt

(* No function of process.cpp, processthreadsapi.cpp or the critical       *)
(* sections keeps a thread for ever without somebody else's doing.         *)
CallsReturn == EntersUnlessKept /\ OthersReturn

=============================================================================
