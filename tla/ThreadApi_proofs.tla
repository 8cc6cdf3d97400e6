-------------------------- MODULE ThreadApi_proofs --------------------------
(***************************************************************************)
(* Proofs about threads and critical sections, for any number of           *)
(* pthread_ts, threads and calls.  In every circumstance: the types,       *)
(* mutual exclusion, and which threads are registered twice in the handle  *)
(* table.  For callers that wait for each other: an entry leads to its     *)
(* thread and to its exit code, and which threads are touched.             *)
(***************************************************************************)
EXTENDS ThreadApi, FiniteSetTheorems, TLAPS

-----------------------------------------------------------------------------
(* What holds in every circumstance.                                       *)

(* The function that a place belongs to; CreateThread has no handle yet    *)
(* before it registers the thread.                                         *)
InFunction(t) ==
  LET p == call[t].pc  f == call[t].op
  IN  /\ p \in {"start", "register", "detach", "activate"} => f = "CreateThread"
      /\ p \in {"start", "register"} => call[t].h = NULL
      /\ p = "store" => f \in {"ExitThread", "TerminateThread"}
      /\ p = "exit" => f = "ExitThread"
      /\ p = "find" => f \in {"GetCurrentThreadId", "GetCurrentThread"}
      /\ p = "register_self" => f = "GetCurrentThreadId"
      /\ p = "lookup" => f \in OnHandle \cup {"CreateThread"}
      /\ p = "cancel" => f \in {"SuspendThread", "TerminateThread"}
      /\ p = "schedule" => f \in {"SetThreadPriority", "GetThreadPriority"}
      /\ p = "schedule" /\ f = "SetThreadPriority" => call[t].tid # Zero
      /\ p = "read" => f = "GetExitCodeThread"
      /\ p = "erase" => f = "CloseHandle"
      /\ p = "enter" => f = "EnterCriticalSection"

(* Whoever is starting a thread, before it is registered and detached. *)
Making(t) == call[t].pc \in {"register", "detach"}

ThreadsFit ==
  \A t \in Tid :
    /\ InFunction(t)
    /\ life[t] # "none" => serial[t] # NoSerial
    /\ ~Alive(t) => call[t] = Idle
    /\ call[t].made \in Tid => call[t].op = "CreateThread" /\ call[t].pc \notin {"idle", "start"}
    /\ Making(t) => /\ call[t].made \in Tid \ {Main}
                    /\ life[call[t].made] # "none" /\ ~detached[call[t].made]
                    /\ \A u \in Tid : Making(u) /\ call[u].made = call[t].made => u = t

(* The first thread's pthread_t is never given to another. *)
MainStays == serial[Main] = 1 /\ life[Main] # "none" /\ ~detached[Main]

(* Serial numbers are given out in order, so the next one is new. *)
Latest(m) ==
  /\ \A t \in Tid : serial[t] <= m
  /\ \E t \in Tid : serial[t] = m
  /\ \A k \in DOMAIN entry : entry[k] <= m
  /\ \A s \in Serial : s > m => said[s] = Zero

SerialsDiffer ==
  \A t, u \in Tid : serial[t] = serial[u] /\ serial[t] # NoSerial => t = u

EntriesFit ==
  \A k \in DOMAIN map :
    /\ map[k].type = "THREAD" /\ map[k].word \in Tid
    /\ \A t \in Tid : serial[t] = entry[k] => map[k].word = t

BaseInv ==
  /\ TypeOK
  /\ cs \in [state : {"raw", "live", "deleted"}, owner : Serial \cup {NoSerial}, count : Nat]
  /\ ThreadsFit
  /\ MainStays
  /\ \E m \in Serial : Latest(m)
  /\ SerialsDiffer
  /\ EntriesFit
  /\ NULL \notin given

-----------------------------------------------------------------------------
(* Frames: what the ways of changing call do.                              *)

Others(t) == \A u \in Tid \ {t} : call'[u] = call[u]

LEMMA IdleFrame ==
  /\ Idle \in Frame
  /\ Idle.pc = "idle" /\ Idle.op = "CloseHandle" /\ Idle.h = NULL /\ Idle.tid = Zero
  /\ Idle.code = Zero /\ Idle.made = Zero /\ Idle.wantsId = FALSE
BY ThreadAssumption DEF Idle, Frame, Places, OnHandle, OnSelf, Word, NULL

LEMMA SetCall ==
  ASSUME call \in [Tid -> Frame], NEW t \in Tid, NEW f \in Frame, call' = [call EXCEPT ![t] = f]
  PROVE  call' \in [Tid -> Frame] /\ call'[t] = f /\ Others(t)
BY DEF Others

(* On to another place, with everything else as it was. *)
GoesTo(t, place) ==
  /\ call'[t].pc = place /\ call'[t].op = call[t].op /\ call'[t].h = call[t].h
  /\ call'[t].tid = call[t].tid /\ call'[t].code = call[t].code
  /\ call'[t].made = call[t].made /\ call'[t].wantsId = call[t].wantsId

LEMMA GotoCall ==
  ASSUME call \in [Tid -> Frame], NEW t \in Tid, NEW place \in Places, Goto(t, place)
  PROVE  call' \in [Tid -> Frame] /\ GoesTo(t, place) /\ Others(t)
<1>1. call' = [call EXCEPT ![t] = [call[t] EXCEPT !.pc = place]]
  BY DEF Goto
<1> DEFINE f == [call[t] EXCEPT !.pc = place]
<1>2. call[t] \in Frame
  OBVIOUS
<1>3. /\ f \in Frame /\ f.pc = place /\ f.op = call[t].op /\ f.h = call[t].h /\ f.tid = call[t].tid
      /\ f.code = call[t].code /\ f.made = call[t].made /\ f.wantsId = call[t].wantsId
  BY <1>2 DEF Frame
<1> HIDE DEF f
<1>4. call' = [call EXCEPT ![t] = f]
  BY <1>1 DEF f
<1> QED BY <1>3, <1>4, SetCall DEF GoesTo

LEMMA DoneCall ==
  ASSUME call \in [Tid -> Frame], NEW t \in Tid, Done(t)
  PROVE  call' \in [Tid -> Frame] /\ call'[t] = Idle /\ Others(t)
BY IdleFrame, SetCall DEF Done

LEMMA ReturnCall ==
  ASSUME call \in [Tid -> Frame], NEW t \in Tid, NEW place \in Places, Return(t, place)
  PROVE  /\ call' \in [Tid -> Frame] /\ Others(t)
         /\ place = "idle" => call'[t] = Idle
         /\ place # "idle" => GoesTo(t, place)
BY DoneCall, GotoCall DEF Return

-----------------------------------------------------------------------------
(* A step of t keeps BaseInv if what it does to t's own locals, to the     *)
(* threads and to the table is in order.                                   *)

CsFits == /\ cs \in [state : {"raw", "live", "deleted"}, owner : Serial \cup {NoSerial}, count : Nat]
          /\ (cs.owner = NoSerial) = (cs.count = 0)
MadeFits(t) ==
  call[t].made \in Tid => call[t].op = "CreateThread" /\ call[t].pc \notin {"idle", "start"}

LocalStep(t) ==
  /\ UNCHANGED setting
  /\ prio' \in [Tid -> BOOLEAN]
  /\ call' \in [Tid -> Frame] /\ Others(t)
  /\ CsFits'
  /\ crashed' \in BOOLEAN /\ calls' \in 0..MaxCalls
  /\ given' \subseteq MinInt..MaxInt /\ NULL \notin given'
  /\ named' \subseteq Serial /\ inside' \in [Serial -> Nat] /\ missed' \subseteq Serial
  /\ InFunction(t)' /\ MadeFits(t)'

KernelTypes ==
  /\ life \in [Tid -> {"none", "running", "cancelled", "gone"}]
  /\ detached \in [Tid -> BOOLEAN]
  /\ serial \in [Tid -> Serial \cup {NoSerial}]

KernelStep(t) ==
  /\ KernelTypes'
  /\ \A u \in Tid : life'[u] # "none" => serial'[u] # NoSerial
  /\ \A u \in Tid \ {t} : Alive(u) => Alive(u)'
  /\ Alive(t)' \/ call'[t] = Idle
  /\ \A u \in Tid \ {t} :
       Making(u) => life'[call[u].made] # "none" /\ ~detached'[call[u].made]
  /\ Making(t)' => /\ call'[t].made \in Tid \ {Main}
                   /\ life'[call'[t].made] # "none" /\ ~detached'[call'[t].made]
                   /\ \A u \in Tid \ {t} : Making(u) => call[u].made # call'[t].made
  /\ MainStays' /\ SerialsDiffer'

TableFits ==
  /\ H!TypeOK
  /\ DOMAIN entry = DOMAIN map
  /\ \A k \in DOMAIN entry : entry[k] \in Serial
  /\ said \in [Serial -> Word]
  /\ \E m \in Serial : Latest(m)
  /\ EntriesFit

LEMMA BaseParts ==
  ASSUME BaseInv
  PROVE  /\ setting \in Settings /\ prio \in [Tid -> BOOLEAN] /\ call \in [Tid -> Frame]
         /\ CsFits /\ crashed \in BOOLEAN /\ calls \in 0..MaxCalls
         /\ given \subseteq MinInt..MaxInt /\ NULL \notin given
         /\ named \subseteq Serial /\ inside \in [Serial -> Nat] /\ missed \subseteq Serial
         /\ KernelTypes /\ ThreadsFit /\ MainStays /\ SerialsDiffer /\ TableFits
BY DEF BaseInv, TypeOK, CsFits, KernelTypes, TableFits

LEMMA StepKeepsBase ==
  ASSUME BaseInv, NEW t \in Tid, LocalStep(t), KernelStep(t), TableFits'
  PROVE  BaseInv'
<1>1. TypeOK'
  BY BaseParts DEF LocalStep, KernelStep, KernelTypes, TableFits, TypeOK, CsFits
<1>2. ThreadsFit'
  <2> SUFFICES ASSUME NEW u \in Tid
               PROVE  /\ InFunction(u)'
                      /\ life'[u] # "none" => serial'[u] # NoSerial
                      /\ ~Alive(u)' => call'[u] = Idle
                      /\ MadeFits(u)'
                      /\ Making(u)' => /\ call'[u].made \in Tid \ {Main}
                                       /\ life'[call'[u].made] # "none" /\ ~detached'[call'[u].made]
                                       /\ \A v \in Tid : Making(v)' /\ call'[v].made = call'[u].made => v = u
    BY DEF ThreadsFit, MadeFits
  <2>1. CASE u = t
    BY <2>1 DEF LocalStep, KernelStep, Others, Making, Alive
  <2>2. CASE u # t
    <3>1. call'[u] = call[u]
      BY <2>2 DEF LocalStep, Others
    <3>2. InFunction(u)' /\ MadeFits(u)'
      BY <3>1, BaseParts DEF ThreadsFit, InFunction, MadeFits
    <3>3. ~Alive(u)' => call'[u] = Idle
      BY <3>1, <2>2, BaseParts DEF KernelStep, ThreadsFit
    <3>4. ASSUME Making(u)'
          PROVE  /\ call'[u].made \in Tid \ {Main}
                 /\ life'[call'[u].made] # "none" /\ ~detached'[call'[u].made]
                 /\ \A v \in Tid : Making(v)' /\ call'[v].made = call'[u].made => v = u
      <4>1. Making(u)
        BY <3>1, <3>4 DEF Making
      <4>2. /\ call[u].made \in Tid \ {Main}
            /\ \A v \in Tid : Making(v) /\ call[v].made = call[u].made => v = u
        BY <4>1, BaseParts DEF ThreadsFit
      <4>3. ASSUME NEW v \in Tid, Making(v)', call'[v].made = call'[u].made
            PROVE  v = u
        <5>1. CASE v = t
          BY <5>1, <4>3, <4>1, <3>1, <2>2 DEF KernelStep
        <5>2. CASE v # t
          BY <5>2, <4>3, <4>2, <3>1 DEF Making, LocalStep, Others
        <5> QED BY <5>1, <5>2
      <4> QED BY <4>1, <4>2, <4>3, <3>1, <2>2 DEF KernelStep
    <3> QED BY <3>2, <3>3, <3>4 DEF KernelStep
  <2> QED BY <2>1, <2>2
<1> QED BY <1>1, <1>2 DEF BaseInv, LocalStep, KernelStep, TableFits, CsFits

(* The threads stay as they are, and t starts none. *)
LEMMA SameKernel ==
  ASSUME BaseInv, NEW t \in Tid, Alive(t), UNCHANGED <<life, detached, serial>>, Others(t),
         Making(t)' => Making(t) /\ call'[t].made = call[t].made
  PROVE  KernelStep(t)
<1> USE BaseParts
<1>1. KernelTypes' /\ MainStays' /\ SerialsDiffer'
  BY DEF KernelTypes, MainStays, SerialsDiffer
<1>2. \A u \in Tid : life'[u] # "none" => serial'[u] # NoSerial
  BY DEF ThreadsFit
<1>3. (\A u \in Tid : Alive(u) => Alive(u)') /\ Alive(t)'
  BY DEF Alive
<1>4. \A u \in Tid \ {t} :
        Making(u) => life'[call[u].made] # "none" /\ ~detached'[call[u].made]
  BY DEF ThreadsFit
<1>5. Making(t)' => /\ call'[t].made \in Tid \ {Main}
                   /\ life'[call'[t].made] # "none" /\ ~detached'[call'[t].made]
                   /\ \A u \in Tid \ {t} : Making(u) => call[u].made # call'[t].made
  BY DEF ThreadsFit
<1> QED BY <1>1, <1>2, <1>3, <1>4, <1>5 DEF KernelStep

LEMMA SameTable ==
  ASSUME BaseInv, UNCHANGED <<map, entry, said, serial>>
  PROVE  TableFits'
<1>1. TableFits
  BY BaseParts
<1>2. PICK m \in Serial : Latest(m)
  BY <1>1 DEF TableFits
<1>3. Latest(m)'
  BY <1>2 DEF Latest
<1>4. EntriesFit'
  BY <1>1 DEF TableFits, EntriesFit
<1> QED BY <1>1, <1>3, <1>4 DEF TableFits, H!TypeOK

-----------------------------------------------------------------------------
(* The actions, one by one: first those that leave threads and table alone.*)

(* The frame of a new call: no thread made yet, at a first place of its function. *)
NewFrame(f) ==
  /\ f \in Frame /\ f.made = Zero
  /\ \/ f.pc = "start" /\ f.op = "CreateThread" /\ f.h = NULL
     \/ f.pc = "store" /\ f.op = "ExitThread"
     \/ f.pc = "find" /\ f.op \in {"GetCurrentThreadId", "GetCurrentThread"}
     \/ f.pc = "lookup" /\ f.op \in OnHandle
     \/ f.pc = "enter" /\ f.op = "EnterCriticalSection"

LEMMA NewFrames ==
  /\ \A b \in BOOLEAN :
       LET f == [Idle EXCEPT !.op = "CreateThread", !.pc = "start", !.wantsId = b]
       IN  NewFrame(f) /\ f.pc = "start" /\ f.h = NULL
  /\ \A c \in Codes :
       LET f == [Idle EXCEPT !.op = "ExitThread", !.pc = "store", !.code = c]
       IN  NewFrame(f) /\ f.pc = "store"
  /\ \A o \in {"GetCurrentThreadId", "GetCurrentThread"} :
       LET f == [Idle EXCEPT !.op = o, !.pc = "find"]
       IN  NewFrame(f) /\ f.op = o /\ f.pc = "find"
  /\ \A o \in OnHandle, k \in MinInt..MaxInt, c \in Codes \cup {Zero} :
       LET f == [Idle EXCEPT !.op = o, !.pc = "lookup", !.h = k, !.code = c]
       IN  NewFrame(f) /\ f.op = o /\ f.pc = "lookup" /\ f.h = k
  /\ LET f == [Idle EXCEPT !.op = "EnterCriticalSection", !.pc = "enter"]
     IN  NewFrame(f) /\ f.pc = "enter"
<1> USE IdleFrame DEF NewFrame, Frame
<1>1. ASSUME NEW b \in BOOLEAN
      PROVE  LET f == [Idle EXCEPT !.op = "CreateThread", !.pc = "start", !.wantsId = b]
             IN  NewFrame(f) /\ f.pc = "start" /\ f.h = NULL
  BY DEF Places, OnSelf
<1>2. ASSUME NEW c \in Codes
      PROVE  LET f == [Idle EXCEPT !.op = "ExitThread", !.pc = "store", !.code = c]
             IN  NewFrame(f) /\ f.pc = "store"
  BY DEF Places, OnSelf, Word
<1>3. ASSUME NEW o \in {"GetCurrentThreadId", "GetCurrentThread"}
      PROVE  LET f == [Idle EXCEPT !.op = o, !.pc = "find"]
             IN  NewFrame(f) /\ f.op = o /\ f.pc = "find"
  BY DEF Places, OnSelf
<1>4. ASSUME NEW o \in OnHandle, NEW k \in MinInt..MaxInt, NEW c \in Codes \cup {Zero}
      PROVE  LET f == [Idle EXCEPT !.op = o, !.pc = "lookup", !.h = k, !.code = c]
             IN  NewFrame(f) /\ f.op = o /\ f.pc = "lookup" /\ f.h = k
  BY DEF Places, Word
<1>5. LET f == [Idle EXCEPT !.op = "EnterCriticalSection", !.pc = "enter"]
      IN  NewFrame(f) /\ f.pc = "enter"
  BY DEF Places, OnSelf
<1> QED BY <1>1, <1>2, <1>3, <1>4, <1>5

(* What a call does: its frame, and what it is given. *)
CallStep(t, f) ==
  /\ NewFrame(f) /\ Begin(t, f)
  /\ f.pc = "lookup" => f.h \in given \cup {NULL}
  /\ given' \subseteq given /\ named \subseteq named' /\ named' \subseteq Serial

LEMMA CallFrame ==
  ASSUME BaseInv, NEW t \in Tid, NEW f, CallStep(t, f)
  PROVE  /\ call' \in [Tid -> Frame] /\ call'[t] = f /\ Others(t)
         /\ InFunction(t)' /\ MadeFits(t)' /\ ~Making(t)'
<1>1. /\ call \in [Tid -> Frame] /\ f \in Frame /\ call' = [call EXCEPT ![t] = f]
  BY BaseParts DEF CallStep, Begin, NewFrame
<1>2. call' \in [Tid -> Frame] /\ call'[t] = f /\ Others(t)
  BY <1>1, SetCall
<1>3. f.made \notin Tid
  BY ThreadAssumption DEF CallStep, NewFrame
<1>4. InFunction(t)' /\ ~Making(t)'
  BY <1>2 DEF CallStep, NewFrame, InFunction, Making
<1> QED BY <1>2, <1>3, <1>4 DEF MadeFits

LEMMA CallKeepsBase ==
  ASSUME BaseInv, NEW t \in Tid, Alive(t), NEW f, CallStep(t, f)
  PROVE  BaseInv'
<1> USE BaseParts
<1>1. UNCHANGED <<life, detached, serial, map, entry, said, setting, prio, cs, crashed, inside, missed>>
  BY DEF CallStep, Begin, kernel
<1>2. calls' \in 0..MaxCalls
  BY ThreadAssumption DEF CallStep, Begin
<1>3. LocalStep(t)
  BY <1>1, <1>2, CallFrame DEF CallStep, LocalStep, CsFits
<1>4. KernelStep(t)
  BY <1>1, CallFrame, SameKernel
<1> QED BY <1>1, <1>3, <1>4, SameTable, StepKeepsBase

LEMMA CallsStep ==
  ASSUME BaseInv, NEW t \in Tid, Call(t) \/ EnterCriticalSection(t)
  PROVE  \E f \in Frame : CallStep(t, f)
<1>1. ASSUME NEW b \in BOOLEAN, CallCreateThread(t, b) PROVE \E f \in Frame : CallStep(t, f)
  <2> DEFINE f == [Idle EXCEPT !.op = "CreateThread", !.pc = "start", !.wantsId = b]
  <2>1. NewFrame(f) /\ f.pc = "start"
    BY NewFrames
  <2>2. Begin(t, f) /\ UNCHANGED <<given, named>>
    BY <1>1 DEF CallCreateThread
  <2> HIDE DEF f
  <2> QED BY <2>1, <2>2, BaseParts DEF CallStep, NewFrame
<1>2. ASSUME NEW c \in Codes, CallExitThread(t, c) PROVE \E f \in Frame : CallStep(t, f)
  <2> DEFINE f == [Idle EXCEPT !.op = "ExitThread", !.pc = "store", !.code = c]
  <2>1. NewFrame(f) /\ f.pc = "store"
    BY NewFrames
  <2>2. Begin(t, f) /\ UNCHANGED <<given, named>>
    BY <1>2 DEF CallExitThread
  <2> HIDE DEF f
  <2> QED BY <2>1, <2>2, BaseParts DEF CallStep, NewFrame
<1>3. ASSUME NEW o \in OnSelf, CallGetCurrentThread(t, o) PROVE \E f \in Frame : CallStep(t, f)
  <2> DEFINE f == [Idle EXCEPT !.op = o, !.pc = "find"]
  <2>1. NewFrame(f) /\ f.pc = "find"
    BY <1>3, NewFrames DEF CallGetCurrentThread
  <2>2. Begin(t, f) /\ UNCHANGED <<given, named>>
    BY <1>3 DEF CallGetCurrentThread
  <2> HIDE DEF f
  <2> QED BY <2>1, <2>2, BaseParts DEF CallStep, NewFrame
<1>4. ASSUME NEW k \in MinInt..MaxInt, NEW o \in OnHandle, NEW c \in Codes \cup {Zero},
             CallOnHandle(t, o, k, c)
      PROVE  \E f \in Frame : CallStep(t, f)
  <2> DEFINE f == [Idle EXCEPT !.op = o, !.pc = "lookup", !.h = k, !.code = c]
  <2>1. NewFrame(f)
    BY <1>4, NewFrames
  <2>0. f.h = k
    BY IdleFrame DEF Frame
  <2>2. Begin(t, f) /\ given' \subseteq given /\ k \in given \cup {NULL}
    BY <1>4 DEF CallOnHandle
  <2>3. named \subseteq named' /\ named' \subseteq Serial
    BY <1>4, BaseParts DEF CallOnHandle, TableFits
  <2> HIDE DEF f
  <2> QED BY <2>0, <2>1, <2>2, <2>3 DEF CallStep, NewFrame
<1>5. ASSUME EnterCriticalSection(t) PROVE \E f \in Frame : CallStep(t, f)
  <2> DEFINE f == [Idle EXCEPT !.op = "EnterCriticalSection", !.pc = "enter"]
  <2>1. NewFrame(f) /\ f.pc = "enter"
    BY NewFrames
  <2>2. Begin(t, f) /\ UNCHANGED <<given, named>>
    BY <1>5 DEF EnterCriticalSection
  <2> HIDE DEF f
  <2> QED BY <2>1, <2>2, BaseParts DEF CallStep, NewFrame
<1> QED BY <1>1, <1>2, <1>3, <1>4, <1>5 DEF Call, OnHandle, Acting

(* The actions that change only t's frame, and what the caller has. *)
LEMMA FrameKeepsBase ==
  ASSUME BaseInv, NEW t \in Tid, Alive(t),
         UNCHANGED <<setting, map, life, detached, serial, cs, crashed, calls, entry, said, named, inside>>,
         missed' \subseteq Serial,
         prio' \in [Tid -> BOOLEAN], given' \subseteq MinInt..MaxInt, NULL \notin given',
         call' \in [Tid -> Frame], Others(t), InFunction(t)', MadeFits(t)',
         Making(t)' => Making(t) /\ call'[t].made = call[t].made
  PROVE  BaseInv'
<1> USE BaseParts
<1>1. LocalStep(t)
  BY DEF LocalStep, CsFits
<1>2. KernelStep(t)
  BY SameKernel
<1>3. TableFits'
  BY SameTable
<1> QED BY <1>1, <1>2, <1>3, StepKeepsBase

(* Whoever returns has an idle frame. *)
LEMMA IdleFits ==
  ASSUME NEW t \in Tid, call'[t] = Idle
  PROVE  InFunction(t)' /\ MadeFits(t)' /\ ~Making(t)'
BY IdleFrame, ThreadAssumption DEF InFunction, MadeFits, Making

LEMMA ThrowsKeepsBase ==
  ASSUME BaseInv, NEW t \in Tid, Alive(t), Beginthread_throws(t)
  PROVE  BaseInv'
<1> DEFINE place == IF call[t].wantsId THEN "lookup" ELSE "idle"
<1>1. /\ UNCHANGED <<setting, map, life, detached, serial, prio, cs, crashed, calls, given, history>>
      /\ Return(t, place) /\ place \in Places /\ At(t, "start")
  BY DEF Beginthread_throws, kernel, Places
<1>2. /\ call' \in [Tid -> Frame] /\ Others(t)
      /\ place = "idle" => call'[t] = Idle
      /\ place # "idle" => GoesTo(t, place)
  BY <1>1, ReturnCall, BaseParts
<1>3. call[t].op = "CreateThread" /\ call[t].made \notin Tid
  BY <1>1, BaseParts DEF At, ThreadsFit, InFunction
<1>4. InFunction(t)' /\ MadeFits(t)' /\ ~Making(t)'
  <2>1. CASE place = "idle"
    BY <2>1, <1>2, IdleFits
  <2>2. CASE place = "lookup"
    BY <2>2, <1>2, <1>3 DEF GoesTo, InFunction, MadeFits, Making
  <2> QED BY <2>1, <2>2
<1> QED BY <1>1, <1>2, <1>4, BaseParts, FrameKeepsBase DEF history

LEMMA FoundKeys ==
  ASSUME BaseInv, NEW t \in Tid, NEW k \in H!find_thread_by_tid(t)
  PROVE  /\ k \in MinInt..MaxInt
         /\ k # NULL => k \in DOMAIN map /\ map[k].word = t
         /\ k = NULL => NULL \in DOMAIN map \/ \A j \in DOMAIN map : map[j].word # t
<1>1. TableFits
  BY BaseParts
<1>2. DOMAIN map \subseteq MinInt..MaxInt
  BY <1>1 DEF TableFits, H!TypeOK, H!Key
<1>3. \A j \in DOMAIN map : map[j].type = "THREAD"
  BY <1>1 DEF TableFits, EntriesFit
<1>4. NULL \in MinInt..MaxInt
  BY ThreadAssumption DEF NULL
<1>5. H!NULL = NULL
  BY DEF H!NULL, NULL
<1> DEFINE S == H!WithWord("THREAD", t)
<1>6. S = {h \in DOMAIN map : map[h].type = "THREAD" /\ map[h].word = t}
  BY DEF H!WithWord
<1>7. k \in IF S = {} THEN {NULL} ELSE S
  BY <1>5 DEF H!find_thread_by_tid, H!FoundIn
<1> HIDE DEF S
<1> QED BY <1>2, <1>3, <1>4, <1>6, <1>7

LEMMA AliveHasSerial ==
  ASSUME BaseInv, NEW t \in Tid, Alive(t)
  PROVE  serial[t] \in Serial
BY BaseParts DEF KernelTypes, ThreadsFit, Alive

LEMMA FindKeepsBase ==
  ASSUME BaseInv, NEW t \in Tid, Alive(t), FindCurrentThread(t)
  PROVE  BaseInv'
<1>1. /\ UNCHANGED <<setting, map, life, detached, serial, prio, cs, crashed, calls, entry, said, named, inside>>
      /\ At(t, "find")
  BY DEF FindCurrentThread, kernel
<1>0. missed' \subseteq Serial
  BY AliveHasSerial, BaseParts DEF FindCurrentThread
<1>2. PICK k \in H!find_thread_by_tid(t) :
        /\ given' = (given \cup {k}) \ {NULL}
        /\ Return(t, IF k = NULL /\ call[t].op = "GetCurrentThreadId"
                     THEN "register_self" ELSE "idle")
  BY DEF FindCurrentThread
<1> DEFINE place == IF k = NULL /\ call[t].op = "GetCurrentThreadId"
                    THEN "register_self" ELSE "idle"
<1>3. place \in Places
  BY DEF Places
<1>4. given' \subseteq MinInt..MaxInt /\ NULL \notin given'
  BY <1>2, FoundKeys, BaseParts
<1>5. /\ call' \in [Tid -> Frame] /\ Others(t)
      /\ place = "idle" => call'[t] = Idle
      /\ place # "idle" => GoesTo(t, place)
  BY <1>2, <1>3, ReturnCall, BaseParts
<1>6. call[t].made \notin Tid
  BY <1>1, BaseParts DEF At, ThreadsFit, InFunction
<1>7. InFunction(t)' /\ MadeFits(t)' /\ ~Making(t)'
  <2>1. CASE place = "idle"
    BY <2>1, <1>5, IdleFits
  <2>2. CASE place # "idle"
    BY <2>2, <1>5, <1>6 DEF GoesTo, InFunction, MadeFits, Making
  <2> QED BY <2>1, <2>2
<1> QED BY <1>0, <1>1, <1>4, <1>5, <1>7, BaseParts, FrameKeepsBase

LEMMA TidIsWord ==
  ASSUME BaseInv, NEW k
  PROVE  get_thread_tid(k) \in Word
<1>1. \A j \in DOMAIN map : map[j].word \in Tid
  BY BaseParts DEF TableFits, EntriesFit
<1>2. H!Field(k, "word", Zero) \in Tid \cup {Zero}
  BY <1>1 DEF H!Field
<1> QED BY <1>2 DEF get_thread_tid, AsInt, Word

(* What Lookup leaves in t's frame. *)
LooksUp(t, found, place) ==
  /\ call'[t].pc = place /\ call'[t].op = call[t].op /\ call'[t].h = call[t].h
  /\ call'[t].tid = found /\ call'[t].made = call[t].made

LEMMA LookupFrame ==
  ASSUME BaseInv, NEW t \in Tid, Lookup(t)
  PROVE  LET found == get_thread_tid(call[t].h)
             place == AfterLookup(call[t].op, found)
         IN  /\ call' \in [Tid -> Frame] /\ Others(t)
             /\ place = "idle" => call'[t] = Idle
             /\ place # "idle" => LooksUp(t, found, place)
             /\ place \in Places \ {"start", "register", "detach", "find", "register_self",
                                    "lookup", "store", "exit", "enter"}
             /\ UNCHANGED <<setting, map, kernel, cs, crashed, calls, given, history>>
             /\ At(t, "lookup")
<1> DEFINE found == get_thread_tid(call[t].h)
           place == AfterLookup(call[t].op, found)
<1>1. /\ UNCHANGED <<setting, map, kernel, cs, crashed, calls, given, history>>
      /\ At(t, "lookup")
      /\ IF place = "idle" THEN Done(t)
         ELSE call' = [call EXCEPT ![t].tid = found, ![t].pc = place]
  BY DEF Lookup
<1>2. found \in Word
  BY TidIsWord
<1>3. place \in {"activate", "erase", "idle", "cancel", "read", "schedule"}
  BY DEF AfterLookup
<1> HIDE DEF found, place
<1>4. CASE place = "idle"
  BY <1>1, <1>3, <1>4, DoneCall, BaseParts DEF Places, found, place
<1>5. CASE place # "idle"
  <2>1. call[t] \in Frame
    BY BaseParts
  <2> DEFINE f == [call[t] EXCEPT !.tid = found, !.pc = place]
  <2>2. f \in Frame /\ f.pc = place /\ f.op = call[t].op /\ f.h = call[t].h /\ f.tid = found
        /\ f.made = call[t].made
    BY <2>1, <1>2, <1>3 DEF Frame, Places
  <2>3. call' = [call EXCEPT ![t] = f]
    BY <1>1, <1>5, BaseParts
  <2> HIDE DEF f
  <2>4. call' \in [Tid -> Frame] /\ Others(t) /\ LooksUp(t, found, place)
    BY <2>2, <2>3, SetCall, BaseParts DEF LooksUp
  <2> QED BY <2>4, <1>1, <1>3, <1>5 DEF Places, found, place
<1> QED BY <1>4, <1>5

LEMMA LookupKeepsBase ==
  ASSUME BaseInv, NEW t \in Tid, Alive(t), Lookup(t)
  PROVE  BaseInv'
<1> DEFINE found == get_thread_tid(call[t].h)
           place == AfterLookup(call[t].op, found)
<1>1. /\ call' \in [Tid -> Frame] /\ Others(t)
      /\ place = "idle" => call'[t] = Idle
      /\ place # "idle" => LooksUp(t, found, place)
      /\ UNCHANGED <<setting, map, life, detached, serial, prio, cs, crashed, calls, given, history>>
      /\ At(t, "lookup")
  BY LookupFrame DEF kernel
<1>2. /\ InFunction(t) /\ MadeFits(t)
  BY BaseParts DEF ThreadsFit, MadeFits
<1>3. InFunction(t)' /\ MadeFits(t)' /\ ~Making(t)'
  <2>1. CASE place = "idle"
    BY <2>1, <1>1, IdleFits
  <2>2. CASE place # "idle"
    BY <2>2, <1>1, <1>2
       DEF LooksUp, AfterLookup, InFunction, MadeFits, Making, At, OnHandle, Acting
  <2> QED BY <2>1, <2>2
<1> HIDE DEF found, place
<1> QED BY <1>1, <1>3, BaseParts, FrameKeepsBase DEF history

LEMMA FinishKeepsBase ==
  ASSUME BaseInv, NEW t \in Tid, Alive(t),
         SetThreadPriority_set(t) \/ GetExitCodeThread_read(t)
  PROVE  BaseInv'
<1>1. /\ UNCHANGED <<setting, map, life, detached, serial, cs, crashed, calls, given, history>>
      /\ Done(t)
  BY DEF SetThreadPriority_set, GetExitCodeThread_read, kernel
<1>2. prio' \in [Tid -> BOOLEAN]
  BY BaseParts, Zenon DEF SetThreadPriority_set, GetExitCodeThread_read, kernel
<1>3. call' \in [Tid -> Frame] /\ call'[t] = Idle /\ Others(t)
  BY <1>1, BaseParts, DoneCall
<1> QED BY <1>1, <1>2, <1>3, IdleFits, BaseParts, FrameKeepsBase DEF history

(* The critical sections, and the crashes. *)
LEMMA SectionKeepsBase ==
  ASSUME BaseInv, NEW t \in Tid, Alive(t), UNCHANGED Private,
         call' = call \/ call'[t] = Idle, call' \in [Tid -> Frame], Others(t),
         CsFits', crashed' \in BOOLEAN, inside' \in [Serial -> Nat]
  PROVE  BaseInv'
<1> USE BaseParts
<1>1. UNCHANGED <<setting, map, life, detached, serial, prio, calls, given, entry, said, named, missed>>
  BY DEF Private, kernel
<1>2. InFunction(t)' /\ MadeFits(t)' /\ (Making(t)' => Making(t) /\ call'[t].made = call[t].made)
  <2>1. CASE call' = call
    BY <2>1 DEF ThreadsFit, InFunction, MadeFits, Making
  <2>2. CASE call'[t] = Idle
    BY <2>2, IdleFits
  <2> QED BY <2>1, <2>2
<1>3. LocalStep(t)
  BY <1>1, <1>2 DEF LocalStep
<1>4. KernelStep(t)
  BY <1>1, <1>2, SameKernel
<1> QED BY <1>1, <1>3, <1>4, SameTable, StepKeepsBase

LEMMA SetSection ==
  ASSUME CsFits, NEW o \in Serial \cup {NoSerial}, NEW n \in Nat,
         cs' = [cs EXCEPT !.owner = o, !.count = n]
  PROVE  /\ cs' \in [state : {"raw", "live", "deleted"}, owner : Serial \cup {NoSerial}, count : Nat]
         /\ cs'.state = cs.state /\ cs'.owner = o /\ cs'.count = n
BY DEF CsFits

LEMMA SectionsKeepBase ==
  ASSUME BaseInv, NEW t \in Tid, Alive(t),
         \/ InitializeCriticalSection(t) \/ DeleteCriticalSection(t)
         \/ Lock(t) \/ LeaveCriticalSection(t) \/ UseAfterDelete(t) \/ PthreadCrashes(t)
  PROVE  BaseInv'
<1>0. /\ serial[t] \in Serial /\ NoSerial \notin Serial /\ inside \in [Serial -> Nat]
      /\ crashed \in BOOLEAN /\ CsFits /\ call \in [Tid -> Frame]
      /\ cs \in [state : {"raw", "live", "deleted"}, owner : Serial \cup {NoSerial}, count : Nat]
  BY AliveHasSerial, BaseParts DEF CsFits, Serial, NoSerial
<1>1. CASE InitializeCriticalSection(t)
  <2>1. CsFits'
    BY <1>0, <1>1 DEF InitializeCriticalSection, CsFits
  <2> QED BY <1>0, <1>1, <2>1, SectionKeepsBase DEF InitializeCriticalSection, Others
<1>2. CASE DeleteCriticalSection(t)
  <2>1. CsFits'
    BY <1>0, <1>2 DEF DeleteCriticalSection, CsFits
  <2> QED BY <1>0, <1>2, <2>1, SectionKeepsBase DEF DeleteCriticalSection, Others
<1>3. CASE Lock(t)
  <2>1. CsFits'
    <3>1. /\ cs'.state = cs.state /\ cs'.owner = serial[t] /\ cs'.count = cs.count + 1
          /\ cs' \in [state : {"raw", "live", "deleted"}, owner : Serial \cup {NoSerial}, count : Nat]
      <4>1. cs' = [cs EXCEPT !.owner = serial[t], !.count = cs.count + 1]
        BY <1>3 DEF Lock
      <4>2. cs.count + 1 \in Nat
        BY <1>0
      <4> QED BY <1>0, <4>1, <4>2, SetSection
    <3>2. cs'.owner # NoSerial /\ cs'.count # 0
      BY <1>0, <3>1 DEF Serial, NoSerial
    <3> QED BY <3>1, <3>2 DEF CsFits
  <2>2. call' \in [Tid -> Frame] /\ call'[t] = Idle /\ Others(t)
    BY <1>0, <1>3, DoneCall DEF Lock
  <2>3. inside' \in [Serial -> Nat]
    BY <1>0, <1>3 DEF Lock
  <2> QED BY <1>0, <1>3, <2>1, <2>2, <2>3, SectionKeepsBase DEF Lock
<1>4. CASE LeaveCriticalSection(t)
  <2>1. CsFits'
    <3>1. CASE cs.owner # serial[t]
      BY <1>0, <1>4, <3>1 DEF LeaveCriticalSection, CsFits
    <3>2. CASE cs.owner = serial[t]
      <4>1. /\ cs.count \in Nat \ {0}
            /\ cs' = [cs EXCEPT !.owner = IF cs.count = 1 THEN NoSerial ELSE cs.owner,
                               !.count = cs.count - 1]
        BY <1>0, <1>4, <3>2 DEF LeaveCriticalSection, CsFits
      <4>2. /\ cs'.state = cs.state /\ cs'.count = cs.count - 1
            /\ cs'.owner = IF cs.count = 1 THEN NoSerial ELSE cs.owner
            /\ cs' \in [state : {"raw", "live", "deleted"}, owner : Serial \cup {NoSerial}, count : Nat]
        <5>1. cs.count - 1 \in Nat
          BY <4>1
        <5>2. (IF cs.count = 1 THEN NoSerial ELSE cs.owner) \in Serial \cup {NoSerial}
          BY <1>0
        <5> QED BY <1>0, <4>1, <5>1, <5>2, SetSection
      <4>3. cs'.owner = NoSerial <=> cs'.count = 0
        BY <1>0, <3>2, <4>1, <4>2
      <4> QED BY <4>2, <4>3 DEF CsFits
    <3> QED BY <3>1, <3>2
  <2>3. inside' \in [Serial -> Nat]
    BY <1>0, <1>4 DEF LeaveCriticalSection
  <2> QED BY <1>0, <1>4, <2>1, <2>3, SectionKeepsBase DEF LeaveCriticalSection, Others
<1>5. CASE UseAfterDelete(t)
  BY <1>0, <1>5, SectionKeepsBase DEF UseAfterDelete, Others, CsFits
<1>6. CASE PthreadCrashes(t)
  BY <1>0, <1>6, SectionKeepsBase DEF PthreadCrashes, Private, history, kernel, Others, CsFits
<1> QED BY <1>1, <1>2, <1>3, <1>4, <1>5, <1>6

-----------------------------------------------------------------------------
(* The actions that end and start threads.                                 *)

LEMMA DieKeepsBase ==
  ASSUME BaseInv, NEW t \in Tid, Alive(t), Die(t)
  PROVE  BaseInv'
<1> USE BaseParts
<1>1. /\ UNCHANGED <<setting, map, detached, serial, prio, cs, crashed, calls, given, entry, said,
                     named, inside, missed>>
      /\ life' = [life EXCEPT ![t] = IF detached[t] THEN "none" ELSE "gone"]
  BY DEF Die, history
<1>2. call' \in [Tid -> Frame] /\ call'[t] = Idle /\ Others(t)
  BY DoneCall DEF Die
<1>3. InFunction(t)' /\ MadeFits(t)' /\ ~Making(t)'
  BY <1>2, IdleFits
<1>4. LocalStep(t)
  BY <1>1, <1>2, <1>3 DEF LocalStep, CsFits
<1>5. KernelStep(t)
  <2>1. KernelTypes'
    BY <1>1 DEF KernelTypes
  <2>2. \A u \in Tid : life'[u] = "none" => life[u] = "none" \/ detached[u]
    BY <1>1 DEF KernelTypes
  <2>3. \A u \in Tid \ {t} : life'[u] = life[u]
    BY <1>1 DEF KernelTypes
  <2>4. \A u \in Tid : life'[u] # "none" => serial'[u] # NoSerial
    BY <1>1 DEF KernelTypes, ThreadsFit, Alive
  <2>5. \A u \in Tid \ {t} :
          Making(u) => life'[call[u].made] # "none" /\ ~detached'[call[u].made]
    BY <1>1, <2>2 DEF ThreadsFit
  <2>6. MainStays' /\ SerialsDiffer'
    BY <1>1, <2>2, ThreadAssumption DEF MainStays, SerialsDiffer
  <2> QED BY <1>2, <1>3, <2>1, <2>3, <2>4, <2>5, <2>6 DEF KernelStep, Alive
<1> QED BY <1>1, <1>4, <1>5, SameTable, StepKeepsBase

(* A cancelled thread was alive and stays so. *)
LEMMA CancelKeepsKernel ==
  ASSUME BaseInv, NEW t \in Tid, Alive(t), UNCHANGED <<detached, serial>>, Others(t), ~Making(t)',
         NEW v \in Tid, Alive(v),
         life' = [life EXCEPT ![v] = "cancelled"]
  PROVE  KernelStep(t)
<1> USE BaseParts
<1>1. KernelTypes'
  BY DEF KernelTypes
<1>2. \A u \in Tid : (life'[u] = "none") = (life[u] = "none") /\ Alive(u)' = Alive(u)
  BY DEF KernelTypes, Alive
<1>3. \A u \in Tid : life'[u] # "none" => serial'[u] # NoSerial
  BY <1>2 DEF ThreadsFit
<1>4. \A u \in Tid \ {t} :
        Making(u) => life'[call[u].made] # "none" /\ ~detached'[call[u].made]
  BY <1>2 DEF ThreadsFit
<1>5. MainStays' /\ SerialsDiffer'
  BY <1>2, ThreadAssumption DEF MainStays, SerialsDiffer
<1> QED BY <1>1, <1>2, <1>3, <1>4, <1>5 DEF KernelStep

LEMMA EndthreadKeepsBase ==
  ASSUME BaseInv, NEW t \in Tid, Alive(t), _endthread(t)
  PROVE  BaseInv'
<1> USE BaseParts
<1>1. /\ UNCHANGED <<setting, map, detached, serial, prio, call, cs, crashed, calls, given, entry,
                     said, inside, missed>>
      /\ life' = [life EXCEPT ![t] = "cancelled"] /\ At(t, "idle")
      /\ named' = named \cup {serial[t]}
  BY DEF _endthread, Free
<1>2. ~Making(t)' /\ InFunction(t)' /\ MadeFits(t)' /\ Others(t)
  BY <1>1 DEF Making, At, ThreadsFit, InFunction, MadeFits, Others
<1>3. LocalStep(t)
  BY <1>1, <1>2, AliveHasSerial DEF LocalStep, CsFits
<1>4. KernelStep(t)
  BY <1>1, <1>2, CancelKeepsKernel
<1> QED BY <1>1, <1>3, <1>4, SameTable, StepKeepsBase

LEMMA CancelKeepsBase ==
  ASSUME BaseInv, NEW t \in Tid, Alive(t), Cancel(t)
  PROVE  BaseInv'
<1> USE BaseParts
<1> DEFINE place == IF Exists(call[t].tid) /\ call[t].op = "TerminateThread"
                    THEN "store" ELSE "idle"
<1>1. /\ UNCHANGED <<setting, map, detached, serial, prio, cs, crashed, calls, given, entry, said,
                     named, inside, missed>>
      /\ At(t, "cancel") /\ Return(t, place) /\ place \in Places
      /\ life' = IF Exists(call[t].tid) /\ life[call[t].tid] = "running"
                 THEN [life EXCEPT ![call[t].tid] = "cancelled"] ELSE life
  BY DEF Cancel, history, Places
<1>2. /\ call' \in [Tid -> Frame] /\ Others(t)
      /\ place = "idle" => call'[t] = Idle
      /\ place # "idle" => GoesTo(t, place)
  BY <1>1, ReturnCall
<1>3. call[t].made \notin Tid
  BY <1>1 DEF At, ThreadsFit, InFunction
<1>4. InFunction(t)' /\ MadeFits(t)' /\ ~Making(t)'
  <2>1. CASE place = "idle"
    BY <2>1, <1>2, IdleFits
  <2>2. CASE place # "idle"
    BY <2>2, <1>2, <1>3 DEF GoesTo, InFunction, MadeFits, Making
  <2> QED BY <2>1, <2>2
<1>5. LocalStep(t)
  BY <1>1, <1>2, <1>4 DEF LocalStep, CsFits
<1>6. KernelStep(t)
  <2>1. CASE Exists(call[t].tid) /\ life[call[t].tid] = "running"
    BY <2>1, <1>1, <1>2, <1>4, CancelKeepsKernel DEF Exists, Alive
  <2>2. CASE life' = life
    BY <2>2, <1>1, <1>2, <1>4, SameKernel
  <2> QED BY <2>1, <2>2, <1>1
<1> QED BY <1>1, <1>5, <1>6, SameTable, StepKeepsBase

(* Started is the last serial number given out. *)
LEMMA StartedIsLatest ==
  ASSUME BaseInv, NEW m \in Serial, Latest(m)
  PROVE  Started = m
<1> DEFINE S == {s \in Serial : \E t \in Tid : serial[t] >= s}
<1>1. /\ MaxThreads \in Nat /\ serial \in [Tid -> Serial \cup {NoSerial}]
  BY ThreadAssumption, BaseParts DEF KernelTypes
<1>2. PICK t \in Tid : serial[t] = m
  BY DEF Latest
<1>3. S = 1..m
  BY <1>1, <1>2 DEF Latest, Serial, NoSerial
<1>4. m \in Nat
  BY <1>1 DEF Serial
<1>5. Cardinality(1..m) = m
  BY <1>4, FS_Interval
<1> QED BY <1>3, <1>5 DEF Started

(* What _beginthread's new thread is. *)
Newborn(t, new, m) ==
  /\ new \in Tid \ {t, Main} /\ life[new] = "none" /\ call[new] = Idle
  /\ \A u \in Tid : Making(u) => call[u].made # new
  /\ life' = [life EXCEPT ![new] = "running"]
  /\ detached' = [detached EXCEPT ![new] = FALSE]
  /\ serial' = [serial EXCEPT ![new] = m + 1]
  /\ prio' = [prio EXCEPT ![new] = prio[t]]
  /\ UNCHANGED <<setting, map, cs, crashed, calls, given, entry, said, named, inside, missed>>
  /\ call' \in [Tid -> Frame] /\ Others(t)
  /\ call'[t].pc = "register" /\ call'[t].made = new
  /\ call'[t].op = "CreateThread" /\ call'[t].h = NULL
  /\ m + 1 \in Serial /\ Latest(m)
  /\ setting.recycles \/ \A k \in DOMAIN map : map[k].word # new

LEMMA StartMakesNewborn ==
  ASSUME BaseInv, NEW t \in Tid, Alive(t), Beginthread_start(t)
  PROVE  \E new \in Tid, m \in Serial : Newborn(t, new, m)
<1> USE BaseParts
<1>1. PICK m \in Serial : Latest(m)
  BY DEF TableFits
<1>2. Started = m
  BY <1>1, StartedIsLatest
<1>3. m + 1 \in Serial
  BY <1>2, ThreadAssumption DEF Beginthread_start, Serial
<1>4. PICK new \in FreeTids :
        /\ life' = [life EXCEPT ![new] = "running"]
        /\ detached' = [detached EXCEPT ![new] = FALSE]
        /\ serial' = [serial EXCEPT ![new] = m + 1]
        /\ prio' = [prio EXCEPT ![new] = prio[t]]
        /\ call' = [call EXCEPT ![t].made = new, ![t].pc = "register"]
  BY <1>2 DEF Beginthread_start
<1>5. /\ new \in Tid /\ life[new] = "none"
      /\ setting.recycles \/ \A k \in DOMAIN map : map[k].word # new
  BY DEF FreeTids
<1>6. new # t /\ new # Main /\ call[new] = Idle /\ \A u \in Tid : Making(u) => call[u].made # new
  BY <1>5 DEF Alive, MainStays, ThreadsFit
<1>7. call[t].op = "CreateThread" /\ call[t].h = NULL
  BY DEF Beginthread_start, At, ThreadsFit, InFunction
<1> DEFINE f == [call[t] EXCEPT !.made = new, !.pc = "register"]
<1>8. f \in Frame /\ f.pc = "register" /\ f.made = new /\ f.op = call[t].op /\ f.h = call[t].h
  <2>1. call[t] \in Frame
    OBVIOUS
  <2> QED BY <2>1, <1>5 DEF Frame, Places
<1>9. call' = [call EXCEPT ![t] = f]
  BY <1>4
<1> HIDE DEF f
<1>10. call' \in [Tid -> Frame] /\ Others(t) /\ call'[t] = f
  BY <1>8, <1>9, SetCall
<1>11. UNCHANGED <<setting, map, cs, crashed, calls, given, entry, said, named, inside, missed>>
  BY DEF Beginthread_start, history
<1> QED BY <1>1, <1>3, <1>4, <1>5, <1>6, <1>7, <1>8, <1>10, <1>11 DEF Newborn

LEMMA StartKeepsBase ==
  ASSUME BaseInv, NEW t \in Tid, Alive(t), Beginthread_start(t)
  PROVE  BaseInv'
<1> USE BaseParts
<1>1. PICK new \in Tid, m \in Serial : Newborn(t, new, m)
  BY StartMakesNewborn
<1>2. LocalStep(t)
  BY <1>1 DEF Newborn, LocalStep, CsFits, InFunction, MadeFits
<1>3. /\ \A u \in Tid : u # new => serial'[u] = serial[u] /\ life'[u] = life[u] /\ detached'[u] = detached[u]
      /\ serial'[new] = m + 1 /\ life'[new] = "running" /\ ~detached'[new]
      /\ \A u \in Tid : serial[u] <= m
      /\ m \in Nat \ {0} /\ NoSerial = 0 /\ \A u \in Tid : serial[u] \in Nat
  BY <1>1, ThreadAssumption DEF Newborn, KernelTypes, Latest, Serial, NoSerial
<1>4. KernelStep(t)
  <2>1. KernelTypes'
    BY <1>1 DEF Newborn, KernelTypes
  <2>2. \A u \in Tid : life'[u] # "none" => serial'[u] # NoSerial
    BY <1>3 DEF ThreadsFit
  <2>3. (\A u \in Tid : Alive(u) => Alive(u)') /\ Alive(t)'
    BY <1>3 DEF Alive
  <2>4. \A u \in Tid \ {t} :
          Making(u) => life'[call[u].made] # "none" /\ ~detached'[call[u].made]
    BY <1>1, <1>3 DEF Newborn, ThreadsFit
  <2>5. MainStays'
    BY <1>1, <1>3, ThreadAssumption DEF Newborn, MainStays
  <2>6. SerialsDiffer'
    BY <1>3 DEF SerialsDiffer
  <2> QED BY <1>1, <1>3, <2>1, <2>2, <2>3, <2>4, <2>5, <2>6 DEF KernelStep, Newborn
<1>5. TableFits'
  <2>1. UNCHANGED <<map, entry, said>> /\ TableFits /\ m + 1 \in Serial /\ Latest(m)
    BY <1>1 DEF Newborn
  <2>2. \A k \in DOMAIN entry : entry[k] <= m /\ entry[k] \in Nat
    BY <2>1 DEF Latest, TableFits, Serial
  <2>3. Latest(m + 1)'
    BY <1>3, <2>1, <2>2 DEF Latest, Serial
  <2>4. EntriesFit'
    BY <1>3, <2>1, <2>2 DEF EntriesFit, TableFits
  <2> QED BY <2>1, <2>3, <2>4 DEF TableFits, H!TypeOK
<1> QED BY <1>2, <1>4, <1>5, StepKeepsBase

LEMMA DetachKeepsBase ==
  ASSUME BaseInv, NEW t \in Tid, Alive(t), Beginthread_detach(t)
  PROVE  BaseInv'
<1> USE BaseParts
<1> DEFINE place == IF call[t].wantsId THEN "lookup" ELSE "idle"
           new == call[t].made
<1>1. /\ UNCHANGED <<setting, map, serial, prio, cs, crashed, calls, entry, said, named, inside, missed>>
      /\ Return(t, place) /\ place \in Places /\ At(t, "detach")
      /\ detached' = [detached EXCEPT ![new] = TRUE]
      /\ life' = [life EXCEPT ![new] = IF life[new] = "gone" THEN "none" ELSE life[new]]
  BY DEF Beginthread_detach, history, Places
<1>2. /\ call' \in [Tid -> Frame] /\ Others(t)
      /\ place = "idle" => call'[t] = Idle
      /\ place # "idle" => GoesTo(t, place)
  BY <1>1, ReturnCall
<1>3. /\ call[t].op = "CreateThread" /\ new \in Tid \ {Main}
      /\ \A u \in Tid : Making(u) /\ call[u].made = new => u = t
  BY <1>1 DEF At, ThreadsFit, InFunction, Making
<1>4. given' \subseteq MinInt..MaxInt /\ NULL \notin given'
  <2>1. call[t].h \in MinInt..MaxInt
    BY DEF Frame
  <2> QED BY <2>1 DEF Beginthread_detach
<1> HIDE DEF place
<1>5. InFunction(t)' /\ MadeFits(t)' /\ ~Making(t)'
  <2>1. CASE place = "idle"
    BY <2>1, <1>2, IdleFits
  <2>2. CASE place = "lookup"
    BY <2>2, <1>2, <1>3 DEF GoesTo, InFunction, MadeFits, Making
  <2> QED BY <2>1, <2>2 DEF place
<1>6. LocalStep(t)
  BY <1>1, <1>2, <1>4, <1>5 DEF LocalStep, CsFits
<1>7. /\ \A u \in Tid : u # new => life'[u] = life[u] /\ detached'[u] = detached[u]
      /\ Alive(new) => life'[new] = life[new]
      /\ life'[new] # "none" => life[new] # "none"
  BY <1>1, <1>3 DEF KernelTypes, Alive
<1>8. KernelStep(t)
  <2>1. KernelTypes'
    BY <1>1, <1>3 DEF KernelTypes
  <2>2. \A u \in Tid : life'[u] # "none" => serial'[u] # NoSerial
    BY <1>1, <1>3, <1>7 DEF ThreadsFit
  <2>3. (\A u \in Tid : Alive(u) => Alive(u)') /\ Alive(t)'
    BY <1>7 DEF Alive
  <2>4. \A u \in Tid \ {t} :
          Making(u) => life'[call[u].made] # "none" /\ ~detached'[call[u].made]
    BY <1>3, <1>7 DEF ThreadsFit
  <2>5. MainStays' /\ SerialsDiffer'
    BY <1>1, <1>3, <1>7, ThreadAssumption DEF MainStays, SerialsDiffer
  <2> QED BY <1>5, <2>1, <2>2, <2>3, <2>4, <2>5 DEF KernelStep
<1> QED BY <1>1, <1>6, <1>8, SameTable, StepKeepsBase

-----------------------------------------------------------------------------
(* The actions that change the table.                                      *)

(* What registering a thread does to the table. *)
Registers(k, new) ==
  /\ k \in (MinInt..MaxInt) \ DOMAIN map /\ new \in Tid /\ serial[new] \in Serial
  /\ setting.zero \/ k # NULL
  /\ DOMAIN map' = DOMAIN map \cup {k} /\ DOMAIN entry' = DOMAIN map'
  /\ \A j \in DOMAIN map : map'[j] = map[j] /\ entry'[j] = entry[j]
  /\ map'[k] = [type |-> "THREAD", word |-> new, more |-> Zero, text |-> NoText, pattern |-> NoText]
  /\ entry'[k] = serial[new]
  /\ UNCHANGED <<setting, life, detached, serial, prio, cs, crashed, calls, said, named, inside, missed>>

LEMMA RegisterRegisters ==
  ASSUME BaseInv, NEW r, NEW k \in MinInt..MaxInt, NEW new \in Tid, serial[new] \in Serial,
         Register(r, k, new)
  PROVE  Registers(k, new)
<1>1. DOMAIN entry = DOMAIN map
  BY BaseParts DEF TableFits
<1>2. /\ setting.zero \/ k # NULL
      /\ entry' = [j \in DOMAIN entry \cup {k} |-> IF j = k THEN serial[new] ELSE entry[j]]
      /\ UNCHANGED <<setting, life, detached, serial, prio, cs, crashed, calls, said, named, inside, missed>>
  BY DEF Register, kernel
<1> DEFINE hd == [type |-> "THREAD", word |-> new, more |-> Zero, text |-> NoText, pattern |-> NoText]
<1>3. /\ k \notin DOMAIN map
      /\ map' = [h \in DOMAIN map \cup {k} |-> IF h = k THEN hd ELSE map[h]]
  BY DEF Register, H!reg_thread, H!Register, H!new_key_get
<1> HIDE DEF hd
<1>4. map'[k] = hd
  BY <1>3
<1> QED BY <1>1, <1>2, <1>3, <1>4 DEF Registers, hd

LEMMA RegistersFits ==
  ASSUME BaseInv, NEW k, NEW new, Registers(k, new)
  PROVE  TableFits'
<1> USE BaseParts DEF Registers
<1>1. H!TypeOK'
  <2>1. DOMAIN map' \subseteq H!Key
    BY DEF TableFits, H!TypeOK, H!Key
  <2>2. map'[k] \in H!Header
    BY DEF H!Header, H!Types, Word
  <2>3. \A j \in DOMAIN map' : map'[j] \in H!Header
    BY <2>2 DEF TableFits, H!TypeOK
  <2> QED BY <2>1, <2>3 DEF H!TypeOK
<1>2. PICK m \in Serial : Latest(m)
  BY DEF TableFits
<1>3. Latest(m)'
  BY <1>2 DEF Latest, TableFits
<1>4. EntriesFit'
  <2>1. map'[k].type = "THREAD" /\ map'[k].word = new /\ new \in Tid
    OBVIOUS
  <2>2. \A t \in Tid : serial[t] = serial[new] => t = new
    BY DEF SerialsDiffer, Serial, NoSerial
  <2> QED BY <2>1, <2>2 DEF EntriesFit, TableFits
<1> QED BY <1>1, <1>3, <1>4 DEF TableFits

LEMMA RegisterFrame ==
  ASSUME BaseInv, NEW t \in Tid, NEW r, NEW k \in MinInt..MaxInt, Beginthread_register(t, r, k)
  PROVE  /\ call' \in [Tid -> Frame] /\ Others(t)
         /\ call'[t].pc = "detach" /\ call'[t].h = k /\ call'[t].made = call[t].made
         /\ call'[t].op = call[t].op /\ call[t].op = "CreateThread" /\ call[t].pc = "register"
         /\ call[t].made \in Tid \ {Main} /\ Making(t)
         /\ Registers(k, call[t].made) /\ UNCHANGED given
<1> USE BaseParts
<1>1. /\ call[t].pc = "register" /\ Register(r, k, call[t].made) /\ UNCHANGED given
      /\ call' = [call EXCEPT ![t].h = k, ![t].pc = "detach"]
  BY DEF Beginthread_register, At
<1>2. /\ Making(t) /\ call[t].op = "CreateThread" /\ call[t].made \in Tid \ {Main}
      /\ life[call[t].made] # "none"
  BY <1>1 DEF Making, ThreadsFit, InFunction
<1>3. serial[call[t].made] \in Serial
  BY <1>2 DEF ThreadsFit, KernelTypes
<1> DEFINE f == [call[t] EXCEPT !.h = k, !.pc = "detach"]
<1>4. f \in Frame /\ f.pc = "detach" /\ f.h = k /\ f.made = call[t].made /\ f.op = call[t].op
  <2>1. call[t] \in Frame
    OBVIOUS
  <2> QED BY <2>1 DEF Frame, Places
<1>5. call' = [call EXCEPT ![t] = f]
  BY <1>1
<1> HIDE DEF f
<1>6. call' \in [Tid -> Frame] /\ Others(t) /\ call'[t] = f
  BY <1>4, <1>5, SetCall
<1>7. Registers(k, call[t].made)
  BY <1>1, <1>2, <1>3, RegisterRegisters
<1> QED BY <1>1, <1>2, <1>4, <1>6, <1>7

LEMMA RegisterKeepsBase ==
  ASSUME BaseInv, NEW t \in Tid, Alive(t), NEW r, NEW k \in MinInt..MaxInt,
         Beginthread_register(t, r, k)
  PROVE  BaseInv'
<1> USE BaseParts
<1>1. /\ call' \in [Tid -> Frame] /\ Others(t)
      /\ call'[t].pc = "detach" /\ call'[t].h = k /\ call'[t].made = call[t].made
      /\ call'[t].op = "CreateThread" /\ call[t].made \in Tid /\ Making(t)
      /\ Registers(k, call[t].made) /\ UNCHANGED given
  BY RegisterFrame
<1>2. UNCHANGED <<setting, life, detached, serial, prio, cs, crashed, calls, said, named, inside, missed>>
  BY <1>1 DEF Registers
<1>3. LocalStep(t)
  BY <1>1, <1>2 DEF LocalStep, CsFits, InFunction, MadeFits
<1>4. KernelStep(t)
  BY <1>1, <1>2, SameKernel
<1>5. TableFits'
  BY <1>1, RegistersFits
<1> QED BY <1>3, <1>4, <1>5, StepKeepsBase

LEMMA RegisterSelfFrame ==
  ASSUME BaseInv, NEW t \in Tid, Alive(t), NEW r, NEW k \in MinInt..MaxInt,
         GetCurrentThreadId_register(t, r, k)
  PROVE  /\ call' \in [Tid -> Frame] /\ Others(t) /\ call'[t] = Idle
         /\ Registers(k, t) /\ given' = (given \cup {k}) \ {NULL}
         /\ call[t].pc = "register_self"
BY BaseParts, AliveHasSerial, RegisterRegisters, DoneCall DEF GetCurrentThreadId_register, At

LEMMA RegisterSelfKeepsBase ==
  ASSUME BaseInv, NEW t \in Tid, Alive(t), NEW r, NEW k \in MinInt..MaxInt,
         GetCurrentThreadId_register(t, r, k)
  PROVE  BaseInv'
<1> USE BaseParts
<1>1. /\ call' \in [Tid -> Frame] /\ Others(t) /\ call'[t] = Idle
      /\ Registers(k, t) /\ given' = (given \cup {k}) \ {NULL}
  BY RegisterSelfFrame
<1>2. UNCHANGED <<setting, life, detached, serial, prio, cs, crashed, calls, said, named, inside, missed>>
  BY <1>1 DEF Registers
<1>3. InFunction(t)' /\ MadeFits(t)' /\ ~Making(t)'
  BY <1>1, IdleFits
<1>4. LocalStep(t)
  BY <1>1, <1>2, <1>3 DEF LocalStep, CsFits
<1>5. KernelStep(t)
  BY <1>1, <1>2, <1>3, SameKernel
<1>6. TableFits'
  BY <1>1, RegistersFits
<1> QED BY <1>4, <1>5, <1>6, StepKeepsBase

(* What setting an exit code does: one entry with that pthread_t gets it,  *)
(* and s is the thread that it is meant for.                               *)
SetsCode(target, c, s) ==
  /\ DOMAIN map' = DOMAIN map
  /\ \A k \in DOMAIN map : /\ map'[k].type = map[k].type /\ map'[k].word = map[k].word
                           /\ map'[k] \in H!Header
                           /\ map'[k].more \in {map[k].more, c}
                           /\ map[k].word # target => map'[k].more = map[k].more
  /\ (\E k \in DOMAIN map : map[k].word = target)
       => \E k \in DOMAIN map : map[k].word = target /\ map'[k].more = c
  /\ s = NoSerial => said' = said
  /\ s # NoSerial => said' = [said EXCEPT ![s] = c]
  /\ UNCHANGED <<setting, life, detached, serial, prio, cs, crashed, calls, entry, named, inside, missed>>

LEMMA SetExitCodeSets ==
  ASSUME BaseInv, NEW target, NEW c \in Word, NEW s, SetExitCode(target, c, s)
  PROVE  SetsCode(target, c, s)
<1> DEFINE S == H!WithWord("THREAD", target)
<1>1. /\ (S = {} /\ map' = map) \/ \E h \in S : map' = [map EXCEPT ![h].more = c]
      /\ said' = IF s = NoSerial THEN said ELSE [said EXCEPT ![s] = c]
      /\ UNCHANGED <<setting, life, detached, serial, prio, cs, crashed, calls, entry, named, inside, missed>>
  BY DEF SetExitCode, H!set_thread_exitcode, kernel
<1>2. /\ \A k \in DOMAIN map : map[k] \in H!Header
      /\ S = {h \in DOMAIN map : map[h].word = target}
  BY BaseParts DEF TableFits, EntriesFit, H!TypeOK, H!WithWord
<1> HIDE DEF S
<1>3. CASE S = {} /\ map' = map
  BY <1>1, <1>2, <1>3 DEF SetsCode
<1>4. CASE \E h \in S : map' = [map EXCEPT ![h].more = c]
  <2>1. PICK h \in S : map' = [map EXCEPT ![h].more = c]
    BY <1>4
  <2> DEFINE hd == [map[h] EXCEPT !.more = c]
  <2>2. h \in DOMAIN map /\ map[h].word = target /\ map[h] \in H!Header
    BY <1>2
  <2>3. hd \in H!Header /\ hd.type = map[h].type /\ hd.word = map[h].word /\ hd.more = c
    BY <2>2 DEF H!Header
  <2>4. DOMAIN map' = DOMAIN map /\ map'[h] = hd /\ \A k \in DOMAIN map : k # h => map'[k] = map[k]
    BY <2>1, <2>2
  <2> HIDE DEF hd
  <2> QED BY <1>1, <1>2, <2>2, <2>3, <2>4 DEF SetsCode
<1> QED BY <1>1, <1>3, <1>4

LEMMA SetsCodeFits ==
  ASSUME BaseInv, NEW target, NEW c \in Word, NEW s, SetsCode(target, c, s),
         s \in Serial => \E t \in Tid : s <= serial[t] \/ \E k \in DOMAIN map : s = entry[k]
  PROVE  TableFits'
<1> USE BaseParts DEF SetsCode
<1>1. H!TypeOK'
  BY DEF TableFits, H!TypeOK
<1>2. PICK m \in Serial : Latest(m)
  BY DEF TableFits
<1>3. said' \in [Serial -> Word]
  BY DEF TableFits
<1>4. \A x \in Serial : x # s => said'[x] = said[x]
  BY DEF TableFits
<1>5. s \in Serial => s <= m
  BY <1>2 DEF Latest, TableFits, KernelTypes, Serial, NoSerial
<1>6. Latest(m)'
  BY <1>2, <1>4, <1>5 DEF Latest, Serial
<1>7. EntriesFit'
  BY DEF EntriesFit, TableFits
<1> QED BY <1>1, <1>3, <1>6, <1>7 DEF TableFits

(* The three callers of SetExitCode: where it leaves them, and for whom. *)
CodeMeantFor(t) ==
  IF call[t].op = "ExitThread" THEN serial[t]
  ELSE IF call[t].op = "CreateThread" THEN Unsaid(MadeFor(call[t].h)) ELSE MadeFor(call[t].h)
CodeTarget(t) == IF call[t].op = "ExitThread" THEN t ELSE call[t].tid
CodeStored(t) == IF call[t].op = "CreateThread" THEN STILL_ACTIVE ELSE call[t].code

Storing(t) ==
  /\ SetsCode(CodeTarget(t), CodeStored(t), CodeMeantFor(t)) /\ CodeStored(t) \in Word
  /\ call' \in [Tid -> Frame] /\ Others(t)
  /\ \/ /\ call[t].op = "ExitThread" /\ call[t].pc = "store"
        /\ GoesTo(t, "exit") /\ UNCHANGED given
     \/ /\ call[t].op = "TerminateThread" /\ call[t].pc = "store"
        /\ call'[t] = Idle /\ UNCHANGED given
     \/ /\ call[t].op = "CreateThread" /\ call[t].pc = "activate"
        /\ call'[t] = Idle
        /\ given' = IF setting.orderly THEN (given \cup {call[t].h}) \ {NULL} ELSE given

LEMMA StoresStore ==
  ASSUME BaseInv, NEW t \in Tid,
         ExitThread_store(t) \/ TerminateThread_store(t) \/ CreateThread_activate(t)
  PROVE  Storing(t)
<1> USE BaseParts
<1>0. call[t].code \in Word /\ STILL_ACTIVE \in Word
  <2>1. call[t] \in Frame
    OBVIOUS
  <2> QED BY <2>1 DEF Frame, Word
<1>1. CASE ExitThread_store(t)
  <2>1. /\ call[t].op = "ExitThread" /\ call[t].pc = "store" /\ UNCHANGED given /\ Goto(t, "exit")
        /\ SetExitCode(t, call[t].code, serial[t])
    BY <1>1 DEF ExitThread_store, At
  <2>2. call' \in [Tid -> Frame] /\ GoesTo(t, "exit") /\ Others(t)
    BY <2>1, GotoCall DEF Places
  <2>3. SetsCode(t, call[t].code, serial[t])
    BY <1>0, <2>1, SetExitCodeSets
  <2> QED BY <1>0, <2>1, <2>2, <2>3 DEF Storing, CodeMeantFor, CodeTarget, CodeStored
<1>2. CASE TerminateThread_store(t)
  <2>1. /\ call[t].op = "TerminateThread" /\ call[t].pc = "store" /\ UNCHANGED given /\ Done(t)
        /\ SetExitCode(call[t].tid, call[t].code, MadeFor(call[t].h))
    BY <1>2 DEF TerminateThread_store, At
  <2>2. call' \in [Tid -> Frame] /\ call'[t] = Idle /\ Others(t)
    BY <2>1, DoneCall
  <2>3. SetsCode(call[t].tid, call[t].code, MadeFor(call[t].h))
    BY <1>0, <2>1, SetExitCodeSets
  <2> QED BY <1>0, <2>1, <2>2, <2>3 DEF Storing, CodeMeantFor, CodeTarget, CodeStored
<1>3. CASE CreateThread_activate(t)
  <2>1. /\ call[t].pc = "activate" /\ Done(t)
        /\ SetExitCode(call[t].tid, STILL_ACTIVE, Unsaid(MadeFor(call[t].h)))
        /\ given' = IF setting.orderly THEN (given \cup {call[t].h}) \ {NULL} ELSE given
    BY <1>3 DEF CreateThread_activate, At
  <2>2. call' \in [Tid -> Frame] /\ call'[t] = Idle /\ Others(t)
    BY <2>1, DoneCall
  <2>3. SetsCode(call[t].tid, STILL_ACTIVE, Unsaid(MadeFor(call[t].h)))
    BY <1>0, <2>1, SetExitCodeSets
  <2>4. call[t].op = "CreateThread"
    BY <2>1 DEF ThreadsFit, InFunction
  <2> QED BY <1>0, <2>1, <2>2, <2>3, <2>4 DEF Storing, CodeMeantFor, CodeTarget, CodeStored
<1> QED BY <1>1, <1>2, <1>3

LEMMA StoringKeepsBase ==
  ASSUME BaseInv, NEW t \in Tid, Alive(t), Storing(t)
  PROVE  BaseInv'
<1> USE BaseParts
<1>1. UNCHANGED <<setting, life, detached, serial, prio, cs, crashed, calls, entry, named, inside, missed>>
  BY DEF Storing, SetsCode
<1>2. given' \subseteq MinInt..MaxInt /\ NULL \notin given'
  <2>1. call[t].h \in MinInt..MaxInt
    BY DEF Frame
  <2> QED BY <2>1 DEF Storing
<1>3. InFunction(t)' /\ MadeFits(t)' /\ ~Making(t)'
  <2>1. CASE call'[t] = Idle
    BY <2>1, IdleFits
  <2>2. CASE call[t].op = "ExitThread" /\ GoesTo(t, "exit")
    <3>1. call[t].made \notin Tid
      BY <2>2 DEF ThreadsFit
    <3> QED BY <2>2, <3>1 DEF GoesTo, InFunction, MadeFits, Making
  <2> QED BY <2>1, <2>2 DEF Storing
<1>4. LocalStep(t)
  BY <1>1, <1>2, <1>3 DEF LocalStep, CsFits, Storing
<1>5. KernelStep(t)
  BY <1>1, <1>3, SameKernel DEF Storing
<1>6. CodeMeantFor(t) \in Serial =>
        \E u \in Tid : \/ CodeMeantFor(t) <= serial[u]
                       \/ \E k \in DOMAIN map : CodeMeantFor(t) = entry[k]
  <2>1. CASE CodeMeantFor(t) = serial[t]
    BY <2>1 DEF Serial
  <2>2. CASE CodeMeantFor(t) = MadeFor(call[t].h) \/ CodeMeantFor(t) = NoSerial
    BY <2>2 DEF MadeFor, TableFits, Serial, NoSerial
  <2> QED BY <2>1, <2>2 DEF CodeMeantFor, Unsaid
<1>7. TableFits'
  <2> DEFINE target == CodeTarget(t)  c == CodeStored(t)  s == CodeMeantFor(t)
  <2>1. c \in Word /\ SetsCode(target, c, s)
    BY DEF Storing
  <2> HIDE DEF target, c
  <2> QED BY <2>1, <1>6, SetsCodeFits
<1> QED BY <1>4, <1>5, <1>7, StepKeepsBase

LEMMA EraseFrame ==
  ASSUME BaseInv, NEW t \in Tid, CloseHandle_erase(t)
  PROVE  /\ call' \in [Tid -> Frame] /\ Others(t) /\ call'[t] = Idle
         /\ call[t].pc = "erase" /\ call[t].op = "CloseHandle"
         /\ DOMAIN map' = DOMAIN map \ {call[t].h} /\ DOMAIN entry' = DOMAIN map'
         /\ \A k \in DOMAIN map' : map'[k] = map[k] /\ entry'[k] = entry[k]
         /\ said' = [s \in Serial |-> IF s = MadeFor(call[t].h) THEN Zero ELSE said[s]]
         /\ UNCHANGED <<setting, life, detached, serial, prio, cs, crashed, calls, given, named, inside, missed>>
<1> USE BaseParts
<1>1. call' \in [Tid -> Frame] /\ Others(t) /\ call'[t] = Idle
  BY DoneCall DEF CloseHandle_erase
<1>2. call[t].pc = "erase" /\ call[t].op = "CloseHandle"
  BY DEF CloseHandle_erase, At, ThreadsFit, InFunction
<1>3. DOMAIN entry = DOMAIN map
  BY DEF TableFits
<1>4. /\ map' = [k \in DOMAIN map \ {call[t].h} |-> map[k]]
      /\ entry' = [k \in DOMAIN entry \ {call[t].h} |-> entry[k]]
      /\ said' = [s \in Serial |-> IF s = MadeFor(call[t].h) THEN Zero ELSE said[s]]
      /\ UNCHANGED <<setting, life, detached, serial, prio, cs, crashed, calls, given, named, inside, missed>>
  BY DEF CloseHandle_erase, H!erase, kernel
<1> QED BY <1>1, <1>2, <1>3, <1>4

LEMMA EraseKeepsBase ==
  ASSUME BaseInv, NEW t \in Tid, Alive(t), CloseHandle_erase(t)
  PROVE  BaseInv'
<1> USE BaseParts
<1>1. /\ call' \in [Tid -> Frame] /\ Others(t) /\ call'[t] = Idle
      /\ DOMAIN map' \subseteq DOMAIN map /\ DOMAIN entry' = DOMAIN map'
      /\ \A k \in DOMAIN map' : map'[k] = map[k] /\ entry'[k] = entry[k]
      /\ said' = [s \in Serial |-> IF s = MadeFor(call[t].h) THEN Zero ELSE said[s]]
      /\ UNCHANGED <<setting, life, detached, serial, prio, cs, crashed, calls, given, named, inside, missed>>
  BY EraseFrame
<1>2. InFunction(t)' /\ MadeFits(t)' /\ ~Making(t)'
  BY <1>1, IdleFits
<1>3. LocalStep(t)
  BY <1>1, <1>2 DEF LocalStep, CsFits
<1>4. KernelStep(t)
  BY <1>1, <1>2, SameKernel
<1>5. TableFits'
  <2>1. H!TypeOK'
    BY <1>1 DEF TableFits, H!TypeOK
  <2>2. PICK m \in Serial : Latest(m)
    BY DEF TableFits
  <2>3. said' \in [Serial -> Word] /\ \A s \in Serial : said'[s] \in {Zero, said[s]}
    BY <1>1 DEF TableFits, Word
  <2>4. Latest(m)'
    BY <1>1, <2>2, <2>3 DEF Latest, TableFits
  <2>5. EntriesFit'
    BY <1>1 DEF EntriesFit, TableFits
  <2>6. \A k \in DOMAIN entry' : entry'[k] \in Serial
    BY <1>1 DEF TableFits
  <2> QED BY <1>1, <2>1, <2>3, <2>4, <2>5, <2>6 DEF TableFits
<1> QED BY <1>3, <1>4, <1>5, StepKeepsBase

-----------------------------------------------------------------------------
(* The steps of a behaviour, in the order of the lemmas above. *)
Steps(t) ==
  /\ ~crashed /\ Alive(t)
  /\ \/ \E f \in Frame : CallStep(t, f) /\ (Call(t) \/ EnterCriticalSection(t))
     \/ Beginthread_throws(t)
     \/ FindCurrentThread(t)
     \/ Lookup(t)
     \/ SetThreadPriority_set(t) \/ GetExitCodeThread_read(t)
     \/ InitializeCriticalSection(t) \/ DeleteCriticalSection(t)
     \/ Lock(t) \/ LeaveCriticalSection(t) \/ UseAfterDelete(t) \/ PthreadCrashes(t)
     \/ Die(t) /\ (~At(t, "idle") \/ Free(t) \/ life[t] = "cancelled")
     \/ _endthread(t)
     \/ Cancel(t)
     \/ Beginthread_start(t)
     \/ Beginthread_detach(t)
     \/ \E r \in 0..MaxInt, k \in MinInt..MaxInt :
          Beginthread_register(t, r, k) \/ GetCurrentThreadId_register(t, r, k)
     \/ Storing(t) /\ (ExitThread_store(t) \/ TerminateThread_store(t) \/ CreateThread_activate(t))
     \/ CloseHandle_erase(t)

LEMMA NextIsSteps ==
  ASSUME BaseInv, Next
  PROVE  \E t \in Tid : Steps(t)
<1>1. PICK t \in Tid : Step(t) \/ Choice(t)
  BY DEF Next
<1>2. CASE Step(t)
  <2>1. ExitThread_exit(t) \/ CancellationActs(t) =>
          Die(t) /\ (~At(t, "idle") \/ life[t] = "cancelled")
    BY DEF ExitThread_exit, CancellationActs, At
  <2> QED BY <1>2, <2>1, StoresStore DEF Step, Steps
<1>3. CASE Choice(t)
  <2>1. ReturnFromStart(t) => Die(t) /\ Free(t)
    BY DEF ReturnFromStart
  <2> QED BY <1>3, <2>1, CallsStep DEF Choice, Steps
<1> QED BY <1>1, <1>2, <1>3

LEMMA StepsKeepBase ==
  ASSUME BaseInv, NEW t \in Tid, Steps(t)
  PROVE  BaseInv'
BY CallKeepsBase, ThrowsKeepsBase, FindKeepsBase, LookupKeepsBase, FinishKeepsBase,
   SectionsKeepBase, DieKeepsBase, EndthreadKeepsBase, CancelKeepsBase, StartKeepsBase,
   DetachKeepsBase, RegisterKeepsBase, RegisterSelfKeepsBase, StoringKeepsBase, EraseKeepsBase
   DEF Steps

(* Each step leaves the circumstances alone: setting does not change. *)
LEMMA SetsNoSetting ==
  ASSUME NEW t \in Tid, Steps(t)
  PROVE  setting' = setting
BY DEF Steps, CallStep, Begin, Beginthread_throws, FindCurrentThread, Lookup, SetThreadPriority_set,
       GetExitCodeThread_read, InitializeCriticalSection, DeleteCriticalSection, Lock,
       LeaveCriticalSection, UseAfterDelete, PthreadCrashes, Die, _endthread, Cancel,
       Beginthread_start, Beginthread_detach, Beginthread_register, GetCurrentThreadId_register,
       Register, Storing, SetsCode, CloseHandle_erase, Private

LEMMA StutterKeepsBase ==
  ASSUME BaseInv, UNCHANGED vars
  PROVE  BaseInv'
<1>1. UNCHANGED <<setting, map, life, detached, serial, prio, call, cs, crashed, calls, given, entry,
                  said, named, inside, missed>>
  BY DEF vars, kernel, history
<1>2. PICK m \in Serial : Latest(m)
  BY DEF BaseInv
<1>3. Latest(m)'
  BY <1>1, <1>2 DEF Latest
<1>4. TypeOK'
  BY <1>1 DEF BaseInv, TypeOK, H!TypeOK
<1>5. ThreadsFit'
  BY <1>1 DEF BaseInv, ThreadsFit, InFunction, Making, Alive
<1>6. MainStays' /\ SerialsDiffer' /\ EntriesFit'
  BY <1>1 DEF BaseInv, MainStays, SerialsDiffer, EntriesFit
<1> QED BY <1>1, <1>3, <1>4, <1>5, <1>6 DEF BaseInv

LEMMA InitBase ==
  ASSUME Init
  PROVE  BaseInv
<1> USE DEF Init
<1>1. /\ Zero \in Word /\ 1 \in Serial /\ NoSerial \notin Serial /\ NULL = 0
      /\ Main \in Tid /\ DOMAIN map = {} /\ DOMAIN entry = {}
  BY ThreadAssumption DEF Word, Serial, NoSerial, NULL, H!Init
<1>2. H!TypeOK
  BY <1>1 DEF H!TypeOK
<1>3. call \in [Tid -> Frame] /\ \A t \in Tid : call[t] = Idle
  BY IdleFrame
<1>4. TypeOK
  <2>1. /\ life \in [Tid -> {"none", "running", "cancelled", "gone"}]
        /\ detached \in [Tid -> BOOLEAN] /\ prio \in [Tid -> BOOLEAN]
        /\ serial \in [Tid -> Serial \cup {NoSerial}]
    BY <1>1
  <2>2. /\ said \in [Serial -> Word] /\ inside \in [Serial -> Nat] /\ calls \in 0..MaxCalls
        /\ given \subseteq MinInt..MaxInt /\ named \subseteq Serial
    BY <1>1, ThreadAssumption
  <2>3. /\ cs.state \in {"raw", "live", "deleted"}
        /\ cs.owner \in Serial \cup {NoSerial} /\ cs.count \in Nat
        /\ (cs.owner = NoSerial) = (cs.count = 0)
    OBVIOUS
  <2> QED BY <1>1, <1>2, <1>3, <2>1, <2>2, <2>3 DEF TypeOK
<1>5. ThreadsFit
  BY <1>1, <1>3, IdleFrame, ThreadAssumption DEF ThreadsFit, InFunction, Making, Alive, NoSerial
<1>6. MainStays /\ SerialsDiffer /\ EntriesFit
  BY <1>1 DEF MainStays, SerialsDiffer, EntriesFit
<1>7. Latest(1)
  BY <1>1 DEF Latest, NoSerial, Serial
<1> QED BY <1>1, <1>4, <1>5, <1>6, <1>7 DEF BaseInv

LEMMA BaseInvariant == Init /\ [][Next]_vars => []BaseInv
<1>1. Init => BaseInv
  BY InitBase
<1>2. BaseInv /\ [Next]_vars => BaseInv'
  BY NextIsSteps, StepsKeepBase, StutterKeepsBase
<1> QED BY <1>1, <1>2, PTL

(* Every variable keeps its type, for any number of threads and whatever   *)
(* the callers do; among others, no pthread_t is given to a new thread     *)
(* while an old one has it, and a critical section that nobody owns has    *)
(* been left as often as it was entered.                                   *)
THEOREM TypeCorrect == Spec => []TypeOK
<1>1. BaseInv => TypeOK
  BY DEF BaseInv
<1> QED BY <1>1, BaseInvariant, PTL DEF Spec

-----------------------------------------------------------------------------
(* Critical sections.                                                      *)

LEMMA LockExcludes ==
  ASSUME BaseInv, CriticalSectionExcludes, NEW t \in Tid, Alive(t), Lock(t)
  PROVE  CriticalSectionExcludes'
<1>1. /\ serial[t] \in Serial /\ inside \in [Serial -> Nat] /\ CsFits
  BY AliveHasSerial, BaseParts
<1>2. cs.count + 1 \in Nat
  BY <1>1 DEF CsFits
<1>3. cs'.owner = serial[t] /\ cs'.count = cs.count + 1
  BY <1>1, <1>2, SetSection DEF Lock
<1>4. inside[serial[t]] = cs.count
  BY <1>1 DEF Lock, CriticalSectionExcludes, CsFits, NoSerial, Serial
<1>5. \A s \in Serial : s # serial[t] => inside[s] = 0
  BY <1>1 DEF Lock, CriticalSectionExcludes, NoSerial, Serial
<1>6. inside' = [inside EXCEPT ![serial[t]] = inside[serial[t]] + 1]
  BY DEF Lock
<1> QED BY <1>1, <1>3, <1>4, <1>5, <1>6 DEF CriticalSectionExcludes

LEMMA LeaveExcludes ==
  ASSUME BaseInv, CriticalSectionExcludes, NEW t \in Tid, Alive(t), LeaveCriticalSection(t)
  PROVE  CriticalSectionExcludes'
<1> DEFINE me == serial[t]
<1>1. /\ me \in Serial /\ inside \in [Serial -> Nat] /\ CsFits
  BY AliveHasSerial, BaseParts
<1>2. inside' = [inside EXCEPT ![me] = IF inside[me] > 0 THEN inside[me] - 1 ELSE 0]
  BY DEF LeaveCriticalSection
<1>3. CASE cs.owner # me
  <2>1. cs' = cs /\ inside[me] = 0
    BY <1>1, <1>3 DEF LeaveCriticalSection, CriticalSectionExcludes
  <2> QED BY <1>1, <1>2, <2>1, <1>3 DEF CriticalSectionExcludes
<1>4. CASE cs.owner = me
  <2>1. cs.count \in Nat \ {0} /\ inside[me] = cs.count
    BY <1>1, <1>4 DEF CriticalSectionExcludes, CsFits, Serial, NoSerial
  <2>2. /\ cs' = [cs EXCEPT !.owner = IF cs.count = 1 THEN NoSerial ELSE cs.owner,
                            !.count = cs.count - 1]
        /\ cs.count - 1 \in Nat
        /\ (IF cs.count = 1 THEN NoSerial ELSE cs.owner) \in Serial \cup {NoSerial}
    BY <1>1, <1>4, <2>1 DEF LeaveCriticalSection
  <2>3. /\ cs'.owner = IF cs.count = 1 THEN NoSerial ELSE me
        /\ cs'.count = cs.count - 1
    BY <1>1, <1>4, <2>2, SetSection
  <2>4. \A s \in Serial : s # me => inside[s] = 0 /\ inside'[s] = 0
    BY <1>1, <1>2, <1>4 DEF CriticalSectionExcludes
  <2>5. inside'[me] = cs.count - 1
    BY <1>1, <1>2, <2>1
  <2> QED BY <1>1, <2>1, <2>3, <2>4, <2>5 DEF CriticalSectionExcludes, Serial, NoSerial
<1> QED BY <1>3, <1>4

LEMMA StepsExclude ==
  ASSUME BaseInv, CriticalSectionExcludes, NEW t \in Tid, Steps(t)
  PROVE  CriticalSectionExcludes'
<1>1. CASE Lock(t)
  BY <1>1, LockExcludes DEF Steps
<1>2. CASE LeaveCriticalSection(t)
  BY <1>2, LeaveExcludes DEF Steps
<1>3. CASE InitializeCriticalSection(t) \/ DeleteCriticalSection(t)
  <2>1. cs'.owner = cs.owner /\ cs'.count = cs.count /\ inside' = inside
    BY <1>3, BaseParts DEF InitializeCriticalSection, DeleteCriticalSection, CsFits
  <2> QED BY <2>1 DEF CriticalSectionExcludes
<1>4. CASE UNCHANGED <<cs, inside>>
  BY <1>4 DEF CriticalSectionExcludes
<1>5. ASSUME ~Lock(t), ~LeaveCriticalSection(t), ~InitializeCriticalSection(t),
             ~DeleteCriticalSection(t)
      PROVE  UNCHANGED <<cs, inside>>
  BY <1>5
     DEF Steps, CallStep, Begin, Beginthread_throws, FindCurrentThread, Lookup, SetThreadPriority_set,
         GetExitCodeThread_read, UseAfterDelete, PthreadCrashes, Die, _endthread, Cancel,
         Beginthread_start, Beginthread_detach, Beginthread_register, GetCurrentThreadId_register,
         Register, Storing, SetsCode, CloseHandle_erase, history
<1> QED BY <1>1, <1>2, <1>3, <1>4, <1>5

(* EnterCriticalSection and LeaveCriticalSection: one thread at a time is  *)
(* inside, as often as it entered and has not left, for any number of      *)
(* threads, also when threads leave without having entered and when        *)
(* threads are terminated inside.                                          *)
THEOREM SectionsExclude == Spec => []CriticalSectionExcludes
<1>1. Init => CriticalSectionExcludes
  BY DEF Init, CriticalSectionExcludes
<1>2. BaseInv /\ CriticalSectionExcludes /\ [Next]_vars => CriticalSectionExcludes'
  <2>1. ASSUME BaseInv, CriticalSectionExcludes, Next PROVE CriticalSectionExcludes'
    BY <2>1, NextIsSteps, StepsExclude
  <2>2. CriticalSectionExcludes /\ UNCHANGED vars => CriticalSectionExcludes'
    BY DEF CriticalSectionExcludes, vars, history
  <2> QED BY <2>1, <2>2
<1> QED BY <1>1, <1>2, BaseInvariant, PTL DEF Spec

-----------------------------------------------------------------------------
(* What orderly callers add.                                               *)

Closing(t) == call[t].op = "CloseHandle" /\ call[t].pc # "idle"
Holding(t) == /\ call[t].pc \notin {"idle", "start", "register"}
              /\ call[t].op \in OnHandle \cup {"CreateThread"}

GivenOpen ==
  \A k \in given : /\ k \in DOMAIN map
                   /\ \A u \in Tid : Closing(u) => call[u].h # k

HandlesHeld ==
  \A t \in Tid :
    Holding(t) /\ call[t].h # NULL =>
      /\ call[t].h \in DOMAIN map
      /\ \A u \in Tid \ {t} : Closing(u) => call[u].h # call[t].h

(* What get_thread_tid has found is what the handle's entry says. *)
TidPlace(t) == \/ call[t].pc \in {"cancel", "schedule", "read", "activate"}
               \/ call[t].pc = "store" /\ call[t].op = "TerminateThread"
TidsFit ==
  \A t \in Tid :
    TidPlace(t) => call[t].tid = IF call[t].h = NULL THEN Zero ELSE AsInt(map[call[t].h].word)

(* Between find and register_self nobody else registers the thread. *)
SelvesAreNew ==
  \A t \in Tid :
    /\ call[t].pc = "find" => ~BeingClosed(t)
    /\ call[t].pc = "register_self" => \A k \in DOMAIN map : map[k].word # t
    /\ Making(t) => /\ call[call[t].made] = Idle
                    /\ call[t].pc = "register" =>
                         \A k \in DOMAIN map : entry[k] # serial[call[t].made]

ActedOnIsNamed ==
  \A t \in Tid :
    call[t].op \in Acting /\ call[t].pc \in {"lookup", "cancel", "schedule"} /\ call[t].h # NULL
      => entry[call[t].h] \in named

(* Without recycling an entry's pthread_t still is the thread's. *)
EntriesCurrent == ~setting.recycles => \A k \in DOMAIN map : serial[map[k].word] = entry[k]

(* Nobody looks for an entry before it is there, and none has key 0. *)
OneEntryEach == \A j, k \in DOMAIN entry : entry[j] = entry[k] => j = k

OrderlyParts ==
  /\ NULL \notin DOMAIN map
  /\ GivenOpen
  /\ HandlesHeld
  /\ TidsFit
  /\ SelvesAreNew
  /\ ActedOnIsNamed
  /\ OneEntryEach
  /\ OnlyTheDeadCrash
  /\ EntriesCurrent
OrderlyInv == Orderly => OrderlyParts

-----------------------------------------------------------------------------
(* What a pthread_t that fits an int and is not recycled adds.             *)

Steady == Orderly /\ ~setting.recycles /\ ~setting.wide

CodesMatch ==
  \A k \in DOMAIN map : said[entry[k]] # Zero => map[k].more = said[entry[k]]

(* Until CreateThread returns nobody else knows the new thread's handle,   *)
(* and the new thread waits.                                               *)
Creating(t) ==
  call[t].pc \in {"register", "detach", "lookup", "activate"} /\ call[t].op = "CreateThread"
NewbornWaits(t) ==
  LET new == call[t].made
  IN  /\ life[new] = "running" /\ call[new] = Idle /\ said[serial[new]] = Zero
      /\ call[t].pc # "register" =>
           /\ call[t].h \in DOMAIN map /\ entry[call[t].h] = serial[new]
           /\ call[t].h \notin given
           /\ \A u \in Tid \ {t} : Holding(u) => call[u].h # call[t].h
CreationFits(t) ==
  Creating(t) => /\ call[t].made \in Tid => NewbornWaits(t)
                 /\ call[t].made \notin Tid => call[t].h = NULL
NewbornsWait == \A t \in Tid : CreationFits(t)

(* A code set for a thread that has no entry is that of a thread about to end. *)
UnregisteredUnsaid ==
  \A t \in Tid :
    serial[t] # NoSerial /\ said[serial[t]] # Zero =>
      \/ \E k \in DOMAIN map : entry[k] = serial[t]
      \/ call[t].pc = "exit" \/ ~Alive(t)

SteadyParts == CodesMatch /\ NewbornsWait /\ UnregisteredUnsaid
SteadyInv == Steady => SteadyParts

-----------------------------------------------------------------------------
(* Steps that leave the entries alone: what the handle functions read, and *)
(* what t may have in its frame after them.                                *)

NotClosed(k) == \A u \in Tid : Closing(u) => call[u].h # k

StableTable ==
  /\ UNCHANGED <<setting, serial, entry>>
  /\ DOMAIN map' = DOMAIN map
  /\ \A k \in DOMAIN map : map'[k].word = map[k].word

StableStep(t) ==
  /\ StableTable /\ Others(t)
  /\ ~crashed' /\ named \subseteq named'
  /\ \A k \in given' : k \in given \/ (k \in DOMAIN map /\ NotClosed(k))

OwnFrame(t) ==
  /\ Closing(t)' => Closing(t) /\ call'[t].h = call[t].h
  /\ Holding(t)' /\ call'[t].h # NULL =>
       /\ call'[t].h \in DOMAIN map
       /\ \A u \in Tid \ {t} : Closing(u) => call[u].h # call'[t].h
  /\ TidPlace(t)' =>
       call'[t].tid = IF call'[t].h = NULL THEN Zero ELSE AsInt(map[call'[t].h].word)
  /\ call'[t].pc = "find" => ~BeingClosed(t)
  /\ call'[t].pc = "register_self" => \A k \in DOMAIN map : map[k].word # t
  /\ ~Making(t)'
  /\ call'[t] = Idle \/ \A u \in Tid : Making(u) => call[u].made # t
  /\ call'[t].op \in Acting /\ call'[t].pc \in {"lookup", "cancel", "schedule"} /\ call'[t].h # NULL
       => entry[call'[t].h] \in named'

LEMMA TidPlaceHolds ==
  ASSUME BaseInv', NEW t \in Tid, TidPlace(t)'
  PROVE  Holding(t)'
<1>1. InFunction(t)'
  BY DEF BaseInv, ThreadsFit
<1> QED BY <1>1 DEF Holding, TidPlace, InFunction, OnHandle, Acting

LEMMA StableKeeps ==
  ASSUME BaseInv, BaseInv', Orderly, OrderlyParts, NEW t \in Tid, StableStep(t), OwnFrame(t)
  PROVE  OrderlyParts'
<1>1. /\ UNCHANGED <<setting, serial, entry>> /\ DOMAIN map' = DOMAIN map
      /\ \A k \in DOMAIN map : map'[k].word = map[k].word
      /\ \A u \in Tid \ {t} : call'[u] = call[u]
      /\ ~crashed' /\ DOMAIN entry = DOMAIN map
  BY BaseParts DEF StableStep, StableTable, Others, TableFits
<1>2. \A u \in Tid : Closing(u)' => Closing(u) /\ call'[u].h = call[u].h
  <2>1. ASSUME NEW u \in Tid, u # t, Closing(u)' PROVE Closing(u) /\ call'[u].h = call[u].h
    BY <1>1, <2>1 DEF Closing
  <2> QED BY <2>1 DEF OwnFrame
<1>3. NULL \notin DOMAIN map'
  BY <1>1 DEF OrderlyParts
<1>4. GivenOpen'
  <2> SUFFICES ASSUME NEW k \in given'
               PROVE  k \in DOMAIN map' /\ \A u \in Tid : Closing(u)' => call'[u].h # k
    BY DEF GivenOpen
  <2>1. k \in DOMAIN map /\ NotClosed(k)
    BY DEF StableStep, OrderlyParts, GivenOpen, NotClosed
  <2> QED BY <1>1, <1>2, <2>1 DEF NotClosed
<1>5. HandlesHeld'
  <2> SUFFICES ASSUME NEW u \in Tid, Holding(u)', call'[u].h # NULL
               PROVE  /\ call'[u].h \in DOMAIN map'
                      /\ \A v \in Tid \ {u} : Closing(v)' => call'[v].h # call'[u].h
    BY DEF HandlesHeld
  <2>1. CASE u = t
    BY <1>1, <1>2, <2>1 DEF OwnFrame
  <2>2. CASE u # t
    BY <1>1, <1>2, <2>2 DEF Holding, OrderlyParts, HandlesHeld
  <2> QED BY <2>1, <2>2
<1>6. TidsFit'
  <2> SUFFICES ASSUME NEW u \in Tid, TidPlace(u)'
               PROVE  call'[u].tid = (IF call[u].h = NULL THEN Zero ELSE AsInt(map[call[u].h].word))'
    BY DEF TidsFit
  <2>1. Holding(u)'
    BY TidPlaceHolds
  <2>2. call'[u].h # NULL => call'[u].h \in DOMAIN map
    BY <1>1, <1>5, <2>1 DEF HandlesHeld
  <2>3. call'[u].tid = IF call'[u].h = NULL THEN Zero ELSE AsInt(map[call'[u].h].word)
    <3>1. CASE u = t
      BY <3>1 DEF OwnFrame
    <3>2. CASE u # t
      BY <1>1, <3>2 DEF TidPlace, OrderlyParts, TidsFit
    <3> QED BY <3>1, <3>2
  <2> QED BY <1>1, <2>2, <2>3 DEF AsInt
<1>7. SelvesAreNew'
  <2> SUFFICES ASSUME NEW u \in Tid
               PROVE  /\ call'[u].pc = "find" => ~BeingClosed(u)'
                      /\ call'[u].pc = "register_self" => \A k \in DOMAIN map' : map'[k].word # u
                      /\ Making(u)' => /\ call'[call'[u].made] = Idle
                                       /\ call'[u].pc = "register" =>
                                            \A k \in DOMAIN map' : entry'[k] # serial'[call'[u].made]
    BY DEF SelvesAreNew
  <2>1. ~BeingClosed(u) => ~BeingClosed(u)'
    BY <1>1, <1>2 DEF BeingClosed, Denotes, Closing
  <2>2. CASE u = t
    BY <1>1, <2>1, <2>2 DEF OwnFrame
  <2>3. CASE u # t
    <3>1. call'[u] = call[u] /\ Making(u)' = Making(u)
      BY <1>1, <2>3 DEF Making
    <3>2. ASSUME Making(u) PROVE call'[call[u].made] = Idle
      <4>1. call[u].made \in Tid /\ call[call[u].made] = Idle
        BY <3>2, BaseParts DEF OrderlyParts, SelvesAreNew, ThreadsFit
      <4> QED BY <1>1, <3>2, <4>1 DEF OwnFrame
    <3> QED BY <1>1, <2>1, <3>1, <3>2 DEF OrderlyParts, SelvesAreNew
  <2> QED BY <2>2, <2>3
<1>8. ActedOnIsNamed'
  <2>1. \A u \in Tid \ {t} :
          call'[u].op \in Acting /\ call'[u].pc \in {"lookup", "cancel", "schedule"} /\ call'[u].h # NULL
            => entry'[call'[u].h] \in named'
    BY <1>1 DEF OrderlyParts, ActedOnIsNamed, StableStep
  <2> QED BY <1>1, <2>1 DEF ActedOnIsNamed, OwnFrame
<1>9. OneEntryEach' /\ OnlyTheDeadCrash' /\ EntriesCurrent'
  BY <1>1 DEF OrderlyParts, OneEntryEach, OnlyTheDeadCrash, EntriesCurrent, Orderly
<1> QED BY <1>3, <1>4, <1>5, <1>6, <1>7, <1>8, <1>9 DEF OrderlyParts

(* A step after which t is in no function. *)
LEMMA IdleOwnFrame ==
  ASSUME NEW t \in Tid, call'[t] = Idle
  PROVE  OwnFrame(t)
BY IdleFrame DEF OwnFrame, Closing, Holding, TidPlace, Making

-----------------------------------------------------------------------------
(* The actions of orderly callers.                                         *)

(* A thread that does something is not being made. *)
LEMMA Unmade ==
  ASSUME BaseInv, Orderly, OrderlyParts, NEW t \in Tid, Free(t) \/ call[t].pc # "idle"
  PROVE  \A u \in Tid : Making(u) => call[u].made # t
<1>1. ASSUME NEW u \in Tid, Making(u) PROVE Alive(u) /\ call[call[u].made] = Idle
  BY <1>1, IdleFrame, BaseParts DEF Making, ThreadsFit, OrderlyParts, SelvesAreNew
<1> QED BY <1>1, IdleFrame DEF Free, BeingMade, Orderly

LEMMA CallOrderly ==
  ASSUME BaseInv, BaseInv', Orderly, OrderlyParts, NEW t \in Tid, ~crashed, NEW f \in Frame,
         CallStep(t, f), f.op # "CloseHandle",
         f.pc = "find" => ~BeingClosed(t),
         f.pc = "lookup" => f.h \in given \cup {NULL},
         f.pc = "lookup" /\ f.op \in Acting /\ f.h # NULL => entry[f.h] \in named'
  PROVE  OrderlyParts'
<1>1. call'[t] = f /\ Others(t) /\ Free(t)
  BY CallFrame DEF CallStep, Begin
<1>2. StableStep(t)
  BY <1>1 DEF CallStep, Begin, kernel, StableStep, StableTable
<1>3. \A u \in Tid : Making(u) => call[u].made # t
  BY <1>1, Unmade
<1>4. f.pc # "lookup" => ~Holding(t)' /\ ~TidPlace(t)' /\ ~Making(t)'
  BY <1>1 DEF CallStep, NewFrame, Holding, TidPlace, Making, OnHandle, Acting
<1>5. f.pc = "lookup" => ~TidPlace(t)' /\ ~Making(t)'
  BY <1>1 DEF TidPlace, Making
<1>6. f.pc = "lookup" /\ f.h # NULL => f.h \in DOMAIN map /\ NotClosed(f.h)
  BY DEF OrderlyParts, GivenOpen, NotClosed
<1>7. f.pc \notin {"cancel", "schedule", "register_self"}
  BY DEF CallStep, NewFrame
<1>8. OwnFrame(t)
  BY <1>1, <1>3, <1>4, <1>5, <1>6, <1>7 DEF OwnFrame, Closing, NotClosed
<1> QED BY <1>2, <1>8, StableKeeps

(* CloseHandle of a handle that nobody uses. *)
LEMMA CloseOrderly ==
  ASSUME BaseInv, BaseInv', Orderly, OrderlyParts, NEW t \in Tid, ~crashed, NEW f \in Frame,
         CallStep(t, f), f.op = "CloseHandle", f.pc = "lookup", f.h \in given \cup {NULL},
         ~InUse(f.h), given' = given \ {f.h}
  PROVE  OrderlyParts'
<1> USE BaseParts
<1>1. call'[t] = f /\ Others(t) /\ Free(t)
  BY CallFrame DEF CallStep, Begin
<1>2. /\ UNCHANGED <<setting, map, serial, entry, crashed>> /\ named \subseteq named'
      /\ DOMAIN entry = DOMAIN map /\ \A u \in Tid \ {t} : call'[u] = call[u]
  BY <1>1 DEF CallStep, Begin, kernel, Others, TableFits
<1>3. \A u \in Tid : Making(u) => call[u].made # t
  BY <1>1, Unmade
<1>4. f.h # NULL => f.h \in DOMAIN map /\ NotClosed(f.h)
  BY DEF OrderlyParts, GivenOpen, NotClosed
<1>5. \A u \in Tid : call[u].pc # "idle" => Alive(u)
  BY IdleFrame DEF ThreadsFit
<1>6. ~Making(t)' /\ ~TidPlace(t)' /\ Holding(t)' /\ Closing(t)'
  BY <1>1 DEF Making, TidPlace, Holding, Closing, OnHandle
<1>7. \A u \in Tid \ {t} : /\ Closing(u)' = Closing(u) /\ Holding(u)' = Holding(u)
                           /\ Making(u)' = Making(u) /\ TidPlace(u)' = TidPlace(u)
  BY <1>2 DEF Closing, Holding, Making, TidPlace
<1>8. \A u \in Tid \ {t} : Holding(u) => call[u].h # f.h
  BY <1>5 DEF InUse, Holding
<1>9. GivenOpen'
  BY <1>1, <1>2, <1>7 DEF OrderlyParts, GivenOpen
<1>10. HandlesHeld'
  <2> SUFFICES ASSUME NEW u \in Tid, Holding(u)', call'[u].h # NULL
               PROVE  /\ call'[u].h \in DOMAIN map'
                      /\ \A v \in Tid \ {u} : Closing(v)' => call'[v].h # call'[u].h
    BY DEF HandlesHeld
  <2>1. CASE u = t
    BY <1>1, <1>2, <1>4, <1>7, <2>1 DEF NotClosed
  <2>2. CASE u # t
    BY <1>1, <1>2, <1>7, <1>8, <2>2 DEF OrderlyParts, HandlesHeld
  <2> QED BY <2>1, <2>2
<1>11. TidsFit'
  BY <1>2, <1>6, <1>7 DEF OrderlyParts, TidsFit, AsInt
<1>12. SelvesAreNew'
  <2> SUFFICES ASSUME NEW u \in Tid
               PROVE  /\ call'[u].pc = "find" => ~BeingClosed(u)'
                      /\ call'[u].pc = "register_self" => \A k \in DOMAIN map' : map'[k].word # u
                      /\ Making(u)' => /\ call'[call'[u].made] = Idle
                                       /\ call'[u].pc = "register" =>
                                            \A k \in DOMAIN map' : entry'[k] # serial'[call'[u].made]
    BY DEF SelvesAreNew
  <2>1. CASE u = t
    BY <1>1, <1>6, <2>1
  <2>2. CASE u # t
    <3>1. ASSUME call[u].pc = "find" PROVE ~BeingClosed(u)'
      <4>1. ~Denotes(f.h, u) /\ ~BeingClosed(u)
        BY <1>5, <3>1 DEF InUse, OrderlyParts, SelvesAreNew, ThreadsFit, InFunction
      <4> QED BY <1>1, <1>2, <4>1 DEF BeingClosed, Denotes
    <3>2. ASSUME Making(u) PROVE call'[call[u].made] = Idle
      <4>1. call[u].made \in Tid /\ call[call[u].made] = Idle
        BY <3>2 DEF OrderlyParts, SelvesAreNew, ThreadsFit
      <4> QED BY <1>2, <1>3, <3>2, <4>1
    <3> QED BY <1>2, <1>7, <2>2, <3>1, <3>2 DEF OrderlyParts, SelvesAreNew
  <2> QED BY <2>1, <2>2
<1>13. ActedOnIsNamed'
  <2>1. f.op \notin Acting
    BY DEF Acting
  <2> QED BY <1>1, <1>2, <2>1 DEF OrderlyParts, ActedOnIsNamed
<1>14. NULL \notin DOMAIN map' /\ OneEntryEach' /\ OnlyTheDeadCrash' /\ EntriesCurrent'
  BY <1>2 DEF OrderlyParts, OneEntryEach, OnlyTheDeadCrash, EntriesCurrent, Orderly
<1> QED BY <1>9, <1>10, <1>11, <1>12, <1>13, <1>14 DEF OrderlyParts

LEMMA CallsOrderly ==
  ASSUME BaseInv, BaseInv', Orderly, OrderlyParts, NEW t \in Tid, ~crashed,
         Call(t) \/ EnterCriticalSection(t)
  PROVE  OrderlyParts'
<1> USE BaseParts
<1>1. ASSUME NEW b \in BOOLEAN, CallCreateThread(t, b) PROVE OrderlyParts'
  <2> DEFINE f == [Idle EXCEPT !.op = "CreateThread", !.pc = "start", !.wantsId = b]
  <2>1. NewFrame(f) /\ f.pc = "start"
    BY NewFrames, Zenon
  <2>2. Begin(t, f) /\ UNCHANGED <<given, named>>
    BY <1>1 DEF CallCreateThread
  <2> HIDE DEF f
  <2>3. f.op = "CreateThread"
    BY <2>1 DEF NewFrame
  <2> QED BY <2>1, <2>2, <2>3, CallOrderly DEF CallStep, NewFrame
<1>2. ASSUME NEW c \in Codes, CallExitThread(t, c) PROVE OrderlyParts'
  <2> DEFINE f == [Idle EXCEPT !.op = "ExitThread", !.pc = "store", !.code = c]
  <2>1. NewFrame(f) /\ f.pc = "store"
    BY NewFrames, Zenon
  <2>2. Begin(t, f) /\ UNCHANGED <<given, named>>
    BY <1>2 DEF CallExitThread
  <2> HIDE DEF f
  <2>3. f.op = "ExitThread"
    BY <2>1 DEF NewFrame
  <2> QED BY <2>1, <2>2, <2>3, CallOrderly DEF CallStep, NewFrame
<1>3. ASSUME NEW o \in OnSelf, CallGetCurrentThread(t, o) PROVE OrderlyParts'
  <2> DEFINE f == [Idle EXCEPT !.op = o, !.pc = "find"]
  <2>1. NewFrame(f) /\ f.pc = "find" /\ f.op # "CloseHandle" /\ ~BeingClosed(t)
    BY <1>3, NewFrames DEF CallGetCurrentThread, Orderly
  <2>2. Begin(t, f) /\ UNCHANGED <<given, named>>
    BY <1>3 DEF CallGetCurrentThread
  <2> HIDE DEF f
  <2> QED BY <2>1, <2>2, CallOrderly DEF CallStep, NewFrame
<1>4. ASSUME NEW k \in MinInt..MaxInt, NEW o \in OnHandle, NEW c \in Codes \cup {Zero},
             CallOnHandle(t, o, k, c)
      PROVE  OrderlyParts'
  <2> DEFINE f == [Idle EXCEPT !.op = o, !.pc = "lookup", !.h = k, !.code = c]
  <2>1. NewFrame(f) /\ f.pc = "lookup" /\ f.op = o /\ f.h = k
    <3>1. NewFrame(f)
      BY NewFrames
    <3>2. f.pc = "lookup" /\ f.op = o /\ f.h = k
      BY IdleFrame DEF Frame
    <3> QED BY <3>1, <3>2
  <2>2. /\ Begin(t, f) /\ k \in given \cup {NULL}
        /\ given' = IF o = "CloseHandle" THEN given \ {k} ELSE given
        /\ named' = IF o \in Acting /\ k \in DOMAIN map THEN named \cup {entry[k]} ELSE named
        /\ o = "CloseHandle" => ~InUse(k)
    BY <1>4 DEF CallOnHandle, Orderly
  <2> HIDE DEF f
  <2>3. CallStep(t, f) /\ f \in Frame
    BY <2>1, <2>2 DEF CallStep, TableFits, NewFrame
  <2>4. CASE o = "CloseHandle"
    BY <2>1, <2>2, <2>3, <2>4, CloseOrderly
  <2>5. CASE o # "CloseHandle"
    <3>1. o \in Acting /\ k # NULL => entry[k] \in named'
      BY <2>2 DEF OrderlyParts, GivenOpen
    <3> QED BY <2>1, <2>2, <2>3, <2>5, <3>1, CallOrderly
  <2> QED BY <2>4, <2>5
<1>5. ASSUME EnterCriticalSection(t) PROVE OrderlyParts'
  <2> DEFINE f == [Idle EXCEPT !.op = "EnterCriticalSection", !.pc = "enter"]
  <2>1. NewFrame(f) /\ f.pc = "enter" /\ f.op = "EnterCriticalSection"
    BY NewFrames DEF NewFrame
  <2>2. Begin(t, f) /\ UNCHANGED <<given, named>>
    BY <1>5 DEF EnterCriticalSection
  <2> HIDE DEF f
  <2> QED BY <2>1, <2>2, CallOrderly DEF CallStep, NewFrame
<1> QED BY <1>1, <1>2, <1>3, <1>4, <1>5 DEF Call, OnHandle, Acting

(* Steps of a thread that is back, or was not in a function. *)
LEMMA FinishOrderly ==
  ASSUME BaseInv, BaseInv', Orderly, OrderlyParts, NEW t \in Tid, ~crashed,
         UNCHANGED <<setting, map, serial, entry, crashed>>, named \subseteq named',
         given' \subseteq given,
         Others(t), call'[t] = Idle \/ (call' = call /\ Free(t))
  PROVE  OrderlyParts'
<1>1. StableStep(t)
  BY DEF StableStep, StableTable
<1>2. CASE call'[t] = Idle
  BY <1>1, <1>2, IdleOwnFrame, StableKeeps
<1>3. CASE call' = call /\ Free(t)
  <2>1. call'[t].pc = "idle" /\ \A u \in Tid : Making(u) => call[u].made # t
    BY <1>3, Unmade DEF Free, At
  <2>2. OwnFrame(t)
    BY <1>3, <2>1 DEF OwnFrame, Closing, Holding, TidPlace, Making
  <2> QED BY <1>1, <2>2, StableKeeps
<1> QED BY <1>2, <1>3

LEMMA FinishesOrderly ==
  ASSUME BaseInv, BaseInv', Orderly, OrderlyParts, NEW t \in Tid, ~crashed,
         \/ SetThreadPriority_set(t) \/ GetExitCodeThread_read(t)
         \/ InitializeCriticalSection(t) \/ DeleteCriticalSection(t)
         \/ Lock(t) \/ LeaveCriticalSection(t)
         \/ Die(t) \/ _endthread(t)
  PROVE  OrderlyParts'
<1>1. /\ UNCHANGED <<setting, map, serial, entry, crashed>> /\ named \subseteq named'
      /\ given' = given
      /\ Done(t) \/ (call' = call /\ Free(t))
  <2> USE DEF Private, kernel, history
  <2>1. CASE SetThreadPriority_set(t)
    BY <2>1 DEF SetThreadPriority_set
  <2>2. CASE GetExitCodeThread_read(t)
    BY <2>2 DEF GetExitCodeThread_read
  <2>3. CASE InitializeCriticalSection(t)
    BY <2>3 DEF InitializeCriticalSection
  <2>4. CASE DeleteCriticalSection(t)
    BY <2>4 DEF DeleteCriticalSection
  <2>5. CASE Lock(t)
    BY <2>5 DEF Lock
  <2>6. CASE LeaveCriticalSection(t)
    BY <2>6 DEF LeaveCriticalSection
  <2>7. CASE Die(t)
    BY <2>7 DEF Die
  <2>8. CASE _endthread(t)
    BY <2>8 DEF _endthread
  <2> QED BY <2>1, <2>2, <2>3, <2>4, <2>5, <2>6, <2>7, <2>8
<1>2. CASE Done(t)
  BY <1>1, <1>2, DoneCall, BaseParts, FinishOrderly
<1>3. CASE call' = call /\ Free(t)
  BY <1>1, <1>3, FinishOrderly DEF Others
<1> QED BY <1>1, <1>2, <1>3

LEMMA UseAfterDeleteOrderly ==
  ASSUME Orderly, NEW t \in Tid, UseAfterDelete(t)
  PROVE  FALSE
BY DEF Orderly, UseAfterDelete

LEMMA ThrowsOrderly ==
  ASSUME BaseInv, BaseInv', Orderly, OrderlyParts, NEW t \in Tid, ~crashed, Beginthread_throws(t)
  PROVE  OrderlyParts'
<1> USE BaseParts
<1> DEFINE place == IF call[t].wantsId THEN "lookup" ELSE "idle"
<1>1. /\ UNCHANGED <<setting, map, serial, entry, crashed, given, named>>
      /\ Return(t, place) /\ place \in Places /\ call[t].pc = "start"
  BY DEF Beginthread_throws, kernel, history, Places, At
<1>2. /\ call' \in [Tid -> Frame] /\ Others(t)
      /\ place = "idle" => call'[t] = Idle
      /\ place # "idle" => GoesTo(t, place)
  BY <1>1, ReturnCall
<1>0. place \in {"idle", "lookup"}
  OBVIOUS
<1> HIDE DEF place
<1>3. CASE place = "idle"
  BY <1>1, <1>2, <1>3, FinishOrderly
<1>4. CASE place = "lookup"
  <2>1. call'[t].pc = "lookup" /\ call'[t].op = "CreateThread" /\ call'[t].h = NULL
    BY <1>1, <1>2, <1>4 DEF GoesTo, ThreadsFit, InFunction
  <2>2. OwnFrame(t)
    BY <1>1, <2>1, Unmade DEF OwnFrame, Closing, Holding, TidPlace, Making, Acting
  <2>3. StableStep(t)
    BY <1>1, <1>2 DEF StableStep, StableTable
  <2> QED BY <2>2, <2>3, StableKeeps
<1> QED BY <1>0, <1>3, <1>4

LEMMA FindOrderly ==
  ASSUME BaseInv, BaseInv', Orderly, OrderlyParts, NEW t \in Tid, ~crashed, FindCurrentThread(t)
  PROVE  OrderlyParts'
<1> USE BaseParts
<1>1. /\ UNCHANGED <<setting, map, serial, entry, crashed, named>> /\ call[t].pc = "find"
  BY DEF FindCurrentThread, kernel, At
<1>2. PICK k \in H!find_thread_by_tid(t) :
        /\ given' = (given \cup {k}) \ {NULL}
        /\ Return(t, IF k = NULL /\ call[t].op = "GetCurrentThreadId"
                     THEN "register_self" ELSE "idle")
  BY DEF FindCurrentThread
<1>3. /\ k # NULL => k \in DOMAIN map /\ map[k].word = t
      /\ k = NULL => \A j \in DOMAIN map : map[j].word # t
  BY FoundKeys DEF OrderlyParts
<1>4. k # NULL => NotClosed(k)
  BY <1>1, <1>3 DEF NotClosed, Closing, OrderlyParts, SelvesAreNew, BeingClosed, Denotes
<1> DEFINE place == IF k = NULL /\ call[t].op = "GetCurrentThreadId"
                    THEN "register_self" ELSE "idle"
<1>5. /\ place \in Places /\ place \in {"register_self", "idle"}
      /\ place = "register_self" => k = NULL
      /\ Return(t, place)
  BY <1>2 DEF Places
<1> HIDE DEF place
<1>6. /\ call' \in [Tid -> Frame] /\ Others(t)
      /\ place = "idle" => call'[t] = Idle
      /\ place # "idle" => GoesTo(t, place)
  BY <1>5, ReturnCall
<1>7. StableStep(t)
  BY <1>1, <1>2, <1>3, <1>4, <1>6 DEF StableStep, StableTable
<1>8. OwnFrame(t)
  <2>1. CASE place = "idle"
    BY <1>6, <2>1, IdleOwnFrame
  <2>2. CASE place = "register_self"
    <3>1. /\ call'[t].pc = "register_self" /\ call'[t].op \in {"GetCurrentThreadId", "GetCurrentThread"}
      BY <1>1, <1>6, <2>2 DEF GoesTo, ThreadsFit, InFunction
    <3> QED BY <1>1, <1>3, <1>5, <2>2, <3>1, Unmade
            DEF OwnFrame, Closing, Holding, TidPlace, Making, OnHandle, Acting
  <2> QED BY <1>5, <2>1, <2>2
<1> QED BY <1>7, <1>8, StableKeeps

LEMMA LookupOrderly ==
  ASSUME BaseInv, BaseInv', Orderly, OrderlyParts, NEW t \in Tid, ~crashed, Lookup(t)
  PROVE  OrderlyParts'
<1> USE BaseParts
<1> DEFINE found == get_thread_tid(call[t].h)
           place == AfterLookup(call[t].op, found)
<1>1. /\ Others(t) /\ call[t].pc = "lookup"
      /\ place = "idle" => call'[t] = Idle
      /\ place # "idle" => LooksUp(t, found, place)
      /\ UNCHANGED <<setting, map, serial, entry, crashed, given, named>>
      /\ place \in Places \ {"start", "register", "detach", "find", "register_self",
                             "lookup", "store", "exit", "enter"}
  BY LookupFrame DEF kernel, history, At
<1>2. StableStep(t)
  BY <1>1 DEF StableStep, StableTable
<1>3. call[t].op \in OnHandle \cup {"CreateThread"} /\ Holding(t)
  BY <1>1 DEF ThreadsFit, InFunction, Holding
<1>4. call[t].h # NULL =>
        /\ call[t].h \in DOMAIN map
        /\ \A u \in Tid \ {t} : Closing(u) => call[u].h # call[t].h
  BY <1>3 DEF OrderlyParts, HandlesHeld
<1>5. found = IF call[t].h = NULL THEN Zero ELSE AsInt(map[call[t].h].word)
  BY <1>4, ThreadAssumption DEF get_thread_tid, H!Field, AsInt, OrderlyParts
<1> HIDE DEF found, place
<1>6. OwnFrame(t)
  <2>1. CASE place = "idle"
    BY <1>1, <2>1, IdleOwnFrame
  <2>2. CASE place # "idle"
    <3>1. /\ call'[t].pc = place /\ call'[t].op = call[t].op /\ call'[t].h = call[t].h
          /\ call'[t].tid = found
      BY <1>1, <2>2 DEF LooksUp
    <3>2. place \in {"activate", "erase", "cancel", "read", "schedule"}
      BY <1>1, <2>2 DEF Places
    <3>3. Closing(t)' => Closing(t) /\ call'[t].h = call[t].h
      BY <1>1, <3>1 DEF Closing
    <3>4. call'[t].op \in Acting /\ call'[t].h # NULL => entry[call'[t].h] \in named'
      BY <1>1, <3>1 DEF OrderlyParts, ActedOnIsNamed
    <3> QED BY <1>1, <1>4, <1>5, <3>1, <3>2, <3>3, <3>4, Unmade DEF OwnFrame, Making
  <2> QED BY <2>1, <2>2
<1> QED BY <1>2, <1>6, StableKeeps

LEMMA CancelOrderly ==
  ASSUME BaseInv, BaseInv', Orderly, OrderlyParts, NEW t \in Tid, ~crashed, Cancel(t)
  PROVE  OrderlyParts'
<1> USE BaseParts
<1> DEFINE place == IF Exists(call[t].tid) /\ call[t].op = "TerminateThread"
                    THEN "store" ELSE "idle"
<1>1. /\ UNCHANGED <<setting, map, serial, entry, crashed, given, named>>
      /\ call[t].pc = "cancel" /\ Return(t, place) /\ place \in Places
      /\ place \in {"store", "idle"}
  BY DEF Cancel, history, Places, At
<1> HIDE DEF place
<1>2. /\ Others(t)
      /\ place = "idle" => call'[t] = Idle
      /\ place # "idle" => GoesTo(t, place)
  BY <1>1, ReturnCall
<1>3. StableStep(t)
  BY <1>1, <1>2 DEF StableStep, StableTable
<1>4. OwnFrame(t)
  <2>1. CASE place = "idle"
    BY <1>2, <2>1, IdleOwnFrame
  <2>2. CASE place = "store"
    <3>1. /\ call'[t].pc = "store" /\ call'[t].op = call[t].op /\ call'[t].h = call[t].h
          /\ call'[t].tid = call[t].tid
      BY <1>2, <2>2 DEF GoesTo
    <3>2. call[t].op \in {"SuspendThread", "TerminateThread"}
      BY <1>1 DEF ThreadsFit, InFunction
    <3>3. Holding(t) /\ TidPlace(t)
      BY <1>1, <3>2 DEF Holding, TidPlace, OnHandle, Acting
    <3>4. /\ call[t].tid = IF call[t].h = NULL THEN Zero ELSE AsInt(map[call[t].h].word)
          /\ call[t].h # NULL =>
               /\ call[t].h \in DOMAIN map
               /\ \A u \in Tid \ {t} : Closing(u) => call[u].h # call[t].h
      BY <3>3 DEF OrderlyParts, TidsFit, HandlesHeld
    <3> QED BY <1>1, <3>1, <3>2, <3>4, Unmade DEF OwnFrame, Closing, Making
  <2> QED BY <1>1, <2>1, <2>2
<1> QED BY <1>3, <1>4, StableKeeps

(* The handle of a thread that was made: in the table, and not closed. *)
LEMMA HeldIsOpen ==
  ASSUME BaseInv, Orderly, OrderlyParts, NEW t \in Tid,
         call[t].op = "CreateThread", Holding(t), call[t].h # NULL
  PROVE  call[t].h \in DOMAIN map /\ NotClosed(call[t].h)
BY DEF OrderlyParts, HandlesHeld, NotClosed, Closing

LEMMA DetachOrderly ==
  ASSUME BaseInv, BaseInv', Orderly, OrderlyParts, NEW t \in Tid, ~crashed, Beginthread_detach(t)
  PROVE  OrderlyParts'
<1> USE BaseParts
<1> DEFINE place == IF call[t].wantsId THEN "lookup" ELSE "idle"
<1>1. /\ UNCHANGED <<setting, map, serial, entry, crashed, named>>
      /\ Return(t, place) /\ place \in Places /\ call[t].pc = "detach"
      /\ given' = IF call[t].wantsId /\ setting.orderly THEN given
                  ELSE (given \cup {call[t].h}) \ {NULL}
      /\ place \in {"lookup", "idle"}
  BY DEF Beginthread_detach, history, Places, At
<1> HIDE DEF place
<1>2. /\ Others(t)
      /\ place = "idle" => call'[t] = Idle
      /\ place # "idle" => GoesTo(t, place)
  BY <1>1, ReturnCall
<1>3. call[t].op = "CreateThread" /\ Holding(t)
  BY <1>1 DEF ThreadsFit, InFunction, Holding
<1>4. call[t].h # NULL => call[t].h \in DOMAIN map /\ NotClosed(call[t].h)
  BY <1>3, HeldIsOpen
<1>5. StableStep(t)
  BY <1>1, <1>2, <1>4 DEF StableStep, StableTable
<1>6. OwnFrame(t)
  <2>1. CASE place = "idle"
    BY <1>2, <2>1, IdleOwnFrame
  <2>2. CASE place = "lookup"
    <3>1. call'[t].pc = "lookup" /\ call'[t].op = "CreateThread" /\ call'[t].h = call[t].h
      BY <1>2, <1>3, <2>2 DEF GoesTo
    <3> QED BY <1>1, <1>4, <3>1, Unmade
            DEF OwnFrame, Closing, TidPlace, Making, Acting, NotClosed
  <2> QED BY <1>1, <2>1, <2>2
<1> QED BY <1>5, <1>6, StableKeeps

LEMMA StoringOrderly ==
  ASSUME BaseInv, BaseInv', Orderly, OrderlyParts, NEW t \in Tid, ~crashed, Storing(t)
  PROVE  OrderlyParts'
<1> USE BaseParts
<1>1. /\ UNCHANGED <<setting, serial, entry, crashed, named>> /\ DOMAIN map' = DOMAIN map
      /\ \A k \in DOMAIN map : map'[k].word = map[k].word
      /\ Others(t)
  BY DEF Storing, SetsCode
<1>2. ASSUME call[t].pc = "activate", call[t].op = "CreateThread", call[t].h # NULL
      PROVE  call[t].h \in DOMAIN map /\ NotClosed(call[t].h)
  BY <1>2, HeldIsOpen DEF Holding
<1>3. \A k \in given' : k \in given \/ (k \in DOMAIN map /\ NotClosed(k))
  BY <1>2 DEF Storing
<1>4. StableStep(t)
  BY <1>1, <1>3 DEF StableStep, StableTable
<1>5. OwnFrame(t)
  <2>1. CASE call'[t] = Idle
    BY <2>1, IdleOwnFrame
  <2>2. CASE call[t].op = "ExitThread" /\ call[t].pc = "store" /\ GoesTo(t, "exit")
    <3>1. call'[t].pc = "exit" /\ call'[t].op = "ExitThread"
      BY <2>2 DEF GoesTo
    <3> QED BY <2>2, <3>1, Unmade
            DEF OwnFrame, Closing, Holding, TidPlace, Making, OnHandle, Acting
  <2> QED BY <2>1, <2>2 DEF Storing
<1> QED BY <1>4, <1>5, StableKeeps

-----------------------------------------------------------------------------
(* The actions of orderly callers that change the entries or the threads.  *)

LEMMA StartOrderly ==
  ASSUME BaseInv, BaseInv', Orderly, OrderlyParts, NEW t \in Tid, Alive(t), ~crashed,
         Beginthread_start(t)
  PROVE  OrderlyParts'
<1> USE BaseParts
<1>1. PICK new \in Tid, m \in Serial : Newborn(t, new, m)
  BY StartMakesNewborn
<1>2. /\ UNCHANGED <<setting, map, entry, crashed, given, named>>
      /\ \A u \in Tid \ {t} : call'[u] = call[u]
      /\ call'[t].pc = "register" /\ call'[t].op = "CreateThread" /\ call'[t].made = new
      /\ \A u \in Tid \ {new} : serial'[u] = serial[u]
      /\ serial'[new] = m + 1 /\ new # t /\ call[new] = Idle
      /\ \A k \in DOMAIN map : entry[k] <= m /\ entry[k] \in Nat
      /\ setting.recycles \/ \A k \in DOMAIN map : map[k].word # new
      /\ m \in Nat
  BY <1>1 DEF Newborn, Others, Latest, TableFits, KernelTypes, Serial
<1>3. \A u \in Tid : Making(u) => call[u].made \in Tid \ {t, new} /\ call[call[u].made] = Idle
  <2>1. call[t].pc # "idle"
    BY DEF Beginthread_start, At
  <2> QED BY <1>1, <2>1, Unmade DEF Newborn, OrderlyParts, SelvesAreNew, ThreadsFit
<1>4. ~Closing(t)' /\ ~Holding(t)' /\ ~TidPlace(t)'
  BY <1>2 DEF Closing, Holding, TidPlace
<1>5. \A u \in Tid \ {t} : /\ Closing(u)' = Closing(u) /\ Holding(u)' = Holding(u)
                           /\ Making(u)' = Making(u) /\ TidPlace(u)' = TidPlace(u)
  BY <1>2 DEF Closing, Holding, Making, TidPlace
<1>6. NULL \notin DOMAIN map' /\ GivenOpen' /\ HandlesHeld'
  BY <1>2, <1>4, <1>5 DEF OrderlyParts, GivenOpen, HandlesHeld
<1>7. TidsFit'
  BY <1>2, <1>4, <1>5 DEF OrderlyParts, TidsFit, AsInt
<1>8. SelvesAreNew'
  <2> SUFFICES ASSUME NEW u \in Tid
               PROVE  /\ call'[u].pc = "find" => ~BeingClosed(u)'
                      /\ call'[u].pc = "register_self" => \A k \in DOMAIN map' : map'[k].word # u
                      /\ Making(u)' => /\ call'[call'[u].made] = Idle
                                       /\ call'[u].pc = "register" =>
                                            \A k \in DOMAIN map' : entry'[k] # serial'[call'[u].made]
    BY DEF SelvesAreNew
  <2>1. CASE u = t
    BY <1>2, <2>1
  <2>2. CASE u # t
    <3>1. ~BeingClosed(u) => ~BeingClosed(u)'
      BY <1>2 DEF BeingClosed, Denotes
    <3> QED BY <1>2, <1>3, <1>5, <2>2, <3>1 DEF OrderlyParts, SelvesAreNew
  <2> QED BY <2>1, <2>2
<1>9. ActedOnIsNamed'
  BY <1>2 DEF OrderlyParts, ActedOnIsNamed, Acting
<1>10. OneEntryEach' /\ OnlyTheDeadCrash'
  BY <1>2 DEF OrderlyParts, OneEntryEach, OnlyTheDeadCrash, Orderly
<1>11. EntriesCurrent'
  BY <1>2 DEF OrderlyParts, EntriesCurrent, TableFits, EntriesFit
<1> QED BY <1>6, <1>7, <1>8, <1>9, <1>10, <1>11 DEF OrderlyParts

(* A new entry k, for a thread that has none. *)
NewEntry(t, k, new) ==
  /\ Registers(k, new) /\ Others(t)
  /\ \A j \in DOMAIN map : entry[j] # serial[new]
  /\ given' \subseteq given \cup {k}
  /\ \A u \in Tid \ {t} : call[u].pc = "register_self" => u # new
  /\ \A u \in Tid \ {t} : Making(u) => call[u].made \notin {t, new}
  /\ call'[t].pc \in {"idle", "detach"} /\ call'[t].op \in {"CloseHandle", "CreateThread"}
  /\ call'[t].pc = "detach" => /\ call'[t].op = "CreateThread" /\ call'[t].h = k
                               /\ call'[t].made \in Tid /\ call'[call'[t].made] = Idle

LEMMA NewEntryOrderly ==
  ASSUME BaseInv, BaseInv', Orderly, OrderlyParts, NEW t \in Tid, ~crashed, NEW k, NEW new,
         NewEntry(t, k, new)
  PROVE  OrderlyParts'
<1> USE BaseParts
<1>1. /\ k \notin DOMAIN map /\ k # NULL /\ new \in Tid /\ serial[new] \in Serial
      /\ DOMAIN map' = DOMAIN map \cup {k} /\ DOMAIN entry = DOMAIN map /\ DOMAIN entry' = DOMAIN map'
      /\ \A j \in DOMAIN map : map'[j] = map[j] /\ entry'[j] = entry[j]
      /\ map'[k].word = new /\ entry'[k] = serial[new]
      /\ UNCHANGED <<setting, serial, crashed, named>>
      /\ \A u \in Tid \ {t} : call'[u] = call[u]
  BY DEF NewEntry, Registers, Others, TableFits, Orderly
<1>2. \A u \in Tid : Closing(u) => call[u].h # k
  <2>1. \A u \in Tid : Closing(u) => Holding(u)
    BY DEF Closing, Holding, ThreadsFit, InFunction, OnHandle
  <2> QED BY <1>1, <2>1 DEF OrderlyParts, HandlesHeld
<1>3. ~Closing(t)' /\ ~TidPlace(t)' /\ (Holding(t)' => call'[t].h = k)
  BY DEF NewEntry, Closing, TidPlace, Holding
<1>4. \A u \in Tid \ {t} : /\ Closing(u)' = Closing(u) /\ Holding(u)' = Holding(u)
                           /\ Making(u)' = Making(u) /\ TidPlace(u)' = TidPlace(u)
  BY <1>1 DEF Closing, Holding, Making, TidPlace
<1>5. NULL \notin DOMAIN map'
  BY <1>1 DEF OrderlyParts
<1>6. GivenOpen'
  BY <1>1, <1>2, <1>3, <1>4 DEF OrderlyParts, GivenOpen, NewEntry
<1>7. HandlesHeld'
  BY <1>1, <1>2, <1>3, <1>4 DEF OrderlyParts, HandlesHeld
<1>8. TidsFit'
  <2>1. \A u \in Tid : TidPlace(u) => Holding(u)
    BY DEF TidPlace, Holding, ThreadsFit, InFunction, OnHandle, Acting
  <2> QED BY <1>1, <1>3, <1>4, <2>1 DEF OrderlyParts, TidsFit, HandlesHeld, AsInt
<1>9. SelvesAreNew'
  <2> SUFFICES ASSUME NEW u \in Tid
               PROVE  /\ call'[u].pc = "find" => ~BeingClosed(u)'
                      /\ call'[u].pc = "register_self" => \A j \in DOMAIN map' : map'[j].word # u
                      /\ Making(u)' => /\ call'[call'[u].made] = Idle
                                       /\ call'[u].pc = "register" =>
                                            \A j \in DOMAIN map' : entry'[j] # serial'[call'[u].made]
    BY DEF SelvesAreNew
  <2>1. CASE u = t
    BY <2>1 DEF NewEntry, Making
  <2>2. CASE u # t
    <3>1. ~BeingClosed(u) => ~BeingClosed(u)'
      BY <1>1, <1>2, <1>3, <1>4 DEF BeingClosed, Denotes, Closing
    <3>2. call[u].pc = "register_self" => \A j \in DOMAIN map' : map'[j].word # u
      BY <1>1, <2>2 DEF NewEntry, OrderlyParts, SelvesAreNew
    <3>3. ASSUME Making(u)
          PROVE  /\ call'[call[u].made] = Idle
                 /\ call[u].pc = "register" =>
                      \A j \in DOMAIN map' : entry'[j] # serial'[call[u].made]
      <4>1. /\ call[u].made \in Tid \ {t, new} /\ call[call[u].made] = Idle
            /\ call[u].pc = "register" => \A j \in DOMAIN map : entry[j] # serial[call[u].made]
        BY <2>2, <3>3 DEF NewEntry, OrderlyParts, SelvesAreNew, ThreadsFit
      <4>2. serial[call[u].made] # serial[new]
        BY <1>1, <4>1 DEF SerialsDiffer, Serial, NoSerial
      <4> QED BY <1>1, <4>1, <4>2
    <3> QED BY <1>1, <1>4, <2>2, <3>1, <3>2, <3>3 DEF OrderlyParts, SelvesAreNew
  <2> QED BY <2>1, <2>2
<1>10. ActedOnIsNamed'
  <2>1. call'[t].op \notin Acting
    BY DEF NewEntry, Acting
  <2>2. \A u \in Tid : call[u].op \in Acting /\ call[u].pc \in {"lookup", "cancel", "schedule"}
                         /\ call[u].h # NULL => call[u].h \in DOMAIN map
    BY DEF OrderlyParts, HandlesHeld, Holding, OnHandle
  <2> QED BY <1>1, <2>1, <2>2 DEF OrderlyParts, ActedOnIsNamed
<1>11. OneEntryEach'
  BY <1>1 DEF NewEntry, OrderlyParts, OneEntryEach, Orderly
<1>12. OnlyTheDeadCrash' /\ EntriesCurrent'
  BY <1>1 DEF OrderlyParts, OnlyTheDeadCrash, EntriesCurrent
<1> QED BY <1>5, <1>6, <1>7, <1>8, <1>9, <1>10, <1>11, <1>12 DEF OrderlyParts

LEMMA RegisterOrderly ==
  ASSUME BaseInv, BaseInv', Orderly, OrderlyParts, NEW t \in Tid, ~crashed,
         NEW r, NEW k \in MinInt..MaxInt, Beginthread_register(t, r, k)
  PROVE  OrderlyParts'
<1> USE BaseParts
<1> DEFINE new == call[t].made
<1>1. /\ Others(t) /\ Registers(k, new) /\ UNCHANGED given /\ Making(t) /\ new \in Tid
      /\ call[t].pc = "register" /\ call'[t].pc = "detach" /\ call'[t].h = k
      /\ call'[t].made = new /\ call'[t].op = "CreateThread"
  BY RegisterFrame
<1>2. call[new] = Idle /\ \A j \in DOMAIN map : entry[j] # serial[new]
  BY <1>1 DEF OrderlyParts, SelvesAreNew
<1>3. new # t /\ call'[new] = Idle
  BY <1>1, <1>2, IdleFrame DEF Others
<1>4. \A u \in Tid \ {t} : Making(u) => call[u].made \notin {t, new}
  BY <1>1, Unmade DEF ThreadsFit
<1>5. \A u \in Tid : call[u].pc = "register_self" => u # new
  BY <1>2, IdleFrame
<1> HIDE DEF new
<1>6. NewEntry(t, k, new)
  BY <1>1, <1>2, <1>3, <1>4, <1>5 DEF NewEntry
<1> QED BY <1>6, NewEntryOrderly

LEMMA RegisterSelfOrderly ==
  ASSUME BaseInv, BaseInv', Orderly, OrderlyParts, NEW t \in Tid, Alive(t), ~crashed,
         NEW r, NEW k \in MinInt..MaxInt, GetCurrentThreadId_register(t, r, k)
  PROVE  OrderlyParts'
<1> USE BaseParts
<1>1. /\ Others(t) /\ call'[t] = Idle /\ Registers(k, t) /\ given' = (given \cup {k}) \ {NULL}
      /\ call[t].pc = "register_self"
  BY RegisterSelfFrame
<1>2. \A j \in DOMAIN map : entry[j] # serial[t]
  BY <1>1 DEF OrderlyParts, SelvesAreNew, TableFits, EntriesFit
<1>3. \A u \in Tid \ {t} : Making(u) => call[u].made # t
  BY <1>1, Unmade
<1>4. NewEntry(t, k, t)
  BY <1>1, <1>2, <1>3, IdleFrame DEF NewEntry
<1> QED BY <1>4, NewEntryOrderly

LEMMA EraseOrderly ==
  ASSUME BaseInv, BaseInv', Orderly, OrderlyParts, NEW t \in Tid, ~crashed, CloseHandle_erase(t)
  PROVE  OrderlyParts'
<1> USE BaseParts
<1>1. /\ call'[t] = Idle /\ Closing(t)
      /\ \A u \in Tid \ {t} : call'[u] = call[u]
      /\ DOMAIN map' = DOMAIN map \ {call[t].h} /\ DOMAIN entry' = DOMAIN map' /\ DOMAIN entry = DOMAIN map
      /\ \A k \in DOMAIN map' : map'[k] = map[k] /\ entry'[k] = entry[k]
      /\ UNCHANGED <<setting, serial, crashed, given, named>>
  BY EraseFrame DEF Closing, Others, TableFits
<1>2. ~Closing(t)' /\ ~TidPlace(t)' /\ ~Holding(t)' /\ ~Making(t)' /\ call'[t].pc = "idle"
  BY <1>1, IdleFrame DEF Closing, TidPlace, Holding, Making
<1>3. \A u \in Tid \ {t} : /\ Closing(u)' = Closing(u) /\ Holding(u)' = Holding(u)
                           /\ Making(u)' = Making(u) /\ TidPlace(u)' = TidPlace(u)
  BY <1>1 DEF Closing, Holding, Making, TidPlace
<1>4. \A u \in Tid \ {t} : Holding(u) /\ call[u].h # NULL => call[u].h \in DOMAIN map'
  BY <1>1 DEF OrderlyParts, HandlesHeld
<1>5. NULL \notin DOMAIN map'
  BY <1>1 DEF OrderlyParts
<1>6. GivenOpen'
  BY <1>1, <1>2, <1>3 DEF OrderlyParts, GivenOpen
<1>7. HandlesHeld'
  BY <1>1, <1>2, <1>3, <1>4 DEF OrderlyParts, HandlesHeld
<1>8. TidsFit'
  <2>1. \A u \in Tid : TidPlace(u) => Holding(u)
    BY DEF TidPlace, Holding, ThreadsFit, InFunction, OnHandle, Acting
  <2> QED BY <1>1, <1>2, <1>3, <1>4, <2>1 DEF OrderlyParts, TidsFit, AsInt
<1>9. SelvesAreNew'
  <2> SUFFICES ASSUME NEW u \in Tid, u # t
               PROVE  /\ call[u].pc = "find" => ~BeingClosed(u)'
                      /\ call[u].pc = "register_self" => \A j \in DOMAIN map' : map'[j].word # u
                      /\ Making(u) => /\ call'[call[u].made] = Idle
                                      /\ call[u].pc = "register" =>
                                           \A j \in DOMAIN map' : entry'[j] # serial'[call[u].made]
    BY <1>1, <1>2, <1>3 DEF SelvesAreNew
  <2>1. ~BeingClosed(u) => ~BeingClosed(u)'
    BY <1>1, <1>2, <1>3 DEF BeingClosed, Denotes, Closing
  <2>2. Making(u) => call'[call[u].made] = Idle
    BY <1>1 DEF OrderlyParts, SelvesAreNew, ThreadsFit
  <2> QED BY <1>1, <2>1, <2>2 DEF OrderlyParts, SelvesAreNew
<1>10. ActedOnIsNamed'
  <2>1. \A u \in Tid \ {t} :
          call[u].op \in Acting /\ call[u].pc \in {"lookup", "cancel", "schedule"} => Holding(u)
    BY DEF Holding, OnHandle
  <2> QED BY <1>1, <1>2, <1>4, <2>1 DEF OrderlyParts, ActedOnIsNamed
<1>11. OneEntryEach' /\ OnlyTheDeadCrash' /\ EntriesCurrent'
  BY <1>1 DEF OrderlyParts, OneEntryEach, OnlyTheDeadCrash, EntriesCurrent, Orderly
<1> QED BY <1>5, <1>6, <1>7, <1>8, <1>9, <1>10, <1>11 DEF OrderlyParts

(* A pthread call that crashes was given a thread that has ended. *)
LEMMA CrashOrderly ==
  ASSUME BaseInv, Orderly, OrderlyParts, NEW t \in Tid, PthreadCrashes(t)
  PROVE  OrderlyParts'
<1> USE BaseParts
<1>1. /\ UNCHANGED <<setting, map, life, serial, call, given, entry, named>>
      /\ call[t].pc \in {"cancel", "schedule"} /\ ~Exists(call[t].tid)
      /\ DOMAIN entry = DOMAIN map
  BY DEF PthreadCrashes, kernel, history, TableFits
<1>2. /\ NULL \notin DOMAIN map' /\ GivenOpen' /\ HandlesHeld' /\ ActedOnIsNamed'
  BY <1>1 DEF OrderlyParts, GivenOpen, HandlesHeld, ActedOnIsNamed, Closing, Holding
<1>3. TidsFit'
  BY <1>1 DEF OrderlyParts, TidsFit, TidPlace, AsInt
<1>4. SelvesAreNew'
  BY <1>1 DEF OrderlyParts, SelvesAreNew, BeingClosed, Denotes, Making
<1>5. OneEntryEach' /\ EntriesCurrent'
  BY <1>1 DEF OrderlyParts, OneEntryEach, EntriesCurrent, Orderly
<1>6. OnlyTheDeadCrash'
  <2> SUFFICES ASSUME ~setting.wide, call[t].h \in DOMAIN entry, NEW u \in Tid,
                      serial[u] = entry[call[t].h]
               PROVE  ~Alive(u)
    BY <1>1 DEF OnlyTheDeadCrash, Alive
  <2>1. call[t].tid = map[call[t].h].word
    BY <1>1 DEF OrderlyParts, TidsFit, TidPlace, AsInt
  <2>2. map[call[t].h].word = u
    BY <1>1 DEF TableFits, EntriesFit
  <2> QED BY <1>1, <2>1, <2>2 DEF Exists, Alive
<1> QED BY <1>2, <1>3, <1>4, <1>5, <1>6 DEF OrderlyParts

LEMMA StepsOrderly ==
  ASSUME BaseInv, OrderlyInv, NEW t \in Tid, Steps(t)
  PROVE  OrderlyInv'
<1> SUFFICES ASSUME Orderly'
             PROVE  OrderlyParts'
  BY DEF OrderlyInv
<1>1. BaseInv' /\ ~crashed /\ Alive(t)
  BY StepsKeepBase DEF Steps
<1>2. setting' = setting
  BY SetsNoSetting
<1>3. Orderly /\ OrderlyParts
  BY <1>2 DEF Orderly, OrderlyInv
<1> QED BY <1>1, <1>3, CallsOrderly, FinishesOrderly, UseAfterDeleteOrderly, ThrowsOrderly, FindOrderly,
           LookupOrderly, CancelOrderly, DetachOrderly, StoringOrderly, StartOrderly,
           RegisterOrderly, RegisterSelfOrderly, EraseOrderly, CrashOrderly
        DEF Steps

LEMMA StutterOrderly ==
  ASSUME BaseInv, OrderlyInv, UNCHANGED vars
  PROVE  OrderlyInv'
<1>1. UNCHANGED <<setting, map, life, serial, call, crashed, given, entry, named>>
  BY DEF vars, kernel, history
<1> SUFFICES ASSUME Orderly PROVE OrderlyParts'
  BY <1>1 DEF OrderlyInv, Orderly
<1>0. OrderlyParts
  BY DEF OrderlyInv
<1>2. /\ NULL \notin DOMAIN map' /\ GivenOpen' /\ HandlesHeld' /\ ActedOnIsNamed'
  BY <1>0, <1>1 DEF OrderlyParts, GivenOpen, HandlesHeld, ActedOnIsNamed, Closing, Holding
<1>3. TidsFit'
  BY <1>0, <1>1 DEF OrderlyParts, TidsFit, TidPlace, AsInt
<1>4. SelvesAreNew'
  BY <1>0, <1>1 DEF OrderlyParts, SelvesAreNew, BeingClosed, Denotes, Making
<1>5. OneEntryEach' /\ EntriesCurrent'
  BY <1>0, <1>1 DEF OrderlyParts, OneEntryEach, EntriesCurrent, Orderly
<1>6. OnlyTheDeadCrash'
  BY <1>0, <1>1 DEF OrderlyParts, OnlyTheDeadCrash, Alive, Orderly
<1> QED BY <1>2, <1>3, <1>4, <1>5, <1>6 DEF OrderlyParts

LEMMA InitOrderly ==
  ASSUME Init
  PROVE  OrderlyInv
<1>1. /\ DOMAIN map = {} /\ DOMAIN entry = {} /\ given = {} /\ ~crashed
      /\ \A t \in Tid : call[t] = Idle
  BY DEF Init, H!Init
<1>2. \A t \in Tid : ~Closing(t) /\ ~Holding(t) /\ ~TidPlace(t) /\ ~Making(t) /\ call[t].pc = "idle"
  BY <1>1, IdleFrame DEF Closing, Holding, TidPlace, Making
<1> QED BY <1>1, <1>2
        DEF OrderlyInv, OrderlyParts, GivenOpen, HandlesHeld, TidsFit, SelvesAreNew, ActedOnIsNamed,
            OneEntryEach, OnlyTheDeadCrash, EntriesCurrent

LEMMA OrderlyInvariant == Init /\ [][Next]_vars => [](BaseInv /\ OrderlyInv)
<1>1. Init => OrderlyInv
  BY InitOrderly
<1>2. BaseInv /\ OrderlyInv /\ [Next]_vars => OrderlyInv'
  BY NextIsSteps, StepsOrderly, StutterOrderly
<1> QED BY <1>1, <1>2, BaseInvariant, PTL

-----------------------------------------------------------------------------
(* Only the thread that was named is touched.                              *)

(* The pthread_t that a function acting on a handle uses is the thread's   *)
(* that the handle was made for.                                           *)
LEMMA TargetIsNamed ==
  ASSUME BaseInv, Orderly, OrderlyParts, ~setting.recycles, NEW t \in Tid,
         call[t].pc \in {"cancel", "schedule"}, call[t].op \in Acting, call[t].tid \in Tid
  PROVE  serial[call[t].tid] \in named
<1>1. call[t].h # NULL /\ call[t].tid = AsInt(map[call[t].h].word)
  BY ThreadAssumption DEF OrderlyParts, TidsFit, TidPlace
<1>2. call[t].h \in DOMAIN map
  BY <1>1 DEF OrderlyParts, HandlesHeld, Holding, OnHandle
<1>3. call[t].tid = map[call[t].h].word
  BY <1>1, ThreadAssumption DEF AsInt
<1>4. serial[call[t].tid] = entry[call[t].h]
  BY <1>2, <1>3 DEF OrderlyParts, EntriesCurrent
<1> QED BY <1>1, <1>4 DEF OrderlyParts, ActedOnIsNamed

LEMMA TargetIsThread ==
  ASSUME BaseInv, Orderly, OrderlyParts, NEW t \in Tid,
         call[t].pc = "schedule", call[t].op = "SetThreadPriority"
  PROVE  call[t].tid \in Tid \cup {CutTid}
<1>1. call[t].tid # Zero /\ call[t].tid = IF call[t].h = NULL THEN Zero ELSE AsInt(map[call[t].h].word)
  BY BaseParts DEF ThreadsFit, InFunction, OrderlyParts, TidsFit, TidPlace
<1>2. call[t].h # NULL => call[t].h \in DOMAIN map
  BY DEF OrderlyParts, HandlesHeld, Holding, OnHandle, Acting
<1>3. \A k \in DOMAIN map : map[k].word \in Tid
  BY BaseParts DEF TableFits, EntriesFit
<1> QED BY <1>1, <1>2, <1>3 DEF AsInt

(* What a step does to another's life and priority. *)
Touches(u) ==
  serial[u] # NoSerial /\ serial'[u] = serial[u] =>
    /\ life[u] = "running" /\ life'[u] = "cancelled" => serial[u] \in named'
    /\ prio'[u] # prio[u] =>
         \E meant \in Tid \cup {CutTid} :
           /\ SettingPriorityOf(meant) # {} /\ u \in {meant, Main}
           /\ meant \in Tid => serial[meant] \in named /\ prio'[meant]

LEMMA StepsTouch ==
  ASSUME BaseInv, OrderlyInv, Orderly, ~setting.recycles, NEW t \in Tid, Steps(t), NEW u \in Tid
  PROVE  Touches(u)
<1> USE BaseParts
<1>0. OrderlyParts
  BY DEF OrderlyInv
<1>1. CASE Cancel(t)
  <2>1. /\ UNCHANGED <<prio, named>> /\ call[t].pc = "cancel"
        /\ life' = IF Exists(call[t].tid) /\ life[call[t].tid] = "running"
                   THEN [life EXCEPT ![call[t].tid] = "cancelled"] ELSE life
    BY <1>1 DEF Cancel, history, At
  <2>2. life[u] = "running" /\ life'[u] = "cancelled" => u = call[t].tid
    BY <2>1 DEF KernelTypes
  <2>3. call[t].op \in Acting
    BY <2>1 DEF ThreadsFit, InFunction, Acting
  <2> QED BY <1>0, <2>1, <2>2, <2>3, TargetIsNamed DEF Touches
<1>2. CASE SetThreadPriority_set(t)
  <2>1. UNCHANGED <<life, named>> /\ call[t].pc = "schedule"
    BY <1>2 DEF SetThreadPriority_set, history, At
  <2>2. prio'[u] # prio[u] => call[t].op = "SetThreadPriority" /\ u \in {Main, call[t].tid}
    BY <1>2, ZenonT(60) DEF SetThreadPriority_set
  <2> DEFINE meant == call[t].tid
  <2>3. ASSUME prio'[u] # prio[u]
        PROVE  /\ meant \in Tid \cup {CutTid} /\ t \in SettingPriorityOf(meant) /\ u \in {meant, Main}
               /\ meant \in Tid => serial[meant] \in named /\ prio'[meant]
    <3>1. call[t].op = "SetThreadPriority" /\ u \in {meant, Main}
      BY <2>2, <2>3
    <3>2. meant \in Tid \cup {CutTid}
      BY <1>0, <2>1, <3>1, TargetIsThread DEF Acting
    <3>3. t \in SettingPriorityOf(meant)
      BY <2>1, <3>1 DEF SettingPriorityOf, At
    <3>4. meant \in Tid => serial[meant] \in named
      BY <1>0, <2>1, <3>1, TargetIsNamed DEF Acting
    <3>5. prio' = [v \in Tid |-> prio[v] \/ v \in {Main, meant}]
      BY <1>2, <2>3, ZenonT(60) DEF SetThreadPriority_set
    <3>6. meant \in Tid => prio'[meant]
      BY <3>5, Zenon
    <3> QED BY <3>1, <3>2, <3>3, <3>4, <3>6
  <2> HIDE DEF meant
  <2> QED BY <2>1, <2>3 DEF Touches
<1>3. CASE _endthread(t)
  <2>1. /\ life' = [life EXCEPT ![t] = "cancelled"] /\ named' = named \cup {serial[t]}
        /\ prio' = prio
    BY <1>3 DEF _endthread
  <2> QED BY <2>1 DEF Touches, KernelTypes
<1>4. CASE Beginthread_start(t)
  <2>1. PICK new \in Tid, m \in Serial : Newborn(t, new, m)
    BY <1>4, StartMakesNewborn DEF Steps
  <2>2. u # new => prio'[u] = prio[u] /\ life'[u] = life[u]
    BY <2>1 DEF Newborn, KernelTypes
  <2>3. u = new => serial'[u] # serial[u]
    BY <2>1 DEF Newborn, Latest, KernelTypes, Serial, NoSerial
  <2> QED BY <2>2, <2>3 DEF Touches
<1>5. CASE Die(t)
  <2>1. /\ life' = [life EXCEPT ![t] = IF detached[t] THEN "none" ELSE "gone"] /\ prio' = prio
    BY <1>5 DEF Die
  <2> QED BY <2>1 DEF Touches, KernelTypes
<1>6. CASE Beginthread_detach(t)
  <2>1. /\ life' = [life EXCEPT ![call[t].made] = IF @ = "gone" THEN "none" ELSE @] /\ prio' = prio
    BY <1>6 DEF Beginthread_detach
  <2> QED BY <2>1 DEF Touches, KernelTypes
<1>7. CASE UNCHANGED <<life, prio>>
  BY <1>7 DEF Touches
<1>8. ASSUME ~Cancel(t), ~SetThreadPriority_set(t), ~_endthread(t), ~Beginthread_start(t), ~Die(t),
             ~Beginthread_detach(t)
      PROVE  UNCHANGED <<life, prio>>
  BY <1>8
     DEF Steps, CallStep, Begin, Beginthread_throws, FindCurrentThread, Lookup,
         GetExitCodeThread_read, InitializeCriticalSection, DeleteCriticalSection, Lock,
         LeaveCriticalSection, UseAfterDelete, PthreadCrashes, Beginthread_register,
         GetCurrentThreadId_register, Register, Storing, SetsCode, CloseHandle_erase, Private, kernel
<1> QED BY <1>1, <1>2, <1>3, <1>4, <1>5, <1>6, <1>7, <1>8

(* TerminateThread, SuspendThread, SetThreadPriority: for orderly callers  *)
(* and a system that does not recycle a pthread_t that the table has, a    *)
(* thread is cancelled only after its own handle was passed to a function, *)
(* whatever the interleaving and however many threads there are.  The      *)
(* priority of a thread other than the first changes only when its own     *)
(* handle was passed; the first thread's changes, unnamed, whenever        *)
(* anybody's is set, also when a pthread_t wider than int reaches nobody.  *)
THEOREM NamedAlone == Spec => OnlyTheNamedThreadIsTouched
<1>1. ASSUME BaseInv, OrderlyInv, [Next]_vars
      PROVE  [ Orderly /\ ~setting.recycles =>
                 \A t \in Tid : serial[t] # NoSerial /\ serial'[t] = serial[t] =>
                   /\ life[t] = "running" /\ life'[t] = "cancelled" => serial[t] \in named'
                   /\ prio'[t] # prio[t] =>
                        \E meant \in Tid \cup {CutTid} :
                          /\ SettingPriorityOf(meant) # {} /\ t \in {meant, Main}
                          /\ meant \in Tid => serial[meant] \in named /\ prio'[meant] ]_vars
  <2>1. CASE Next
    <3>1. PICK t \in Tid : Steps(t)
      BY <1>1, <2>1, NextIsSteps
    <3>2. Orderly /\ ~setting.recycles => \A u \in Tid : Touches(u)
      BY <1>1, <3>1, StepsTouch
    <3> QED BY <3>2 DEF Touches
  <2>2. CASE UNCHANGED vars
    BY <2>2
  <2> QED BY <1>1, <2>1, <2>2
<1> QED BY <1>1, OrderlyInvariant, PTL DEF Spec, OnlyTheNamedThreadIsTouched

-----------------------------------------------------------------------------
(* Exit codes, where a pthread_t fits an int and none is recycled.         *)

(* A thread that does something is in a function, may begin one, or ends;  *)
(* a new thread that its creator still holds is none of these.             *)
Acts(t) == Free(t) \/ call[t].pc # "idle" \/ life[t] = "cancelled"

LEMMA StepsAct ==
  ASSUME Orderly, NEW t \in Tid, Steps(t)
  PROVE  Acts(t)
<1> USE DEF Acts, At
<1>1. ASSUME NEW f \in Frame, CallStep(t, f) PROVE Acts(t)
  BY <1>1 DEF CallStep, Begin
<1>2. CASE Beginthread_throws(t) \/ Beginthread_start(t) \/ Beginthread_detach(t)
  BY <1>2 DEF Beginthread_throws, Beginthread_start, Beginthread_detach
<1>3. CASE FindCurrentThread(t) \/ Lookup(t) \/ GetExitCodeThread_read(t)
  BY <1>3 DEF FindCurrentThread, Lookup, GetExitCodeThread_read
<1>4. CASE SetThreadPriority_set(t) \/ PthreadCrashes(t) \/ Cancel(t)
  BY <1>4 DEF SetThreadPriority_set, PthreadCrashes, Cancel
<1>5. CASE \/ InitializeCriticalSection(t) \/ DeleteCriticalSection(t)
           \/ LeaveCriticalSection(t) \/ Lock(t)
  BY <1>5 DEF InitializeCriticalSection, DeleteCriticalSection, LeaveCriticalSection, Lock
<1>6. CASE Die(t) /\ (~At(t, "idle") \/ Free(t) \/ life[t] = "cancelled")
  BY <1>6
<1>7. CASE _endthread(t) \/ CloseHandle_erase(t)
  BY <1>7 DEF _endthread, CloseHandle_erase
<1>8. ASSUME NEW r, NEW k, Beginthread_register(t, r, k) \/ GetCurrentThreadId_register(t, r, k)
      PROVE  Acts(t)
  BY <1>8 DEF Beginthread_register, GetCurrentThreadId_register
<1>9. CASE Storing(t)
  BY <1>9 DEF Storing
<1> QED BY <1>1, <1>2, <1>3, <1>4, <1>5, <1>6, <1>7, <1>8, <1>9, UseAfterDeleteOrderly DEF Steps

LEMMA NewbornsDoNotAct ==
  ASSUME BaseInv, Orderly, NEW t \in Tid, Creating(t), call[t].made \in Tid, NewbornWaits(t),
         NEW v \in Tid, Acts(v)
  PROVE  v # call[t].made
<1>1. Alive(t)
  BY BaseParts, IdleFrame DEF ThreadsFit, Creating
<1>2. BeingMade(call[t].made)
  BY <1>1 DEF BeingMade
<1> QED BY <1>2, IdleFrame DEF Acts, Free, Orderly, NewbornWaits

(* The thread that v's handle stands for. *)
HasHandleOf(v, s) == Holding(v) /\ call[v].h \in DOMAIN map /\ entry[call[v].h] = s

(* What a step of v may do to the others' new threads. *)
Gentle(v) ==
  /\ Others(v) /\ Acts(v)
  /\ \A u \in Tid \ {v} : life[u] = "running" /\ life'[u] # "running" => HasHandleOf(v, serial[u])
  /\ \A u \in Tid : life[u] = "running" => serial'[u] = serial[u]
  /\ \A s \in Serial : said'[s] \in {said[s], Zero} \/ s = serial[v] \/ HasHandleOf(v, s)
  /\ \A k \in DOMAIN map : k \in DOMAIN map' \/ (Holding(v) /\ call[v].h = k)
  /\ \A k \in DOMAIN map \cap DOMAIN map' : entry'[k] = entry[k]
  /\ \A k \in given' \cap DOMAIN map : k \in given \/ HasHandleOf(v, entry[k]) \/ entry[k] = serial[v]
  /\ Holding(v)' => \/ call'[v].h \notin DOMAIN map
                    \/ call'[v].h \in given
                    \/ Holding(v) /\ call'[v].h = call[v].h

LEMMA GentleKeepsNewborns ==
  ASSUME BaseInv, Orderly, OrderlyParts, NewbornsWait, NEW v \in Tid, Gentle(v),
         NEW t \in Tid \ {v}
  PROVE  CreationFits(t)'
<1> USE BaseParts
<1>1. call'[t] = call[t]
  BY DEF Gentle, Others
<1> SUFFICES ASSUME Creating(t), call[t].made \in Tid
             PROVE  NewbornWaits(t)'
  BY <1>1 DEF CreationFits, Creating, NewbornsWait
<1> DEFINE new == call[t].made
<1>2. NewbornWaits(t) /\ CreationFits(t)
  BY DEF NewbornsWait, CreationFits
<1>3. v # new /\ life[new] = "running" /\ call[new] = Idle /\ said[serial[new]] = Zero
  BY <1>2, NewbornsDoNotAct DEF Gentle, NewbornWaits
<1>4. call'[new] = Idle
  BY <1>3 DEF Gentle, Others
<1>5. serial[new] \in Serial /\ serial[new] # serial[v] /\ serial'[new] = serial[new]
  <2>1. serial[new] \in Serial
    BY <1>3, AliveHasSerial DEF Alive
  <2> QED BY <1>3, <2>1 DEF SerialsDiffer, Gentle, Serial, NoSerial
<1>6. ~HasHandleOf(v, serial[new])
  <2>1. CASE call[t].pc = "register"
    BY <2>1 DEF OrderlyParts, SelvesAreNew, Making, HasHandleOf
  <2>2. CASE call[t].pc # "register"
    <3>1. /\ call[t].h \in DOMAIN map /\ entry[call[t].h] = serial[new]
          /\ Holding(v) => call[v].h # call[t].h
      BY <1>2, <2>2 DEF NewbornWaits
    <3> QED BY <3>1 DEF HasHandleOf, OrderlyParts, OneEntryEach, TableFits
  <2> QED BY <2>1, <2>2
<1>7. life'[new] = "running" /\ said'[serial'[new]] = Zero
  BY <1>3, <1>5, <1>6 DEF Gentle
<1>8. ASSUME call[t].pc # "register"
      PROVE  /\ call[t].h \in DOMAIN map' /\ entry'[call[t].h] = serial'[new]
             /\ call[t].h \notin given'
             /\ \A u \in Tid \ {t} : Holding(u)' => call'[u].h # call[t].h
  <2>1. /\ call[t].h \in DOMAIN map /\ entry[call[t].h] = serial[new]
        /\ call[t].h \notin given
        /\ \A u \in Tid \ {t} : Holding(u) => call[u].h # call[t].h
    BY <1>2, <1>8 DEF NewbornWaits
  <2>2. call[t].h \in DOMAIN map' /\ entry'[call[t].h] = serial'[new]
    BY <1>5, <2>1 DEF Gentle
  <2>3. call[t].h \notin given'
    BY <1>5, <1>6, <2>1 DEF Gentle
  <2>4. ASSUME NEW u \in Tid \ {t}, Holding(u)' PROVE call'[u].h # call[t].h
    <3>1. CASE u = v
      BY <2>1, <2>4, <3>1 DEF Gentle
    <3>2. CASE u # v
      BY <2>1, <2>4, <3>2 DEF Gentle, Others, Holding
    <3> QED BY <3>1, <3>2
  <2> QED BY <2>2, <2>3, <2>4
<1> QED BY <1>1, <1>4, <1>7, <1>8 DEF NewbornWaits

(* Steps that change neither the table nor the codes. *)
Quiet(v) ==
  /\ UNCHANGED <<map, entry, said, serial>> /\ Others(v) /\ Acts(v)
  /\ \A u \in Tid \ {v} : life[u] = "running" /\ life'[u] # "running" => HasHandleOf(v, serial[u])
  /\ \A u \in Tid : Alive(u)' => Alive(u)
  /\ \A k \in given' \cap DOMAIN map : k \in given \/ HasHandleOf(v, entry[k]) \/ entry[k] = serial[v]
  /\ Holding(v)' => \/ call'[v].h \notin DOMAIN map
                    \/ call'[v].h \in given
                    \/ Holding(v) /\ call'[v].h = call[v].h
  /\ call[v].pc = "exit" => call'[v].pc = "exit" \/ ~Alive(v)'
  /\ CreationFits(v)'

LEMMA QuietKeeps ==
  ASSUME BaseInv, Orderly, OrderlyParts, SteadyParts, NEW v \in Tid, Quiet(v)
  PROVE  SteadyParts'
<1>1. Gentle(v)
  BY DEF Quiet, Gentle
<1>2. NewbornsWait'
  BY <1>1, GentleKeepsNewborns DEF SteadyParts, NewbornsWait, Quiet
<1>3. CodesMatch'
  BY DEF Quiet, SteadyParts, CodesMatch
<1>4. UnregisteredUnsaid'
  <2> SUFFICES ASSUME NEW t \in Tid, serial[t] # NoSerial, said[serial[t]] # Zero,
                      \A k \in DOMAIN map : entry[k] # serial[t], Alive(t)'
               PROVE  call'[t].pc = "exit"
    BY DEF UnregisteredUnsaid, Quiet
  <2>1. call[t].pc = "exit"
    BY DEF SteadyParts, UnregisteredUnsaid, Quiet
  <2> QED BY <2>1 DEF Quiet, Others
<1> QED BY <1>2, <1>3, <1>4 DEF SteadyParts

(* The creation that v itself goes on with. *)
LEMMA OwnNewbornWaits ==
  ASSUME BaseInv, Orderly, OrderlyParts, SteadyParts, NEW v \in Tid, Acts(v), Others(v),
         UNCHANGED <<map, entry, said, serial, given>>,
         \A u \in Tid : life[u] = "running" => life'[u] = "running",
         Creating(v), call[v].pc # "register", call'[v].pc # "register",
         call'[v].made = call[v].made, call'[v].h = call[v].h
  PROVE  CreationFits(v)'
<1>1. CreationFits(v)
  BY DEF SteadyParts, NewbornsWait
<1>2. ASSUME call[v].made \in Tid PROVE NewbornWaits(v)'
  <2>1. NewbornWaits(v)
    BY <1>1, <1>2 DEF CreationFits
  <2>2. v # call[v].made
    BY <1>2, <2>1, NewbornsDoNotAct
  <2>3. \A u \in Tid \ {v} : call'[u] = call[u] /\ Holding(u)' = Holding(u)
    BY DEF Others, Holding
  <2> QED BY <1>2, <2>1, <2>2, <2>3 DEF NewbornWaits
<1> QED BY <1>1, <1>2 DEF CreationFits

LEMMA CallQuiet ==
  ASSUME BaseInv, Orderly, OrderlyParts, NEW v \in Tid, NEW f \in Frame, CallStep(v, f)
  PROVE  Quiet(v)
<1>1. call'[v] = f /\ Others(v) /\ Free(v)
  BY CallFrame DEF CallStep, Begin
<1>2. UNCHANGED <<map, entry, said, serial, life>> /\ given' \subseteq given
  BY DEF CallStep, Begin, kernel
<1>3. ~Creating(v)' /\ call[v].pc = "idle" /\ (Holding(v)' => f.pc = "lookup")
  BY <1>1 DEF CallStep, NewFrame, Creating, Free, At, Holding, OnHandle, Acting
<1>4. Holding(v)' => f.h \notin DOMAIN map \/ f.h \in given
  BY <1>3 DEF CallStep, OrderlyParts
<1> QED BY <1>1, <1>2, <1>3, <1>4 DEF Quiet, Acts, CreationFits, Alive

LEMMA FinishQuiet ==
  ASSUME BaseInv, Orderly, OrderlyParts, NEW v \in Tid,
         \/ SetThreadPriority_set(v) \/ GetExitCodeThread_read(v)
         \/ InitializeCriticalSection(v) \/ DeleteCriticalSection(v)
         \/ Lock(v) \/ LeaveCriticalSection(v)
  PROVE  Quiet(v)
<1>1. /\ UNCHANGED <<map, entry, said, serial, life, given>>
      /\ Done(v) \/ (call' = call /\ Free(v))
      /\ call[v].pc \in {"schedule", "read", "enter", "idle"} /\ Acts(v)
  <2> USE DEF Private, kernel, history, At, Free, Acts
  <2>1. CASE SetThreadPriority_set(v)
    BY <2>1 DEF SetThreadPriority_set
  <2>2. CASE GetExitCodeThread_read(v)
    BY <2>2 DEF GetExitCodeThread_read
  <2>3. CASE InitializeCriticalSection(v)
    BY <2>3 DEF InitializeCriticalSection
  <2>4. CASE DeleteCriticalSection(v)
    BY <2>4 DEF DeleteCriticalSection
  <2>5. CASE Lock(v)
    BY <2>5 DEF Lock
  <2>6. CASE LeaveCriticalSection(v)
    BY <2>6 DEF LeaveCriticalSection
  <2> QED BY <2>1, <2>2, <2>3, <2>4, <2>5, <2>6
<1>2. Others(v) /\ call'[v].pc = "idle"
  BY <1>1, DoneCall, IdleFrame, BaseParts DEF Others, Free, At
<1>3. ~Creating(v)' /\ ~Holding(v)'
  BY <1>2 DEF Creating, Holding
<1> QED BY <1>1, <1>2, <1>3 DEF Quiet, CreationFits, Alive

LEMMA DieQuiet ==
  ASSUME BaseInv, NEW v \in Tid, Acts(v), Alive(v), Die(v)
  PROVE  Quiet(v)
<1>1. /\ UNCHANGED <<map, entry, said, serial, given>>
      /\ life' = [life EXCEPT ![v] = IF detached[v] THEN "none" ELSE "gone"]
  BY DEF Die, history
<1>2. Others(v) /\ call'[v].pc = "idle"
  BY DoneCall, IdleFrame, BaseParts DEF Die
<1>3. ~Creating(v)' /\ ~Holding(v)'
  BY <1>2 DEF Creating, Holding
<1>4. (\A u \in Tid \ {v} : life'[u] = life[u]) /\ ~Alive(v)'
  BY <1>1, BaseParts DEF KernelTypes, Alive
<1> QED BY <1>1, <1>2, <1>3, <1>4 DEF Quiet, CreationFits, Alive

LEMMA EndthreadQuiet ==
  ASSUME BaseInv, NEW v \in Tid, Alive(v), _endthread(v)
  PROVE  Quiet(v)
<1>1. /\ UNCHANGED <<map, entry, said, serial, given, call>> /\ Free(v) /\ call[v].pc = "idle"
      /\ life' = [life EXCEPT ![v] = "cancelled"]
  BY DEF _endthread, Free, At
<1>2. ~Creating(v)' /\ ~Holding(v)' /\ Others(v)
  BY <1>1 DEF Creating, Holding, Others
<1>3. (\A u \in Tid \ {v} : life'[u] = life[u])
  BY <1>1, BaseParts DEF KernelTypes
<1> QED BY <1>1, <1>2, <1>3 DEF Quiet, CreationFits, Alive, Acts

LEMMA CrashQuiet ==
  ASSUME BaseInv, NEW v \in Tid, PthreadCrashes(v)
  PROVE  Quiet(v)
<1>1. /\ UNCHANGED <<map, entry, said, serial, given, call, life>>
      /\ call[v].pc \in {"cancel", "schedule"}
  BY DEF PthreadCrashes, kernel, history
<1>2. ~Creating(v)' /\ Others(v) /\ Holding(v)' = Holding(v)
  BY <1>1 DEF Creating, Holding, Others
<1> QED BY <1>1, <1>2 DEF Quiet, CreationFits, Alive, Acts

LEMMA ThrowsQuiet ==
  ASSUME BaseInv, Orderly, OrderlyParts, NEW v \in Tid, Beginthread_throws(v)
  PROVE  Quiet(v)
<1> USE BaseParts
<1> DEFINE place == IF call[v].wantsId THEN "lookup" ELSE "idle"
<1>1. /\ UNCHANGED <<map, entry, said, serial, given, life>>
      /\ Return(v, place) /\ place \in Places /\ call[v].pc = "start" /\ place \in {"lookup", "idle"}
  BY DEF Beginthread_throws, kernel, history, Places, At
<1> HIDE DEF place
<1>2. /\ Others(v)
      /\ place = "idle" => call'[v] = Idle
      /\ place # "idle" => GoesTo(v, place)
  BY <1>1, ReturnCall
<1>3. call[v].h = NULL /\ call[v].made \notin Tid
  BY <1>1 DEF ThreadsFit, InFunction
<1>4. call'[v].h = NULL /\ call'[v].made \notin Tid
  BY <1>1, <1>2, <1>3, IdleFrame, ThreadAssumption DEF GoesTo
<1> QED BY <1>1, <1>2, <1>4 DEF Quiet, CreationFits, Alive, Acts, OrderlyParts

LEMMA FindQuiet ==
  ASSUME BaseInv, Steady, OrderlyParts, NEW v \in Tid, FindCurrentThread(v)
  PROVE  Quiet(v)
<1> USE BaseParts
<1>1. /\ UNCHANGED <<map, entry, said, serial, life>> /\ call[v].pc = "find"
  BY DEF FindCurrentThread, kernel, At
<1>2. PICK k \in H!find_thread_by_tid(v) :
        /\ given' = (given \cup {k}) \ {NULL}
        /\ Return(v, IF k = NULL /\ call[v].op = "GetCurrentThreadId"
                     THEN "register_self" ELSE "idle")
  BY DEF FindCurrentThread
<1>3. k # NULL => entry[k] = serial[v]
  BY FoundKeys DEF OrderlyParts, EntriesCurrent, Steady
<1> DEFINE place == IF k = NULL /\ call[v].op = "GetCurrentThreadId"
                    THEN "register_self" ELSE "idle"
<1>4. place \in Places /\ place \in {"register_self", "idle"} /\ Return(v, place)
  BY <1>2 DEF Places
<1> HIDE DEF place
<1>5. /\ Others(v)
      /\ place = "idle" => call'[v] = Idle
      /\ place # "idle" => GoesTo(v, place)
  BY <1>4, ReturnCall
<1>6. call'[v].pc \in {"idle", "register_self"}
  BY <1>4, <1>5, IdleFrame DEF GoesTo
<1>7. ~Creating(v)' /\ ~Holding(v)'
  <2>1. InFunction(v)
    BY DEF ThreadsFit
  <2>2. call'[v].pc = "register_self" => call'[v].op \in {"GetCurrentThreadId", "GetCurrentThread"}
    BY <1>1, <1>4, <1>5, <2>1, IdleFrame DEF GoesTo, InFunction
  <2> QED BY <1>6, <2>2 DEF Creating, Holding, OnHandle, Acting
<1> QED BY <1>1, <1>2, <1>3, <1>5, <1>7 DEF Quiet, CreationFits, Alive, Acts

LEMMA LookupQuiet ==
  ASSUME BaseInv, Orderly, OrderlyParts, SteadyParts, NEW v \in Tid, Lookup(v)
  PROVE  Quiet(v)
<1> USE BaseParts
<1> DEFINE found == get_thread_tid(call[v].h)
           place == AfterLookup(call[v].op, found)
<1>1. /\ Others(v) /\ call[v].pc = "lookup"
      /\ place = "idle" => call'[v] = Idle
      /\ place # "idle" => LooksUp(v, found, place)
      /\ UNCHANGED <<map, entry, said, serial, life, given>>
      /\ place \in Places \ {"start", "register", "detach", "find", "register_self",
                             "lookup", "store", "exit", "enter"}
  BY LookupFrame DEF kernel, history, At
<1>2. Holding(v)
  BY <1>1 DEF ThreadsFit, InFunction, Holding
<1>3. place = "activate" => call[v].op = "CreateThread"
  BY DEF AfterLookup
<1> HIDE DEF found, place
<1>4. CASE place = "idle"
  <2>1. ~Creating(v)' /\ ~Holding(v)'
    BY <1>1, <1>4, IdleFrame DEF Creating, Holding
  <2> QED BY <1>1, <2>1 DEF Quiet, CreationFits, Alive, Acts
<1>5. CASE place # "idle"
  <2>1. /\ call'[v].pc = place /\ call'[v].h = call[v].h /\ call'[v].made = call[v].made
        /\ call'[v].op = call[v].op
    BY <1>1, <1>5 DEF LooksUp
  <2>2. CreationFits(v)'
    <3>1. CASE place = "activate"
      <4>1. Creating(v)
        BY <1>1, <1>3, <3>1 DEF Creating
      <4> QED BY <1>1, <2>1, <3>1, <4>1, OwnNewbornWaits DEF Acts
    <3>2. CASE place # "activate"
      BY <1>1, <2>1, <3>2 DEF CreationFits, Creating
    <3> QED BY <3>1, <3>2
  <2> QED BY <1>1, <1>2, <2>1, <2>2 DEF Quiet, Alive, Acts
<1> QED BY <1>4, <1>5

(* Whom a function reaches through a handle. *)
LEMMA TargetHasHandle ==
  ASSUME BaseInv, Steady, OrderlyParts, NEW v \in Tid, TidPlace(v)
  PROVE  /\ Holding(v)
         /\ call[v].h = NULL => call[v].tid = Zero
         /\ call[v].h # NULL => /\ call[v].h \in DOMAIN map /\ call[v].tid = map[call[v].h].word
                                /\ call[v].tid \in Tid
                                /\ HasHandleOf(v, serial[call[v].tid])
<1>1. Holding(v)
  BY BaseParts DEF TidPlace, Holding, ThreadsFit, InFunction, OnHandle, Acting
<1>2. call[v].tid = IF call[v].h = NULL THEN Zero ELSE map[call[v].h].word
  BY DEF OrderlyParts, TidsFit, AsInt, Steady
<1>3. call[v].h # NULL => call[v].h \in DOMAIN map
  BY <1>1 DEF OrderlyParts, HandlesHeld
<1>4. call[v].h # NULL => map[call[v].h].word \in Tid
  BY <1>3, BaseParts DEF TableFits, EntriesFit
<1>5. call[v].h # NULL => entry[call[v].h] = serial[map[call[v].h].word]
  BY <1>3 DEF OrderlyParts, EntriesCurrent, Steady
<1> QED BY <1>1, <1>2, <1>3, <1>4, <1>5 DEF HasHandleOf

LEMMA CancelQuiet ==
  ASSUME BaseInv, Steady, OrderlyParts, NEW v \in Tid, Cancel(v)
  PROVE  Quiet(v)
<1> USE BaseParts
<1> DEFINE place == IF Exists(call[v].tid) /\ call[v].op = "TerminateThread"
                    THEN "store" ELSE "idle"
<1>1. /\ UNCHANGED <<map, entry, said, serial, given>>
      /\ call[v].pc = "cancel" /\ Return(v, place) /\ place \in Places
      /\ place \in {"store", "idle"}
      /\ life' = IF Exists(call[v].tid) /\ life[call[v].tid] = "running"
                 THEN [life EXCEPT ![call[v].tid] = "cancelled"] ELSE life
  BY DEF Cancel, history, Places, At
<1> HIDE DEF place
<1>2. /\ Others(v)
      /\ place = "idle" => call'[v] = Idle
      /\ place # "idle" => GoesTo(v, place)
  BY <1>1, ReturnCall
<1>3. call'[v].pc \in {"idle", "store"} /\ (call'[v].pc = "store" => call'[v].h = call[v].h)
  BY <1>1, <1>2, IdleFrame DEF GoesTo
<1>4. TidPlace(v)
  BY <1>1 DEF TidPlace
<1>5. ~Creating(v)' /\ Holding(v) /\ (Holding(v)' => call'[v].h = call[v].h)
  BY <1>3, <1>4, TargetHasHandle DEF Creating, Holding
<1>6. \A u \in Tid : life'[u] # life[u] => u = call[v].tid /\ Alive(u)
  BY <1>1 DEF KernelTypes, Alive
<1>7. call[v].tid \in Tid => HasHandleOf(v, serial[call[v].tid])
  BY <1>4, TargetHasHandle, ThreadAssumption
<1> QED BY <1>1, <1>2, <1>5, <1>6, <1>7 DEF Quiet, CreationFits, Alive, Acts

LEMMA DetachQuiet ==
  ASSUME BaseInv, Orderly, OrderlyParts, SteadyParts, NEW v \in Tid, Beginthread_detach(v)
  PROVE  Quiet(v)
<1> USE BaseParts
<1> DEFINE place == IF call[v].wantsId THEN "lookup" ELSE "idle"
<1>1. /\ UNCHANGED <<map, entry, said, serial>>
      /\ Return(v, place) /\ place \in Places /\ call[v].pc = "detach"
      /\ given' = IF place = "lookup" THEN given ELSE (given \cup {call[v].h}) \ {NULL}
      /\ place \in {"lookup", "idle"}
      /\ life' = [life EXCEPT ![call[v].made] = IF @ = "gone" THEN "none" ELSE @]
  BY DEF Beginthread_detach, history, Places, At, Orderly
<1> HIDE DEF place
<1>2. /\ Others(v)
      /\ place = "idle" => call'[v] = Idle
      /\ place # "idle" => GoesTo(v, place)
  BY <1>1, ReturnCall
<1>3. call[v].op = "CreateThread" /\ Holding(v) /\ Creating(v)
  BY <1>1 DEF ThreadsFit, InFunction, Holding, Creating
<1>4. call[v].h \in DOMAIN map => HasHandleOf(v, entry[call[v].h])
  BY <1>3 DEF HasHandleOf
<1>5. \A u \in Tid : life'[u] = life[u] \/ (life[u] = "gone" /\ life'[u] = "none")
  BY <1>1 DEF KernelTypes
<1>6. CASE place = "idle"
  <2>1. ~Creating(v)' /\ ~Holding(v)'
    BY <1>2, <1>6, IdleFrame DEF Creating, Holding
  <2> QED BY <1>1, <1>2, <1>4, <1>5, <1>6, <2>1 DEF Quiet, CreationFits, Alive, Acts
<1>7. CASE place = "lookup"
  <2>1. /\ call'[v].pc = "lookup" /\ call'[v].h = call[v].h /\ call'[v].made = call[v].made
        /\ call'[v].op = call[v].op
    BY <1>2, <1>7 DEF GoesTo
  <2>2. Acts(v)
    BY <1>1 DEF Acts
  <2>3. CreationFits(v)'
    BY <1>1, <1>2, <1>3, <1>5, <1>7, <2>1, <2>2, OwnNewbornWaits
  <2> QED BY <1>1, <1>2, <1>3, <1>5, <1>7, <2>1, <2>2, <2>3 DEF Quiet, Alive
<1> QED BY <1>1, <1>6, <1>7

(* The steps that change the table, the codes or the threads. *)
LEMMA StartSteady ==
  ASSUME BaseInv, Orderly, OrderlyParts, SteadyParts, NEW v \in Tid, Alive(v), Beginthread_start(v)
  PROVE  SteadyParts'
<1> USE BaseParts
<1>1. PICK new \in Tid, m \in Serial : Newborn(v, new, m)
  BY StartMakesNewborn
<1>2. /\ UNCHANGED <<map, entry, said, given>> /\ Others(v) /\ new # v
      /\ call'[v].pc = "register" /\ call'[v].op = "CreateThread" /\ call'[v].made = new
      /\ life[new] = "none" /\ life'[new] = "running" /\ call[new] = Idle
      /\ \A u \in Tid \ {new} : serial'[u] = serial[u] /\ life'[u] = life[u]
      /\ serial'[new] = m + 1
  BY <1>1 DEF Newborn, KernelTypes
<1>3. said[m + 1] = Zero
  BY <1>1 DEF Newborn, Latest, Serial
<1>4. Gentle(v)
  BY <1>2 DEF Gentle, Acts, Holding, Beginthread_start, At, TableFits
<1>5. NewbornsWait'
  <2>1. CreationFits(v)'
    BY <1>2, <1>3 DEF CreationFits, NewbornWaits, Others
  <2> QED BY <1>4, <2>1, GentleKeepsNewborns DEF SteadyParts, NewbornsWait
<1>6. CodesMatch'
  BY <1>2 DEF SteadyParts, CodesMatch
<1>7. UnregisteredUnsaid'
  <2> SUFFICES ASSUME NEW t \in Tid, serial'[t] # NoSerial, said'[serial'[t]] # Zero
               PROVE  \/ \E k \in DOMAIN map' : entry'[k] = serial'[t]
                      \/ call'[t].pc = "exit" \/ ~Alive(t)'
    BY DEF UnregisteredUnsaid
  <2>1. t # new
    BY <1>2, <1>3
  <2>2. call[v].pc = "start" /\ Alive(t)' = Alive(t) /\ serial'[t] = serial[t]
    BY <1>2, <2>1 DEF Beginthread_start, At, Alive
  <2> QED BY <1>2, <2>2 DEF SteadyParts, UnregisteredUnsaid, Others
<1> QED BY <1>5, <1>6, <1>7 DEF SteadyParts

LEMMA NewEntrySteady ==
  ASSUME BaseInv, Orderly, OrderlyParts, SteadyParts, NEW v \in Tid, Alive(v), NEW k, NEW new,
         NewEntry(v, k, new), call[v].pc \in {"register", "register_self"},
         said[serial[new]] = Zero, CreationFits(v)'
  PROVE  SteadyParts'
<1> USE BaseParts
<1>1. /\ k \notin DOMAIN map
      /\ DOMAIN map' = DOMAIN map \cup {k}
      /\ \A j \in DOMAIN map : map'[j] = map[j] /\ entry'[j] = entry[j]
      /\ entry'[k] = serial[new]
      /\ UNCHANGED <<serial, said, life>> /\ Others(v)
      /\ given' \subseteq given \cup {k}
      /\ Holding(v)' => call'[v].h = k
  BY DEF NewEntry, Registers, Holding
<1>2. Gentle(v)
  BY <1>1 DEF Gentle, Acts
<1>3. NewbornsWait'
  BY <1>2, GentleKeepsNewborns DEF SteadyParts, NewbornsWait
<1>4. CodesMatch'
  BY <1>1 DEF SteadyParts, CodesMatch
<1>5. UnregisteredUnsaid'
  <2> SUFFICES ASSUME NEW t \in Tid, serial[t] # NoSerial, said[serial[t]] # Zero
               PROVE  \/ \E j \in DOMAIN map' : entry'[j] = serial[t]
                      \/ call'[t].pc = "exit" \/ ~Alive(t)'
    BY <1>1 DEF UnregisteredUnsaid
  <2>1. \/ \E j \in DOMAIN map : entry[j] = serial[t]
        \/ call[t].pc = "exit" \/ ~Alive(t)
    BY DEF SteadyParts, UnregisteredUnsaid
  <2> QED BY <1>1, <2>1 DEF Others, Alive
<1> QED BY <1>3, <1>4, <1>5 DEF SteadyParts

LEMMA RegisterSteady ==
  ASSUME BaseInv, Orderly, OrderlyParts, SteadyParts, NEW v \in Tid, Alive(v),
         NEW r, NEW k \in MinInt..MaxInt, Beginthread_register(v, r, k)
  PROVE  SteadyParts'
<1> USE BaseParts
<1> DEFINE new == call[v].made
<1>1. /\ Others(v) /\ Registers(k, new) /\ UNCHANGED given /\ Making(v) /\ new \in Tid
      /\ call[v].pc = "register" /\ call'[v].pc = "detach" /\ call'[v].h = k
      /\ call'[v].made = new /\ call'[v].op = "CreateThread" /\ call[v].op = "CreateThread"
  BY RegisterFrame
<1>2. call[new] = Idle /\ \A j \in DOMAIN map : entry[j] # serial[new]
  BY <1>1 DEF OrderlyParts, SelvesAreNew
<1>3. new # v /\ call'[new] = Idle
  BY <1>1, <1>2, IdleFrame DEF Others
<1>4. \A u \in Tid \ {v} : Making(u) => call[u].made \notin {v, new}
  BY <1>1, Unmade DEF ThreadsFit
<1>5. \A u \in Tid : call[u].pc = "register_self" => u # new
  BY <1>2, IdleFrame
<1>6. life[new] = "running" /\ said[serial[new]] = Zero
  BY <1>1 DEF SteadyParts, NewbornsWait, CreationFits, Creating, NewbornWaits
<1> HIDE DEF new
<1>7. NewEntry(v, k, new)
  BY <1>1, <1>2, <1>3, <1>4, <1>5 DEF NewEntry
<1>8. CreationFits(v)'
  <2>1. /\ k \notin DOMAIN map /\ k # NULL /\ k \in DOMAIN map' /\ entry'[k] = serial[new]
        /\ UNCHANGED <<life, serial, said>>
    BY <1>1 DEF Registers, Orderly
  <2>2. k \notin given'
    BY <1>1, <2>1 DEF OrderlyParts, GivenOpen
  <2>3. \A u \in Tid \ {v} : Holding(u)' => call'[u].h # k
    BY <1>1, <2>1 DEF Others, Holding, OrderlyParts, HandlesHeld
  <2> QED BY <1>1, <1>3, <1>6, <2>1, <2>2, <2>3 DEF CreationFits, NewbornWaits
<1> QED BY <1>1, <1>6, <1>7, <1>8, NewEntrySteady

LEMMA RegisterSelfSteady ==
  ASSUME BaseInv, Orderly, OrderlyParts, SteadyParts, NEW v \in Tid, Alive(v),
         NEW r, NEW k \in MinInt..MaxInt, GetCurrentThreadId_register(v, r, k)
  PROVE  SteadyParts'
<1> USE BaseParts
<1>1. /\ Others(v) /\ call'[v] = Idle /\ Registers(k, v) /\ given' = (given \cup {k}) \ {NULL}
      /\ call[v].pc = "register_self"
  BY RegisterSelfFrame
<1>2. \A j \in DOMAIN map : entry[j] # serial[v]
  BY <1>1 DEF OrderlyParts, SelvesAreNew, TableFits, EntriesFit
<1>3. \A u \in Tid \ {v} : Making(u) => call[u].made # v
  BY <1>1, Unmade
<1>4. NewEntry(v, k, v)
  BY <1>1, <1>2, <1>3, IdleFrame DEF NewEntry
<1>5. said[serial[v]] = Zero
  BY <1>1, <1>2, AliveHasSerial DEF SteadyParts, UnregisteredUnsaid, Serial, NoSerial
<1>6. CreationFits(v)'
  BY <1>1, IdleFrame DEF CreationFits, Creating
<1> QED BY <1>1, <1>4, <1>5, <1>6, NewEntrySteady

LEMMA EraseSteady ==
  ASSUME BaseInv, Orderly, OrderlyParts, SteadyParts, NEW v \in Tid, Alive(v), CloseHandle_erase(v)
  PROVE  SteadyParts'
<1> USE BaseParts
<1> DEFINE h == call[v].h
<1>1. /\ Others(v) /\ call'[v] = Idle /\ call[v].pc = "erase" /\ call[v].op = "CloseHandle"
      /\ DOMAIN map' = DOMAIN map \ {h} /\ DOMAIN entry = DOMAIN map
      /\ \A k \in DOMAIN map' : map'[k] = map[k] /\ entry'[k] = entry[k]
      /\ said' = [s \in Serial |-> IF s = MadeFor(h) THEN Zero ELSE said[s]]
      /\ UNCHANGED <<life, serial, given>>
  BY EraseFrame DEF TableFits
<1>2. Holding(v) /\ ~Holding(v)' /\ ~Creating(v)'
  BY <1>1, IdleFrame DEF Holding, Creating, OnHandle
<1> HIDE DEF h
<1>3. \A s \in Serial : said'[s] \in {said[s], Zero}
  BY <1>1
<1>4. Gentle(v)
  BY <1>1, <1>2, <1>3 DEF Gentle, Acts, h
<1>5. NewbornsWait'
  BY <1>2, <1>4, GentleKeepsNewborns DEF SteadyParts, NewbornsWait, CreationFits
<1>6. CodesMatch'
  BY <1>1, <1>3 DEF SteadyParts, CodesMatch, TableFits
<1>7. UnregisteredUnsaid'
  <2> SUFFICES ASSUME NEW t \in Tid, serial[t] # NoSerial, said'[serial[t]] # Zero
               PROVE  \/ \E k \in DOMAIN map' : entry'[k] = serial[t]
                      \/ call'[t].pc = "exit" \/ ~Alive(t)'
    BY <1>1 DEF UnregisteredUnsaid
  <2>1. serial[t] \in Serial
    BY DEF KernelTypes
  <2>2. said[serial[t]] # Zero /\ serial[t] # MadeFor(h)
    BY <1>1, <2>1
  <2>3. \/ \E k \in DOMAIN map : entry[k] = serial[t]
        \/ call[t].pc = "exit" \/ ~Alive(t)
    BY <2>2 DEF SteadyParts, UnregisteredUnsaid
  <2>4. ASSUME NEW k \in DOMAIN map, entry[k] = serial[t] PROVE k \in DOMAIN map'
    BY <1>1, <2>2, <2>4 DEF MadeFor
  <2> QED BY <1>1, <2>3, <2>4 DEF Others, Alive
<1> QED BY <1>5, <1>6, <1>7 DEF SteadyParts

(* Whose code is stored: the one that the entries with that pthread_t are  *)
(* for, or nobody's.                                                       *)
LEMMA StoresForTarget ==
  ASSUME BaseInv, Steady, OrderlyParts, SteadyParts, NEW v \in Tid, Alive(v), Storing(v)
  PROVE  LET T == CodeTarget(v)  s == CodeMeantFor(v)
         IN  \/ /\ T \in Tid /\ s = serial[T] /\ s \in Serial
                /\ \/ T = v /\ call[v].op = "ExitThread"
                   \/ HasHandleOf(v, s)
             \/ s = NoSerial /\ \A k \in DOMAIN map : map[k].word # T
<1> USE BaseParts
<1>1. CASE call[v].op = "ExitThread"
  BY <1>1, AliveHasSerial DEF CodeTarget, CodeMeantFor
<1>2. CASE call[v].op # "ExitThread"
  <2>1. TidPlace(v)
    BY <1>2 DEF Storing, TidPlace
  <2>2. CASE call[v].h = NULL
    <3>1. MadeFor(call[v].h) = NoSerial
      BY <2>2 DEF MadeFor, OrderlyParts, TableFits
    <3>2. CodeMeantFor(v) = NoSerial
      BY <1>2, <3>1 DEF CodeMeantFor, Unsaid
    <3>3. CodeTarget(v) = Zero
      BY <1>2, <2>1, <2>2, TargetHasHandle DEF CodeTarget
    <3> QED BY <3>2, <3>3, ThreadAssumption DEF TableFits, EntriesFit
  <2>3. CASE call[v].h # NULL
    <3>1. /\ call[v].h \in DOMAIN map /\ call[v].tid \in Tid
          /\ HasHandleOf(v, serial[call[v].tid])
      BY <2>1, <2>3, TargetHasHandle
    <3>2. MadeFor(call[v].h) = entry[call[v].h] /\ entry[call[v].h] = serial[call[v].tid]
      BY <3>1 DEF MadeFor, HasHandleOf, TableFits
    <3>3. entry[call[v].h] \in Serial
      BY <3>1 DEF TableFits
    <3>4. CodeMeantFor(v) = serial[call[v].tid]
      <4>1. CASE call[v].op = "CreateThread"
        <5>1. Creating(v) /\ call[v].pc = "activate"
          BY <4>1 DEF Storing, Creating
        <5>2. call[v].made \in Tid /\ NewbornWaits(v)
          BY <2>3, <5>1 DEF SteadyParts, NewbornsWait, CreationFits
        <5>3. said[entry[call[v].h]] = Zero
          BY <5>1, <5>2 DEF NewbornWaits
        <5> QED BY <3>2, <4>1, <5>3 DEF CodeMeantFor, Unsaid
      <4>2. CASE call[v].op # "CreateThread"
        BY <1>2, <3>2, <4>2 DEF CodeMeantFor
      <4> QED BY <4>1, <4>2
    <3> QED BY <1>2, <3>1, <3>2, <3>3, <3>4 DEF CodeTarget
  <2> QED BY <2>2, <2>3
<1> QED BY <1>1, <1>2

LEMMA StoringSteady ==
  ASSUME BaseInv, Steady, OrderlyParts, SteadyParts, NEW v \in Tid, Alive(v), Storing(v)
  PROVE  SteadyParts'
<1> USE BaseParts
<1> DEFINE T == CodeTarget(v)  s == CodeMeantFor(v)  c == CodeStored(v)
<1>1. \/ /\ T \in Tid /\ s = serial[T] /\ s \in Serial
         /\ (T = v /\ call[v].op = "ExitThread") \/ HasHandleOf(v, s)
      \/ s = NoSerial /\ \A k \in DOMAIN map : map[k].word # T
  BY StoresForTarget
<1>2. /\ DOMAIN map' = DOMAIN map
      /\ \A k \in DOMAIN map : map[k].word # T => map'[k].more = map[k].more
      /\ (\E k \in DOMAIN map : map[k].word = T)
           => \E k \in DOMAIN map : map[k].word = T /\ map'[k].more = c
      /\ s = NoSerial => said' = said
      /\ s # NoSerial => said' = [said EXCEPT ![s] = c]
      /\ UNCHANGED <<life, serial, entry>> /\ Others(v)
  BY DEF Storing, SetsCode
<1>3. /\ call[v].pc \in {"store", "activate"}
      /\ call[v].op = "ExitThread" => call'[v].pc = "exit" /\ call'[v].op = "ExitThread"
      /\ call[v].op # "ExitThread" => call'[v] = Idle
      /\ given' \subseteq given \cup {call[v].h}
      /\ call[v].pc # "activate" => given' = given
      /\ call[v].pc = "activate" => Holding(v)
  BY DEF Storing, GoesTo, Holding
<1> HIDE DEF T, s, c
<1>4. ~Holding(v)' /\ ~Creating(v)'
  BY <1>3, IdleFrame DEF Holding, Creating, OnHandle, Acting
<1>5. \A x \in Serial : x # s => said'[x] = said[x]
  BY <1>1, <1>2 DEF TableFits
<1>6. Gentle(v)
  BY <1>1, <1>2, <1>3, <1>4, <1>5 DEF Gentle, Acts, HasHandleOf
<1>7. NewbornsWait'
  BY <1>4, <1>6, GentleKeepsNewborns DEF SteadyParts, NewbornsWait, CreationFits, Steady
<1>8. CodesMatch'
  <2> SUFFICES ASSUME NEW k \in DOMAIN map, said'[entry[k]] # Zero
               PROVE  map'[k].more = said'[entry[k]]
    BY <1>2 DEF CodesMatch
  <2>1. /\ map[k].word \in Tid /\ entry[k] = serial[map[k].word] /\ entry[k] \in Serial
    BY DEF OrderlyParts, EntriesCurrent, Steady, TableFits, EntriesFit
  <2>2. CASE map[k].word = T
    <3>1. s = serial[T] /\ s \in Serial /\ entry[k] = s
      BY <1>1, <2>1, <2>2
    <3>2. said'[entry[k]] = c
      <4>1. said \in [Serial -> Word] /\ s # NoSerial
        BY <3>1 DEF TableFits, Serial, NoSerial
      <4>2. said' = [said EXCEPT ![s] = c]
        BY <1>2, <4>1
      <4> QED BY <3>1, <4>1, <4>2
    <3>3. PICK j \in DOMAIN map : map[j].word = T /\ map'[j].more = c
      BY <1>2, <2>2
    <3>4. entry[j] = entry[k]
      BY <2>1, <2>2, <3>3 DEF OrderlyParts, EntriesCurrent, Steady
    <3>5. j = k
      BY <3>4 DEF OrderlyParts, OneEntryEach, Steady, TableFits
    <3> QED BY <3>2, <3>3, <3>5
  <2>3. CASE map[k].word # T
    <3>1. entry[k] # s
      BY <1>1, <2>1, <2>3 DEF SerialsDiffer, Serial, NoSerial
    <3>2. said'[entry[k]] = said[entry[k]] /\ map'[k].more = map[k].more
      BY <1>2, <1>5, <2>1, <2>3, <3>1
    <3> QED BY <3>2 DEF SteadyParts, CodesMatch
  <2> QED BY <2>2, <2>3
<1>9. UnregisteredUnsaid'
  <2> SUFFICES ASSUME NEW t \in Tid, serial[t] # NoSerial, said'[serial[t]] # Zero
               PROVE  \/ \E k \in DOMAIN map : entry[k] = serial[t]
                      \/ call'[t].pc = "exit" \/ ~Alive(t)
    BY <1>2 DEF UnregisteredUnsaid, Alive
  <2>1. serial[t] \in Serial
    BY DEF KernelTypes
  <2>2. CASE serial[t] = s
    <3>1. (T = v /\ call[v].op = "ExitThread" /\ s = serial[v]) \/ HasHandleOf(v, s)
      BY <1>1, <2>1, <2>2 DEF Serial, NoSerial
    <3>2. CASE T = v /\ call[v].op = "ExitThread" /\ s = serial[v]
      BY <1>3, <2>1, <2>2, <3>2 DEF SerialsDiffer, Serial, NoSerial
    <3>3. CASE HasHandleOf(v, s)
      BY <2>2, <3>3 DEF HasHandleOf
    <3> QED BY <3>1, <3>2, <3>3
  <2>3. CASE serial[t] # s
    <3>1. said[serial[t]] # Zero
      BY <1>5, <2>1, <2>3
    <3>2. \/ \E k \in DOMAIN map : entry[k] = serial[t]
          \/ call[t].pc = "exit" \/ ~Alive(t)
      BY <3>1 DEF SteadyParts, UnregisteredUnsaid
    <3> QED BY <1>2, <1>3, <3>2 DEF Others
  <2> QED BY <2>2, <2>3
<1> QED BY <1>7, <1>8, <1>9 DEF SteadyParts

-----------------------------------------------------------------------------
LEMMA StepsSteady ==
  ASSUME BaseInv, OrderlyInv, SteadyInv, NEW t \in Tid, Steps(t)
  PROVE  SteadyInv'
<1> SUFFICES ASSUME Steady'
             PROVE  SteadyParts'
  BY DEF SteadyInv
<1>1. setting' = setting
  BY SetsNoSetting
<1>2. Steady /\ Orderly /\ OrderlyParts /\ SteadyParts
  BY <1>1 DEF Steady, Orderly, OrderlyInv, SteadyInv
<1>3. Alive(t) /\ Acts(t)
  BY <1>2, StepsAct DEF Steps
<1>4. CASE Quiet(t)
  BY <1>2, <1>4, QuietKeeps
<1>5. CASE \/ Beginthread_start(t) \/ Storing(t) \/ CloseHandle_erase(t)
           \/ \E r \in 0..MaxInt, k \in MinInt..MaxInt :
                Beginthread_register(t, r, k) \/ GetCurrentThreadId_register(t, r, k)
  BY <1>2, <1>3, <1>5, StartSteady, StoringSteady, EraseSteady, RegisterSteady, RegisterSelfSteady
<1>6. Steps(t) => \/ Quiet(t)
                  \/ Beginthread_start(t) \/ Storing(t) \/ CloseHandle_erase(t)
                  \/ \E r \in 0..MaxInt, k \in MinInt..MaxInt :
                       Beginthread_register(t, r, k) \/ GetCurrentThreadId_register(t, r, k)
  BY <1>2, <1>3, CallQuiet, FinishQuiet, DieQuiet, EndthreadQuiet, CrashQuiet, ThrowsQuiet, FindQuiet,
     LookupQuiet, CancelQuiet, DetachQuiet, UseAfterDeleteOrderly
     DEF Steps
<1> QED BY <1>4, <1>5, <1>6

LEMMA StutterSteady ==
  ASSUME SteadyInv, UNCHANGED vars
  PROVE  SteadyInv'
<1>1. UNCHANGED <<setting, map, life, serial, call, given, entry, said>>
  BY DEF vars, kernel, history
<1> SUFFICES ASSUME Steady PROVE SteadyParts'
  BY <1>1 DEF SteadyInv, Steady, Orderly
<1>2. SteadyParts
  BY DEF SteadyInv
<1>3. CodesMatch' /\ UnregisteredUnsaid'
  BY <1>1, <1>2 DEF SteadyParts, CodesMatch, UnregisteredUnsaid, Alive
<1>4. NewbornsWait'
  BY <1>1, <1>2 DEF SteadyParts, NewbornsWait, CreationFits, Creating, NewbornWaits, Holding
<1> QED BY <1>3, <1>4 DEF SteadyParts

LEMMA InitSteady ==
  ASSUME Init
  PROVE  SteadyInv
<1>1. /\ DOMAIN map = {} /\ \A t \in Tid : call[t] = Idle
      /\ \A s \in Serial : said[s] = Zero
      /\ \A t \in Tid : serial[t] \in Serial \cup {NoSerial}
  BY ThreadAssumption DEF Init, H!Init, Serial
<1>2. \A t \in Tid : ~Creating(t)
  BY <1>1, IdleFrame DEF Creating
<1> QED BY <1>1, <1>2
        DEF SteadyInv, SteadyParts, CodesMatch, NewbornsWait, CreationFits, UnregisteredUnsaid

(* The codes of the table are those of the threads. *)
LEMMA CodesAreKept ==
  ASSUME BaseInv, OrderlyInv, SteadyInv
  PROVE  ExitCodesAreKept
<1> USE BaseParts
<1> SUFFICES ASSUME Steady, NEW k \in given \cap DOMAIN entry, said[entry[k]] # Zero
             PROVE  H!get_thread_exitcode(get_thread_tid(k), Zero) = {said[entry[k]]}
  BY DEF ExitCodesAreKept, Steady
<1>1. OrderlyParts /\ SteadyParts /\ DOMAIN entry = DOMAIN map /\ EntriesFit
  BY DEF OrderlyInv, SteadyInv, Steady, TableFits
<1> DEFINE w == map[k].word
<1>2. get_thread_tid(k) = w
  BY <1>1 DEF get_thread_tid, AsInt, H!Field, Steady
<1>3. \A j \in DOMAIN map : map[j].word = w => j = k
  <2>1. \A j \in DOMAIN map : serial[map[j].word] = entry[j]
    BY <1>1 DEF OrderlyParts, EntriesCurrent, Steady
  <2> QED BY <1>1, <2>1 DEF OrderlyParts, OneEntryEach, Steady
<1>4. H!WithWord("THREAD", w) = {k}
  BY <1>1, <1>3 DEF H!WithWord, EntriesFit
<1>5. map[k].more = said[entry[k]]
  BY <1>1 DEF SteadyParts, CodesMatch
<1>6. {map[j].more : j \in {k}} = {map[k].more}
  OBVIOUS
<1> HIDE DEF w
<1> QED BY <1>2, <1>4, <1>5, <1>6 DEF H!get_thread_exitcode

-----------------------------------------------------------------------------
(* Who is registered twice, in every circumstance.                         *)

(* A thread that is about to be registered has no entry, and nobody else   *)
(* is about to register it, unless it looked for its entry in vain.        *)
RegisteredOnce ==
  \A t \in Tid :
    /\ call[t].pc = "register" =>
         serial[call[t].made] \in missed \/ ~HasEntry(serial[call[t].made])
    /\ call[t].pc = "register_self" =>
         serial[t] \in missed \/ (~HasEntry(serial[t]) /\ ~Unregistered(t))

OnceInv == OneEntryPerThread /\ RegisteredOnce

(* Steps that register nobody and leave t about to register nobody new. *)
NoNewEntry(t) ==
  /\ UNCHANGED serial /\ missed \subseteq missed' /\ Others(t)
  /\ DOMAIN entry' \subseteq DOMAIN entry
  /\ \A k \in DOMAIN entry' : entry'[k] = entry[k]
  /\ call'[t].pc \in {"register", "register_self"} =>
       call'[t].pc = call[t].pc /\ call'[t].made = call[t].made

LEMMA NoNewEntryOnce ==
  ASSUME OnceInv, NEW t \in Tid, NoNewEntry(t)
  PROVE  OnceInv'
<1>1. /\ serial' = serial /\ missed \subseteq missed'
      /\ \A u \in Tid \ {t} : call'[u] = call[u]
      /\ \A k \in DOMAIN entry' : k \in DOMAIN entry /\ entry'[k] = entry[k]
  BY DEF NoNewEntry, Others
<1>2. OneEntryPerThread'
  BY <1>1 DEF OnceInv, OneEntryPerThread
<1>3. \A s : HasEntry(s)' => HasEntry(s)
  BY <1>1 DEF HasEntry
<1>4. \A u \in Tid : call'[u].pc \in {"register", "register_self"} =>
        call'[u].pc = call[u].pc /\ call'[u].made = call[u].made
  BY <1>1 DEF NoNewEntry
<1>5. \A u \in Tid : Unregistered(u)' => Unregistered(u)
  BY <1>4 DEF Unregistered, At
<1>6. RegisteredOnce'
  BY <1>1, <1>3, <1>4, <1>5 DEF OnceInv, RegisteredOnce
<1> QED BY <1>2, <1>6 DEF OnceInv

(* A new thread has no entry, and its creator is the only one to register it. *)
LEMMA StartOnce ==
  ASSUME BaseInv, OnceInv, NEW t \in Tid, Alive(t), Beginthread_start(t)
  PROVE  OnceInv'
<1> USE BaseParts
<1>1. PICK new \in Tid, m \in Serial : Newborn(t, new, m)
  BY StartMakesNewborn
<1>2. /\ new # t /\ call[new] = Idle /\ entry' = entry /\ missed' = missed
      /\ \A u \in Tid : Making(u) => call[u].made # new
      /\ serial'[new] = m + 1 /\ \A u \in Tid \ {new} : serial'[u] = serial[u]
      /\ \A u \in Tid \ {t} : call'[u] = call[u]
      /\ call'[t].pc = "register" /\ call'[t].made = new
  BY <1>1 DEF Newborn, KernelTypes, Others
<1>3. \A k \in DOMAIN entry : entry[k] # m + 1
  BY <1>1 DEF Newborn, Latest, Serial, TableFits
<1>4. OneEntryPerThread'
  BY <1>2 DEF OnceInv, OneEntryPerThread
<1>5. ASSUME NEW u \in Tid, call'[u].pc = "register"
      PROVE  (serial[call[u].made] \in missed \/ ~HasEntry(serial[call[u].made]))'
  <2>1. CASE u = t
    BY <1>2, <1>3, <2>1 DEF HasEntry
  <2>2. CASE u # t
    <3>1. call[u].pc = "register" /\ call'[u] = call[u] /\ call[u].made \in Tid \ {new}
      BY <1>2, <1>5, <2>2 DEF Making, ThreadsFit
    <3> QED BY <1>2, <3>1 DEF OnceInv, RegisteredOnce, HasEntry
  <2> QED BY <2>1, <2>2
<1>6. ASSUME NEW u \in Tid, call'[u].pc = "register_self"
      PROVE  (serial[u] \in missed \/ (~HasEntry(serial[u]) /\ ~Unregistered(u)))'
  <2>1. u # t /\ call'[u] = call[u] /\ u # new
    BY <1>2, <1>6, IdleFrame
  <2>2. Unregistered(u)' => Unregistered(u)
    BY <1>2, <2>1 DEF Unregistered, At
  <2> QED BY <1>2, <1>6, <2>1, <2>2 DEF OnceInv, RegisteredOnce, HasEntry
<1> QED BY <1>4, <1>5, <1>6 DEF OnceInv, RegisteredOnce

(* What a registration leaves: one more entry, for a thread that nobody    *)
(* else is about to register, or that has been missed.                     *)
LEMMA NewEntryOnce ==
  ASSUME BaseInv, OnceInv, NEW t \in Tid, NEW k, NEW new, Registers(k, new), Others(t),
         call'[t].pc \notin {"register", "register_self"},
         serial[new] \in missed \/ ~HasEntry(serial[new]),
         serial[new] \in missed
           \/ \A u \in Tid \ {t} : /\ call[u].pc = "register" => call[u].made # new
                                   /\ call[u].pc = "register_self" => u # new
  PROVE  OnceInv'
<1> USE BaseParts
<1>1. /\ serial' = serial /\ missed' = missed /\ new \in Tid /\ serial[new] \in Serial
      /\ DOMAIN entry = DOMAIN map /\ k \notin DOMAIN entry
      /\ DOMAIN entry' = DOMAIN entry \cup {k}
      /\ \A j \in DOMAIN entry : entry'[j] = entry[j]
      /\ entry'[k] = serial[new]
      /\ \A u \in Tid \ {t} : call'[u] = call[u]
  BY DEF Registers, TableFits, Others
<1>2. \A s : HasEntry(s)' <=> HasEntry(s) \/ s = serial[new]
  BY <1>1 DEF HasEntry
<1>3. OneEntryPerThread'
  BY <1>1 DEF OnceInv, OneEntryPerThread, HasEntry
<1>4. \A u \in Tid : u # new => serial[u] # serial[new]
  BY <1>1 DEF SerialsDiffer, Serial, NoSerial
<1>5. ASSUME NEW u \in Tid, call'[u].pc = "register"
      PROVE  (serial[call[u].made] \in missed \/ ~HasEntry(serial[call[u].made]))'
  <2>1. u # t /\ call'[u] = call[u] /\ call[u].made \in Tid
    BY <1>1, <1>5 DEF Making, ThreadsFit
  <2>2. call[u].made # new => serial[call[u].made] # serial[new]
    BY <1>4, <2>1
  <2>3. ASSUME call[u].made = new PROVE serial[call[u].made] \in missed
    <3>1. u \in Tid \ {t} /\ call[u].pc = "register"
      BY <1>5, <2>1
    <3>2. serial[new] \in missed
      BY <2>3, <3>1
    <3> QED BY <2>3, <3>2
  <2>4. serial[call[u].made] \in missed \/ ~HasEntry(serial[call[u].made])
    BY <1>5, <2>1 DEF OnceInv, RegisteredOnce
  <2>5. PICK s : s = serial[call[u].made]
    OBVIOUS
  <2>6. s \in missed \/ ~HasEntry(s)'
    BY <1>2, <2>2, <2>3, <2>4, <2>5
  <2>7. s = (serial[call[u].made])'
    BY <1>1, <2>1, <2>5
  <2> QED BY <1>1, <2>6, <2>7 DEF HasEntry
<1>6. ASSUME NEW u \in Tid, call'[u].pc = "register_self"
      PROVE  (serial[u] \in missed \/ (~HasEntry(serial[u]) /\ ~Unregistered(u)))'
  <2>1. u # t /\ call'[u] = call[u]
    BY <1>1, <1>6
  <2>2. Unregistered(u)' => Unregistered(u)
    BY <1>1 DEF Unregistered, At
  <2>3. serial[u] \in missed \/ (~HasEntry(serial[u]) /\ ~Unregistered(u) /\ serial[u] # serial[new])
    BY <1>4, <1>6, <2>1 DEF OnceInv, RegisteredOnce
  <2> QED BY <1>1, <1>2, <2>2, <2>3 DEF HasEntry
<1> QED BY <1>3, <1>5, <1>6 DEF OnceInv, RegisteredOnce

LEMMA RegisterOnce ==
  ASSUME BaseInv, OnceInv, NEW t \in Tid, NEW r, NEW k \in MinInt..MaxInt,
         Beginthread_register(t, r, k)
  PROVE  OnceInv'
<1> DEFINE new == call[t].made
<1>1. /\ Others(t) /\ call'[t].pc = "detach" /\ call[t].pc = "register"
      /\ new \in Tid /\ Making(t) /\ Registers(k, new)
  BY RegisterFrame
<1>2. serial[new] \in missed \/ ~HasEntry(serial[new])
  BY <1>1 DEF OnceInv, RegisteredOnce
<1>3. \A u \in Tid \ {t} : call[u].pc = "register" => call[u].made # new
  BY <1>1, BaseParts DEF Making, ThreadsFit
<1>4. serial[new] \notin missed => \A u \in Tid \ {t} : call[u].pc = "register_self" => u # new
  BY <1>1 DEF OnceInv, RegisteredOnce, Unregistered, At
<1> HIDE DEF new
<1> QED BY <1>1, <1>2, <1>3, <1>4, NewEntryOnce

LEMMA RegisterSelfOnce ==
  ASSUME BaseInv, OnceInv, NEW t \in Tid, Alive(t), NEW r, NEW k \in MinInt..MaxInt,
         GetCurrentThreadId_register(t, r, k)
  PROVE  OnceInv'
<1>1. /\ Others(t) /\ call'[t].pc = "idle" /\ call[t].pc = "register_self" /\ Registers(k, t)
  BY RegisterSelfFrame, IdleFrame
<1>2. serial[t] \in missed \/ ~HasEntry(serial[t])
  BY <1>1 DEF OnceInv, RegisteredOnce
<1>3. serial[t] \notin missed => \A u \in Tid \ {t} : call[u].pc = "register" => call[u].made # t
  BY <1>1 DEF OnceInv, RegisteredOnce, Unregistered, At
<1> QED BY <1>1, <1>2, <1>3, NewEntryOnce

LEMMA FindOnce ==
  ASSUME BaseInv, OnceInv, NEW t \in Tid, Alive(t), FindCurrentThread(t)
  PROVE  OnceInv'
<1> USE BaseParts
<1>1. UNCHANGED <<serial, entry>>
  BY DEF FindCurrentThread, kernel
<1>2. PICK k \in H!find_thread_by_tid(t) :
        /\ Return(t, IF k = NULL /\ call[t].op = "GetCurrentThreadId"
                     THEN "register_self" ELSE "idle")
        /\ missed' = IF k = NULL /\ (Unregistered(t) \/ HasEntry(serial[t]))
                     THEN missed \cup {serial[t]} ELSE missed
  BY DEF FindCurrentThread
<1> DEFINE place == IF k = NULL /\ call[t].op = "GetCurrentThreadId"
                    THEN "register_self" ELSE "idle"
<1>3. /\ place \in Places /\ place \in {"register_self", "idle"}
      /\ place = "register_self" => k = NULL
      /\ Return(t, place)
  BY <1>2 DEF Places
<1> HIDE DEF place
<1>4. /\ Others(t)
      /\ place = "idle" => call'[t] = Idle
      /\ place # "idle" => GoesTo(t, place)
  BY <1>3, ReturnCall
<1>5. CASE place = "idle"
  <2>1. NoNewEntry(t)
    BY <1>1, <1>2, <1>4, <1>5, IdleFrame DEF NoNewEntry
  <2> QED BY <2>1, NoNewEntryOnce
<1>6. CASE place = "register_self"
  <2>1. /\ call'[t].pc = "register_self" /\ \A u \in Tid \ {t} : call'[u] = call[u]
    BY <1>4, <1>6 DEF GoesTo, Others
  <2>2. serial' = serial /\ entry' = entry /\ missed \subseteq missed'
    BY <1>1, <1>2
  <2>3. serial[t] \in missed' \/ (~HasEntry(serial[t]) /\ ~Unregistered(t))
    BY <1>2, <1>3, <1>6
  <2>4. \A s : HasEntry(s)' <=> HasEntry(s)
    BY <2>2 DEF HasEntry
  <2>5. \A u \in Tid : Unregistered(u)' => Unregistered(u)
    BY <2>1 DEF Unregistered, At
  <2>6. OneEntryPerThread'
    BY <2>2 DEF OnceInv, OneEntryPerThread
  <2>7. RegisteredOnce'
    BY <2>1, <2>2, <2>3, <2>4, <2>5 DEF OnceInv, RegisteredOnce, HasEntry
  <2> QED BY <2>6, <2>7 DEF OnceInv
<1> QED BY <1>3, <1>5, <1>6

(* A call, or a return, of t: no place from which it registers a thread. *)
LEMMA FrameOnce ==
  ASSUME BaseInv, OnceInv, NEW t \in Tid, UNCHANGED <<serial, entry, missed>>, Others(t),
         call' = call \/ call'[t].pc \notin {"register", "register_self"}
  PROVE  OnceInv'
<1>1. NoNewEntry(t)
  BY DEF NoNewEntry
<1> QED BY <1>1, NoNewEntryOnce

LEMMA FramesOnce ==
  ASSUME BaseInv, OnceInv, NEW t \in Tid, Steps(t),
         ~Beginthread_start(t), ~FindCurrentThread(t), ~CloseHandle_erase(t),
         \A r \in 0..MaxInt, k \in MinInt..MaxInt :
           ~Beginthread_register(t, r, k) /\ ~GetCurrentThreadId_register(t, r, k)
  PROVE  OnceInv'
<1> USE BaseParts, IdleFrame
<1>1. UNCHANGED <<serial, entry, missed>>
  BY DEF Steps, CallStep, Begin, Beginthread_throws, Lookup, SetThreadPriority_set,
         GetExitCodeThread_read, InitializeCriticalSection, DeleteCriticalSection, Lock,
         LeaveCriticalSection, UseAfterDelete, PthreadCrashes, Die, _endthread, Cancel,
         Beginthread_detach, Storing, SetsCode, Private, kernel, history
<1>2. ASSUME NEW f \in Frame, CallStep(t, f) PROVE OnceInv'
  <2>1. Others(t) /\ call'[t] = f
    BY <1>2, CallFrame
  <2>2. f.pc \notin {"register", "register_self"}
    BY <1>2 DEF CallStep, NewFrame
  <2> QED BY <1>1, <2>1, <2>2, FrameOnce
<1>3. CASE Beginthread_throws(t) \/ Beginthread_detach(t) \/ Cancel(t)
  <2>1. PICK place \in {"lookup", "idle", "store"} : Return(t, place)
    BY <1>3 DEF Beginthread_throws, Beginthread_detach, Cancel
  <2>2. place \in Places
    BY DEF Places
  <2>3. Others(t) /\ (place = "idle" => call'[t] = Idle) /\ (place # "idle" => GoesTo(t, place))
    BY <2>1, <2>2, ReturnCall
  <2>4. call'[t].pc \notin {"register", "register_self"}
    BY <2>3 DEF GoesTo
  <2> QED BY <1>1, <2>3, <2>4, FrameOnce
<1>4. CASE Lookup(t)
  <2> DEFINE found == get_thread_tid(call[t].h)
             place == AfterLookup(call[t].op, found)
  <2>1. /\ Others(t) /\ place \notin {"register", "register_self"}
        /\ place = "idle" => call'[t] = Idle
        /\ place # "idle" => LooksUp(t, found, place)
    BY <1>4, LookupFrame
  <2> HIDE DEF found, place
  <2>2. call'[t].pc \notin {"register", "register_self"}
    BY <2>1 DEF LooksUp
  <2> QED BY <1>1, <2>1, <2>2, FrameOnce
<1>5. CASE Storing(t)
  <2>1. Others(t) /\ call'[t].pc \in {"exit", "idle"}
    BY <1>5 DEF Storing, GoesTo
  <2> QED BY <1>1, <2>1, FrameOnce
<1>6. CASE \/ SetThreadPriority_set(t) \/ GetExitCodeThread_read(t) \/ Die(t)
           \/ Lock(t)
  <2>1. Done(t)
    BY <1>6 DEF SetThreadPriority_set, GetExitCodeThread_read, Die, Lock
  <2>2. Others(t) /\ call'[t] = Idle
    BY <2>1, DoneCall
  <2> QED BY <1>1, <2>2, FrameOnce
<1>7. CASE \/ InitializeCriticalSection(t) \/ DeleteCriticalSection(t) \/ LeaveCriticalSection(t)
           \/ UseAfterDelete(t) \/ PthreadCrashes(t) \/ _endthread(t)
  <2>1. call' = call
    BY <1>7 DEF InitializeCriticalSection, DeleteCriticalSection, LeaveCriticalSection,
                UseAfterDelete, PthreadCrashes, _endthread
  <2> QED BY <1>1, <2>1, FrameOnce DEF Others
<1> QED BY <1>2, <1>3, <1>4, <1>5, <1>6, <1>7 DEF Steps

LEMMA EraseOnce ==
  ASSUME BaseInv, OnceInv, NEW t \in Tid, CloseHandle_erase(t)
  PROVE  OnceInv'
<1>1. NoNewEntry(t)
  BY EraseFrame, IdleFrame, BaseParts DEF NoNewEntry, TableFits
<1> QED BY <1>1, NoNewEntryOnce

LEMMA StutterOnce ==
  ASSUME OnceInv, UNCHANGED vars
  PROVE  OnceInv'
<1>1. UNCHANGED <<serial, call, entry, missed>>
  BY DEF vars, kernel, history
<1> QED BY <1>1 DEF OnceInv, OneEntryPerThread, RegisteredOnce, HasEntry, Unregistered, At

LEMMA InitOnce ==
  ASSUME Init
  PROVE  OnceInv
<1>1. DOMAIN entry = {} /\ \A t \in Tid : call[t] = Idle
  BY DEF Init
<1> QED BY <1>1, IdleFrame DEF OnceInv, OneEntryPerThread, RegisteredOnce

(* _beginthread, GetCurrentThreadId and CloseHandle: for any number of     *)
(* threads, calls and handles and in every circumstance, recycled and wide *)
(* pthread_ts, key 0 and careless callers included, a thread has two       *)
(* entries only if it looked for its own after std::thread had started it  *)
(* and before its creator registered it, or was led to key 0.              *)
THEOREM OneEntryUnlessMissed == Spec => []OneEntryPerThread
<1>1. Init => OnceInv
  BY InitOnce
<1>2. ASSUME BaseInv, OnceInv, [Next]_vars PROVE OnceInv'
  <2>1. CASE Next
    <3>1. PICK t \in Tid : Steps(t)
      BY <1>2, <2>1, NextIsSteps
    <3>2. Alive(t)
      BY <3>1 DEF Steps
    <3> QED BY <1>2, <3>1, <3>2, FramesOnce, StartOnce, FindOnce, EraseOnce, RegisterOnce,
              RegisterSelfOnce
  <2>2. CASE UNCHANGED vars
    BY <1>2, <2>2, StutterOnce
  <2> QED BY <1>2, <2>1, <2>2
<1>3. OnceInv => OneEntryPerThread
  BY DEF OnceInv
<1> QED BY <1>1, <1>2, <1>3, BaseInvariant, PTL DEF Spec

(* CreateThread, ExitThread, TerminateThread, GetExitCodeThread and        *)
(* CloseHandle: for any number of threads, calls and handles, entries are  *)
(* one per thread but for those that looked in vain.  The other parts hold *)
(* under conditions that the callers and the system have to meet, for this *)
(* code does not see to them: where threads wait for their creator, no     *)
(* handle is closed in use and none is 0, a pthread call crashes only for  *)
(* a thread that has ended; where moreover a pthread_t fits an int and is  *)
(* not recycled, GetExitCodeThread gives the code last set for the thread. *)
LEMMA TableIsRight == Spec => []TableMatchesThreads
<1>1. Init => SteadyInv
  BY InitSteady
<1>2. BaseInv /\ OrderlyInv /\ SteadyInv /\ [Next]_vars => SteadyInv'
  BY NextIsSteps, StepsSteady, StutterSteady
<1>3. BaseInv /\ OrderlyInv /\ SteadyInv /\ OneEntryPerThread => TableMatchesThreads
  <2>1. OrderlyInv => OnlyTheDeadCrash
    BY DEF OrderlyInv, OrderlyParts, OnlyTheDeadCrash
  <2> QED BY <2>1, CodesAreKept DEF TableMatchesThreads
<1> QED BY <1>1, <1>2, <1>3, OrderlyInvariant, OneEntryUnlessMissed, PTL DEF Spec

=============================================================================
