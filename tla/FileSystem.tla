----------------------------- MODULE FileSystem -----------------------------
(***************************************************************************)
(* What Compat/fileapi.cpp, winbase.cpp and libloaderapi.cpp work on: one  *)
(* directory of a POSIX file system, the process's descriptors, the        *)
(* dynamic loader's reference counts, and the handle table.  Every system  *)
(* call is one step; between two of them other threads act.                *)
(*                                                                         *)
(* A name stands for a path in the directory; names are ordered as the     *)
(* sorted paths are.  A file is an inode with its content.                 *)
(***************************************************************************)
EXTENDS Integers, FiniteSets, FiniteSetsExt, Functions

CONSTANTS
  Thread,
  Name,              \* a set of numbers: the paths in their order
  Wild, WildMatches, \* a pattern with * or ?, and the names that it matches
  NoText,
  Lib, Self,         \* shared libraries; the one with a DllMain of ours
  null,              \* nullptr
  MaxFd, MaxIno,     \* bound: descriptors, inodes
  MinInt, MaxInt,    \* the range of int
  Rand,              \* what rand() may return
  Uses               \* what a behaviour may do: see Use

VARIABLES
  use,       \* what is used; never changes
  map,       \* the handle table
  home,      \* whether the directory is there
  dir,       \* per name: its inode
  content,   \* per inode
  fds,       \* per descriptor: the inode that it is open on
  refs,      \* per library: how often it is open
  call,      \* per thread: the function it is in, where, and its locals
  calls,     \* calls made so far
  over,      \* the program has ended: exit, an exception, a bad pointer
  given,     \* handles returned to callers and not closed
  history    \* what the properties need to know of the past

disk == <<home, dir, content>>
vars == <<use, map, disk, fds, refs, call, calls, over, given, history>>

Ino     == 1..MaxIno
NoIno   == 0
Fd      == 1..MaxFd
NoFd    == -1
NULL    == 0
INVALID_HANDLE_VALUE == -1
Content == {"none", "empty", "old", "new", "part"}
Word    == Fd \cup {NoFd, null} \cup Lib
Text    == Name \cup {Wild, NoText} \cup Lib
H == INSTANCE HandleTable WITH NullWord <- null

Dispositions == {"CREATE_ALWAYS", "CREATE_NEW", "OPEN_ALWAYS", "OPEN_EXISTING",
                 "TRUNCATE_EXISTING", "none"}
Calls == {"CreateFile", "WriteFile", "ReadFile", "FlushFileBuffers", "SetFilePointer",
          "GetFileAttributes", "DeleteFile", "CreateDirectory",
          "RemoveDirectory", "CopyFile", "MoveFile", "FindFirstFile", "FindNextFile",
          "FindClose", "CloseHandle", "LoadLibrary", "FreeLibrary", "GetProcAddress",
          "exit", "none"}
Places == {"idle", "parent", "disposition", "open", "register", "lookup", "io", "close",
           "erase", "check", "copy", "copying", "remove", "list", "exists", "update",
           "kind", "dlopen", "attach", "attached", "dlclose"}

(* The functions in use, the dispositions, names and files to start with,  *)
(* and a bound on the calls: parts of the library that do not meet are     *)
(* looked at apart.                                                        *)
Use == [ops : SUBSET Calls, hows : SUBSET (Dispositions \ {"none"}), names : SUBSET Name,
        starts : SUBSET SUBSET Name, calls : Nat]

(* There is an inode for every name, every descriptor and every copy.      *)
ASSUME FileAssumption ==
  /\ Name \subseteq 1..MaxIno /\ WildMatches \subseteq Name
  /\ Self \in Lib
  /\ NoText \notin Name \cup Lib \cup {Wild} /\ Wild \notin Name \cup Lib
  /\ Lib \cap Int = {} /\ Thread \cap Int = {}
  /\ MinInt \in Int /\ MaxInt \in Int /\ MinInt < 0 /\ 0 < MaxInt
  /\ Rand \subseteq 0..MaxInt
  /\ MaxFd \in Nat /\ MaxIno \in Nat
  /\ IsFiniteSet(Thread)
  /\ Cardinality(Name) + MaxFd + Cardinality(Thread) <= MaxIno + 1
  /\ Uses \subseteq Use

(* how: CreateFile's disposition; flag: O_CREAT, bFailIfExists;            *)
(* fd: the descriptor or native handle in hand; ino: the copy's target.    *)
(* raced: another thread has changed the directory since the call began;   *)
(* kept: the content to be moved; due: the matches when a search began.    *)
Frame == [op : Calls, pc : Places, h : MinInt..MaxInt, p : Text, q : Text,
          how : Dispositions, flag : BOOLEAN, fd : Word, ino : Ino \cup {NoIno},
          raced : BOOLEAN, kept : Content, due : SUBSET Name]
Idle == [op |-> "none", pc |-> "idle", h |-> NULL, p |-> NoText, q |-> NoText,
         how |-> "none", flag |-> FALSE, fd |-> NoFd, ino |-> NoIno,
         raced |-> FALSE, kept |-> "none", due |-> {}]

(* opened: the inode a FILE handle's descriptor was opened on;             *)
(* stale: FILE handles whose descriptor is closed already;                 *)
(* struck: a stale descriptor has been closed or used;                     *)
(* seen, due: what a search has reported and what was there when it began; *)
(* calm: searches since whose beginning no file has been removed.          *)
Key == MinInt..MaxInt
History == [opened : [Key -> Ino \cup {NoIno}], stale : SUBSET Key, struck : BOOLEAN,
            seen : [Key -> SUBSET Name], due : [Key -> SUBSET Name], calm : SUBSET Key]

TypeOK ==
  /\ use \in Uses /\ use \in Use
  /\ H!TypeOK
  /\ home \in BOOLEAN
  /\ dir \in [Name -> Ino \cup {NoIno}]
  /\ ~home => \A p \in Name : dir[p] = NoIno
  /\ content \in [Ino -> Content]
  /\ fds \in [Fd -> Ino \cup {NoIno}]
  /\ refs \in [Lib -> Nat]
  /\ call \in [Thread -> Frame]
  /\ calls \in 0..use.calls
  /\ over \in BOOLEAN
  /\ given \subseteq Key
  /\ history \in History

Init ==
  /\ use \in Uses
  /\ H!Init
  /\ home \in BOOLEAN
  /\ \E there \in use.starts :
       /\ home \/ there = {}
       /\ dir = [p \in Name |-> IF p \in there THEN p ELSE NoIno]
  /\ content = [i \in Ino |-> IF i \in Range(dir) THEN "old" ELSE "none"]
  /\ fds = [fd \in Fd |-> NoIno]
  /\ refs = [l \in Lib |-> 0]
  /\ call = [t \in Thread |-> Idle]
  /\ calls = 0
  /\ over = FALSE
  /\ given = {}
  /\ history = [opened |-> [k \in Key |-> NoIno], stale |-> {}, struck |-> FALSE,
                seen |-> [k \in Key |-> {}], due |-> [k \in Key |-> {}], calm |-> {}]

Goto(t, place) == call' = [call EXCEPT ![t].pc = place]
Done(t)        == call' = [call EXCEPT ![t] = Idle]
At(t, f, place) == call[t].op = f /\ call[t].pc = place

(* A handle is used by one thread at a time.                               *)
OnHandle == {"WriteFile", "ReadFile", "FlushFileBuffers", "SetFilePointer", "FindNextFile",
             "FindClose", "CloseHandle", "FreeLibrary", "GetProcAddress"}
InUse(k) == \E t \in Thread : call[t].op \in OnHandle /\ call[t].h = k

Begin(t, frame) ==
  /\ call[t] = Idle /\ calls < use.calls
  /\ frame.op \in use.ops
  /\ calls' = calls + 1
  /\ call' = [call EXCEPT ![t] = frame]
  /\ UNCHANGED <<use, map, disk, fds, refs, over, history>>

(* A step of t that changes the directory is noticed by the calls of the   *)
(* others: frame is what becomes of t's own.                               *)
Disturb(t, frame) ==
  call' = [u \in Thread |-> IF u = t THEN frame
                            ELSE [call[u] EXCEPT !.raced = call[u].op # "none"]]

-----------------------------------------------------------------------------
(* System calls.                                                           *)
Exists(p) == home /\ dir[p] # NoIno
Listing   == {p \in Name : Exists(p)}
FreshIno  == Min(Ino \ (Range(dir) \cup Range(fds) \cup {call[t].ino : t \in Thread}))
Closed    == {fd \in Fd : fds[fd] = NoIno}

OpenResult(p, creates) ==
  IF Closed = {} \/ ~home \/ (~Exists(p) /\ ~creates) THEN NoFd ELSE Min(Closed)

open(p, fd, creates, truncates) ==
  LET ino == IF Exists(p) THEN dir[p] ELSE FreshIno
  IN  IF fd = NoFd THEN UNCHANGED <<disk, fds>>
      ELSE /\ dir' = [dir EXCEPT ![p] = ino]
           /\ content' = IF Exists(p) /\ ~truncates THEN content
                         ELSE [content EXCEPT ![ino] = "empty"]
           /\ fds' = [fds EXCEPT ![fd] = ino]
           /\ UNCHANGED home

close(fd) == fds' = IF fd \in Fd THEN [fds EXCEPT ![fd] = NoIno] ELSE fds

unlink(p) ==
  /\ dir' = [dir EXCEPT ![p] = NoIno]
  /\ history' = [history EXCEPT !.calm = IF dir[p] = NoIno THEN @ ELSE {}]
  /\ UNCHANGED <<home, content>>

=============================================================================
