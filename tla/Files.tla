------------------------------- MODULE Files -------------------------------
(***************************************************************************)
(* Files, searches and libraries together: threads that use them at the    *)
(* same time over one directory and one handle table.                      *)
(***************************************************************************)
EXTENDS FindFile, Loader

Next ==
  /\ ~over
  /\ \E t \in Thread :
       \/ FileCall(t) \/ FindCall(t) \/ LoaderCall(t)
       \/ FileStep(t) \/ FindStep(t) \/ LoaderStep(t)

Spec == Init /\ [][Next]_vars

-----------------------------------------------------------------------------
Entries(type) == {k \in DOMAIN map : map[k].type = type}

Holders(fd) ==
  {k \in Entries("FILE") : map[k].word = fd /\ k \notin history.stale}
    \cup {t \in Thread : call[t].pc \in {"register", "update"} /\ call[t].fd = fd}

(* CreateFileA, FindFirstFileA, FindNextFileA, FindClose and CloseHandle:  *)
(* until a search that has come to its end is asked again or closed        *)
(* (fileapi.cpp:263: its entry keeps a descriptor that is closed), every   *)
(* open descriptor has exactly one handle or call that will close it,      *)
(* nobody has one that is closed, and a handle's descriptor is open on the *)
(* file it was opened on.                                                  *)
DescriptorsHaveOneHolder ==
  ~history.struck =>
    /\ \A fd \in Fd : Cardinality(Holders(fd)) = IF fds[fd] = NoIno THEN 0 ELSE 1
    /\ \A k \in Entries("FILE") \ history.stale :
         map[k].word # NoFd => fds[map[k].word] = history.opened[k]

(* fileapi.cpp:411: CreateFileA's open gives no descriptor, which is then  *)
(* registered like one, only when another thread has changed the directory *)
(* during the call, no descriptor is left, or for CREATE_NEW, which does   *)
(* not create.                                                             *)
OpenFailsOnlyIfRaced ==
  \A t \in Thread :
    At(t, "CreateFile", "open") /\ OpenResult(call[t].p, call[t].flag) = NoFd =>
      \/ call[t].raced \/ call[t].how = "CREATE_NEW"
      \/ Cardinality(Entries("FILE")) + Cardinality(Thread) > MaxFd

(* fileapi.cpp:528: GetFileAttributesA returns no attribute at all, which  *)
(* a caller takes for an answer, only when another thread has changed the  *)
(* directory since the call began.                                         *)
AttributesMissOnlyIfRaced ==
  \A t \in Thread :
    At(t, "GetFileAttributes", "kind") /\ ~Exists(call[t].p) => call[t].raced

(* fileapi.cpp:260: FindNextFileA says that there is no next file only     *)
(* when every match that was there from the beginning has been reported,   *)
(* provided no file was removed since; files may come meanwhile.           *)
SearchesAreComplete ==
  [][\A t \in Thread :
       /\ call[t].op = "FindNextFile" /\ call'[t] = Idle /\ map' = map
       /\ call[t].h \in history.calm
       => history.due[call[t].h] \subseteq history.seen[call[t].h]]_vars

(* FindNextFileA never reports a file twice in one search, whatever comes  *)
(* and goes meanwhile.                                                     *)
NothingIsFoundTwice ==
  [][\A t \in Thread :
       At(t, "FindNextFile", "update") /\ call'[t] = Idle =>
         call[t].p \notin history.seen[call[t].h]]_vars

(* winbase.cpp:56: while MoveFileA runs undisturbed, wherever one of its   *)
(* system calls is refused and the exception ends it or the program, the   *)
(* content it moves is whole under the old name; before the old name is    *)
(* removed it is whole under the new one too, which is how a refused       *)
(* remove leaves it: under both.                                           *)
MovesLoseNothing ==
  \A t \in Thread :
    call[t].op = "MoveFile" /\ call[t].pc \in {"copy", "copying", "remove"} /\ ~call[t].raced =>
      LET Has(p) == Exists(p) /\ content[dir[p]] = call[t].kept
      IN  Has(call[t].p) /\ (call[t].pc = "remove" => Has(call[t].q))

(* LoadLibraryA, FreeLibrary, CloseHandle and the constructor: a library   *)
(* is open as often as it has handles and calls that will give it one or   *)
(* have it closed, so no handle outlives its library and none keeps one.   *)
LibrariesMatchHandles ==
  ~over => \A lib \in Lib :
    refs[lib] =
      Cardinality({k \in Entries("MODULE") : map[k].word = lib})
        + Cardinality({t \in Thread : call[t].op = "LoadLibrary" /\ call[t].p = lib
                                      /\ call[t].pc \in {"attach", "attached", "register"}})
        + Cardinality({t \in Thread : call[t].pc = "attached" /\ lib = Self})
        - Cardinality({t \in Thread : call[t].pc = "erase" /\ call[t].fd = lib})

(* A call of CreateFileA, GetFileAttributesA or MoveFileA that nobody      *)
(* disturbs does what it says, although each is several system calls.      *)
UndisturbedCallsWork ==
  OpenFailsOnlyIfRaced /\ AttributesMissOnlyIfRaced /\ MovesLoseNothing

(* A search reports every match there is to report, and each once.         *)
SearchesAreExact == SearchesAreComplete /\ NothingIsFoundTwice

=============================================================================
