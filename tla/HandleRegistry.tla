--------------------------- MODULE HandleRegistry ---------------------------
(***************************************************************************)
(* The handle table in use: the whole process registers, updates and       *)
(* erases handles of every type, in any order.  Each function of           *)
(* common_handle.cpp runs under lock_mutex, so a step is one call.         *)
(***************************************************************************)
EXTENDS HandleTable

VARIABLE live   \* history: registrations that have not been erased

registryVars == <<map, live>>

RegistryInit == Init /\ live = 0

RegFd ==
  /\ \E r \in RandResult, k \in Key, fd \in Word, path, pattern \in Text :
       reg_fd(r, k, fd, path, pattern)
  /\ live' = live + 1

RegModule ==
  /\ \E r \in RandResult, k \in Key, native \in Word, path \in Text :
       reg_module(r, k, native, path)
  /\ live' = live + 1

RegThread ==
  /\ \E r \in RandResult, k \in Key, tid \in Word : reg_thread(r, k, tid)
  /\ live' = live + 1

MutexReg ==
  /\ \E r \in RandResult, k \in Key, mutex, attr \in Word, name \in Text :
       mutex_reg(r, k, mutex, attr, name)
  /\ live' = live + 1

RegEvent ==
  /\ \E r \in RandResult, k \in Key, hEvent \in Word : reg_event(r, k, hEvent)
  /\ live' = live + 1

(* Called by FindNextFileA alone, on whatever handle it was given: find    *)
(* handles, and what a closed one has become since.                        *)
UpdateFd(h) ==
  /\ \E fd \in Word, path \in Text : update_fd(h, fd, path)
  /\ UNCHANGED live

Erase ==
  \E h \in Key :
    /\ erase(h)
    /\ live' = IF h \in DOMAIN map THEN live - 1 ELSE live

SetThreadExitcode ==
  /\ \E tid, code \in Word : set_thread_exitcode(tid, code)
  /\ UNCHANGED live

Next ==
  \/ RegFd \/ RegModule \/ RegThread \/ MutexReg \/ RegEvent
  \/ (\E h \in Key : UpdateFd(h)) \/ Erase \/ SetThreadExitcode

Spec == RegistryInit /\ [][Next]_registryVars

-----------------------------------------------------------------------------
(* No two live registrations share a handle: a new key is never one that   *)
(* is in use, wherever rand() and the increment past INT_MAX lead          *)
(* (common_handle.cpp __compat_handle_new_key_get).                        *)
HandlesAreDistinct == live = object_count

(* While a handle is registered its type does not change, and what it      *)
(* stands for is only touched by a FindNextFileA that was given this very  *)
(* handle; an exit code is only stored with a thread.  So no registration, *)
(* erasure or exit code of another handle comes between two calls on this  *)
(* one.  FindNextFileA does not look at the type: a find handle that was   *)
(* closed, and given out again, may by then be a mutex or a thread.        *)
KeepsItsMeaning ==
  \A h \in DOMAIN map \cap DOMAIN map' :
    LET Same(f) == map'[h][f] = map[h][f]
    IN  /\ Same("type")
        /\ UpdateFd(h) \/ (Same("word") /\ Same("text") /\ Same("pattern"))
        /\ UpdateFd(h) \/ Same("more") \/ map[h].type = "THREAD"
HandleKeepsItsMeaning == [][KeepsItsMeaning]_registryVars

(* new_key_get's loop ends exactly when the table has room, and then in    *)
(* one key.                                                                *)
ProbeFindsTheKey ==
  \A r \in RandResult :
    Cardinality({k \in Key : new_key_get(r, k)}) = IF DOMAIN map = Key THEN 0 ELSE 1

(* Whatever has been registered and erased, in a table of any fill, a new  *)
(* key is found if there is one, and it is nobody's (common_handle.cpp:86).*)
KeysAreFresh == HandlesAreDistinct /\ ProbeFindsTheKey

=============================================================================
