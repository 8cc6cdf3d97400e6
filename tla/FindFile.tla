------------------------------ MODULE FindFile ------------------------------
(***************************************************************************)
(* Compat/fileapi.cpp: FindFirstFile, FindNextFile and FindClose, and      *)
(* io.cpp's _findfirst and _findclose on top of them.  A search keeps in   *)
(* its entry the pattern, the path last reported and a descriptor of it;   *)
(* every FindNextFile lists the directory anew and goes on after the path. *)
(***************************************************************************)
EXTENDS FileApi

Matching(pattern) == IF pattern = Wild THEN WildMatches ELSE {pattern}
Leave == UNCHANGED <<use, map, disk, fds, refs, calls, over, given, history>>

CallFindFirstFileA(t, pattern) ==
  /\ Begin(t, [Idle EXCEPT !.op = "FindFirstFile", !.pc = "list", !.q = pattern])
  /\ UNCHANGED given
CallFindFirstFileW(t, pattern) ==
  pattern \in Wide \cup {Wild} /\ CallFindFirstFileA(t, pattern)
_findfirst(t, filespec) == CallFindFirstFileA(t, filespec)

(* The first match of the listing, or the path itself; a directory that is *)
(* not there throws.                                                       *)
FindFirstFileA_list(t) ==
  /\ At(t, "FindFirstFile", "list")
  /\ LET found == IF call[t].q = Wild THEN Listing \cap WildMatches ELSE {call[t].q}
     IN  IF found = {} THEN Done(t)
         ELSE call' = [call EXCEPT ![t].pc = "exists", ![t].p = Min(found),
                                   ![t].due = Listing \cap Matching(call[t].q),
                                   ![t].raced = FALSE]
  /\ Leave

Find_exists(t) ==
  /\ call[t].op \in {"FindFirstFile", "FindNextFile"} /\ call[t].pc = "exists"
  /\ IF Exists(call[t].p) THEN Goto(t, "open") ELSE Done(t)
  /\ Leave

(* O_PATH: nothing is created.                                             *)
Find_open(t) ==
  /\ call[t].op \in {"FindFirstFile", "FindNextFile"} /\ call[t].pc = "open"
  /\ LET fd == OpenResult(call[t].p, FALSE)
     IN  /\ open(call[t].p, fd, FALSE, FALSE)
         /\ call' = [call EXCEPT ![t].fd = fd, ![t].pc =
                       IF call[t].op = "FindFirstFile" THEN "register" ELSE "update"]
  /\ UNCHANGED <<use, map, refs, calls, over, given, history>>

OpenedOn(fd) == IF fd = NoFd THEN NoIno ELSE fds[fd]

FindFirstFileA_register(t, r, k) ==
  /\ At(t, "FindFirstFile", "register")
  /\ H!reg_fd(r, k, call[t].fd, call[t].p, call[t].q)
  /\ given' = given \cup {k}
  /\ history' = [history EXCEPT !.opened[k] = OpenedOn(call[t].fd),
                                !.seen[k] = {call[t].p}, !.due[k] = call[t].due,
                                !.calm = IF call[t].raced THEN @ ELSE @ \cup {k}]
  /\ Done(t)
  /\ UNCHANGED <<use, disk, fds, refs, calls, over>>

-----------------------------------------------------------------------------
CallFindNextFileA(t, k) ==
  /\ k \in given /\ ~InUse(k) /\ IsSearch(k)
  /\ Begin(t, [Idle EXCEPT !.op = "FindNextFile", !.pc = "list", !.h = k])
  /\ UNCHANGED given
CallFindNextFileW(t, k) == CallFindNextFileA(t, k)

(* Only a pattern has a next file, and only if the last one is listed.     *)
(* Mutant: the next file's name is not looked at. *)
ListSkipping(t) ==
  /\ At(t, "FindNextFile", "list")
  /\ LET last == H!get_fd_path(call[t].h)
         rest == {p \in Listing \cap WildMatches : p > last + 1}
     IN  IF H!get_fd_findPattern(call[t].h) # Wild \/ last \notin Listing THEN Done(t)
         ELSE call' = [call EXCEPT ![t].pc = "close", ![t].fd = H!get_fd(call[t].h, NoFd),
                                   ![t].p = IF rest = {} THEN NoText ELSE Min(rest)]
  /\ Leave
FindNextFileA_list(t) ==
  /\ At(t, "FindNextFile", "list")
  /\ LET last == H!get_fd_path(call[t].h)
         rest == {p \in Listing \cap WildMatches : p > last}
     IN  IF H!get_fd_findPattern(call[t].h) # Wild \/ last \notin Listing THEN Done(t)
         ELSE call' = [call EXCEPT ![t].pc = "close", ![t].fd = H!get_fd(call[t].h, NoFd),
                                   ![t].p = IF rest = {} THEN NoText ELSE Min(rest)]
  /\ Leave

(* The last file's descriptor is closed while the entry still has it.      *)
FindNextFileA_close(t) ==
  /\ At(t, "FindNextFile", "close")
  /\ CloseDescriptor(t)
  /\ IF call[t].p = NoText THEN Done(t)
     ELSE call' = [call EXCEPT ![t].pc = "exists", ![t].fd = NoFd]

FindNextFileA_update(t) ==
  /\ At(t, "FindNextFile", "update")
  /\ H!update_fd(call[t].h, call[t].fd, call[t].p)
  /\ history' = [history EXCEPT !.opened[call[t].h] = OpenedOn(call[t].fd),
                                !.seen[call[t].h] = @ \cup {call[t].p},
                                !.stale = @ \ {call[t].h}]
  /\ Done(t)
  /\ UNCHANGED <<use, disk, fds, refs, calls, over, given>>

CallFindClose(t, k) ==
  /\ CallOnFile(t, "FindClose", k, "lookup")
  /\ given' = given \ {k}
_findclose(t, k) == CallFindClose(t, k)

-----------------------------------------------------------------------------
FindCall(t) ==
  \/ \E pattern \in use.names \cup {Wild} :
       \/ CallFindFirstFileA(t, pattern) \/ CallFindFirstFileW(t, pattern)
       \/ _findfirst(t, pattern)
  \/ \E k \in given :
       \/ CallFindNextFileA(t, k) \/ CallFindNextFileW(t, k)
       \/ CallFindClose(t, k) \/ _findclose(t, k)

FindStep(t) ==
  \/ FindFirstFileA_list(t) \/ Find_exists(t) \/ Find_open(t)
  \/ \E r \in Rand, k \in Key : FindFirstFileA_register(t, r, k)
  \/ FindNextFileA_list(t) \/ FindNextFileA_close(t) \/ FindNextFileA_update(t)

=============================================================================
