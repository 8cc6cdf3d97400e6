------------------------------- MODULE FileApi -------------------------------
(***************************************************************************)
(* Compat/fileapi.cpp without the directory search, winbase.cpp's copy and *)
(* move, direct.cpp and the FILE branch of CloseHandle.                    *)
(***************************************************************************)
EXTENDS FileSystem

(* The functions with a W convert the name and call the other: a name that *)
(* is not well-formed UTF-16 throws, and nothing happens.  Names that have *)
(* a wide form:                                                            *)
CONSTANT Wide
ASSUME WideAssumption == Wide \subseteq Name

-----------------------------------------------------------------------------
(* CreateFileA: the parent directory, the disposition, open, registration. *)
CallCreateFileA(t, p, how) ==
  /\ Begin(t, [Idle EXCEPT !.op = "CreateFile", !.pc = "parent", !.p = p, !.how = how])
  /\ UNCHANGED given
CallCreateFileW(t, p, how) == p \in Wide /\ CallCreateFileA(t, p, how)

CreateFileA_parent(t) ==
  /\ At(t, "CreateFile", "parent")
  /\ home' = TRUE
  /\ IF home THEN Goto(t, "disposition")
     ELSE Disturb(t, [call[t] EXCEPT !.pc = "disposition"])
  /\ UNCHANGED <<use, map, dir, content, fds, refs, calls, over, given, history>>

(* CREATE_ALWAYS removes what is there, the others look whether it is.     *)
CreateFileA_replace(t) ==
  /\ At(t, "CreateFile", "disposition") /\ call[t].how = "CREATE_ALWAYS"
  /\ unlink(call[t].p)
  /\ Disturb(t, [call[t] EXCEPT !.pc = "open", !.flag = TRUE])
  /\ UNCHANGED <<use, map, fds, refs, calls, over, given>>

CreateFileA_disposition(t) ==
  /\ At(t, "CreateFile", "disposition") /\ call[t].how # "CREATE_ALWAYS"
  /\ IF call[t].how \in {"OPEN_EXISTING", "TRUNCATE_EXISTING"} /\ ~Exists(call[t].p)
     THEN Done(t)
     ELSE call' = [call EXCEPT ![t].pc = "open",
                               ![t].flag = call[t].how = "OPEN_ALWAYS" /\ ~Exists(call[t].p)]
  /\ UNCHANGED <<use, map, disk, fds, refs, calls, over, given, history>>

CreateFileA_open(t) ==
  /\ At(t, "CreateFile", "open")
  /\ LET fd == OpenResult(call[t].p, call[t].flag)
         frame == [call[t] EXCEPT !.pc = "register", !.fd = fd]
         truncates == call[t].how = "TRUNCATE_EXISTING"
     IN  /\ open(call[t].p, fd, call[t].flag, truncates)
         /\ IF fd # NoFd /\ (truncates \/ ~Exists(call[t].p)) THEN Disturb(t, frame)
            ELSE call' = [call EXCEPT ![t] = frame]
  /\ UNCHANGED <<use, map, refs, calls, over, given, history>>

(* Whatever open returned: a descriptor of -1 gets a handle too.           *)
CreateFileA_register(t, r, k) ==
  /\ At(t, "CreateFile", "register")
  /\ H!reg_fd(r, k, call[t].fd, call[t].p, NoText)
  /\ given' = given \cup {k}
  /\ history' = [history EXCEPT !.opened[k] = IF call[t].fd = NoFd THEN NoIno
                                              ELSE fds[call[t].fd]]
  /\ Done(t)
  /\ UNCHANGED <<use, disk, fds, refs, calls, over>>

-----------------------------------------------------------------------------
(* The functions on an open file.                                          *)
IsSearch(k) == H!get_fd_findPattern(k) # NoText

CallOnFile(t, f, k, place) ==
  /\ k \in given /\ ~InUse(k) /\ H!type_get(k) = "FILE"
  /\ f = "FindClose" <=> IsSearch(k)
  /\ Begin(t, [Idle EXCEPT !.op = f, !.pc = place, !.h = k])

CallWriteFile(t, k) == CallOnFile(t, "WriteFile", k, "lookup") /\ UNCHANGED given
CallReadFile(t, k)  == CallOnFile(t, "ReadFile", k, "lookup") /\ UNCHANGED given
CallFlushFileBuffers(t, k) == CallOnFile(t, "FlushFileBuffers", k, "lookup") /\ UNCHANGED given
CallSetFilePointer(t, k)   == CallOnFile(t, "SetFilePointer", k, "lookup") /\ UNCHANGED given

Descriptor_lookup(t) ==
  /\ call[t].op \in {"WriteFile", "ReadFile", "FlushFileBuffers", "SetFilePointer"}
  /\ call[t].pc = "lookup"
  /\ LET fd == H!get_fd(call[t].h, NoFd)
     IN  IF fd = NoFd THEN Done(t) ELSE call' = [call EXCEPT ![t].fd = fd, ![t].pc = "io"]
  /\ UNCHANGED <<use, map, disk, fds, refs, calls, over, given, history>>

(* read, syncfs and lseek change nothing that is modelled here.  ReadFile  *)
(* returns TRUE after an error too, with no bytes read.                    *)
ReadOnly(t, f) ==
  /\ At(t, f, "io") /\ Done(t)
  /\ UNCHANGED <<use, map, disk, fds, refs, calls, over, given, history>>
ReadFile_read(t) == ReadOnly(t, "ReadFile")
FlushFileBuffers_syncfs(t) == ReadOnly(t, "FlushFileBuffers")
SetFilePointer_lseek(t) == ReadOnly(t, "SetFilePointer")

(* write may fail.                                                         *)
WriteFile_write(t) ==
  /\ At(t, "WriteFile", "io")
  /\ LET ino == fds[call[t].fd]
     IN  \/ /\ ino # NoIno
            /\ content' = [content EXCEPT ![ino] = "new"]
            /\ Disturb(t, Idle)
         \/ UNCHANGED content /\ Done(t)
  /\ UNCHANGED <<use, map, home, dir, fds, refs, calls, over, given, history>>

CallCloseHandle(t, k) ==
  /\ CallOnFile(t, "CloseHandle", k, "lookup")
  /\ given' = given \ {k}

Closing(t) == call[t].op \in {"CloseHandle", "FindClose"} /\ H!type_get(call[t].h) = "FILE"

CloseFile_lookup(t) ==
  /\ Closing(t) /\ call[t].pc = "lookup"
  /\ LET fd == H!get_fd(call[t].h, NoFd)
     IN  call' = [call EXCEPT ![t].fd = fd, ![t].pc = IF fd = NoFd THEN "erase" ELSE "close"]
  /\ UNCHANGED <<use, map, disk, fds, refs, calls, over, given, history>>

CloseDescriptor(t) ==
  /\ close(call[t].fd)
  /\ history' = [history EXCEPT !.struck = @ \/ call[t].h \in history.stale,
                                !.stale = @ \cup {call[t].h}]
  /\ UNCHANGED <<use, map, disk, refs, calls, over, given>>

(* Mutant: the handle goes, the descriptor stays. *)
CloseNothing(t) ==
  /\ Closing(t) /\ call[t].pc = "close"
  /\ Goto(t, "erase")
  /\ UNCHANGED <<use, map, disk, fds, refs, calls, over, given, history>>
CloseFile_close(t) ==
  /\ Closing(t) /\ call[t].pc = "close"
  /\ CloseDescriptor(t)
  /\ Goto(t, "erase")

CloseFile_erase(t) ==
  /\ Closing(t) /\ call[t].pc = "erase"
  /\ H!erase(call[t].h)
  /\ history' = [history EXCEPT !.stale = @ \ {call[t].h}, !.calm = @ \ {call[t].h},
                                !.opened[call[t].h] = NoIno,
                                !.seen[call[t].h] = {}, !.due[call[t].h] = {}]
  /\ Done(t)
  /\ UNCHANGED <<use, disk, fds, refs, calls, over, given>>

-----------------------------------------------------------------------------
(* Functions whose looks before they act change nothing: remove and mkdir  *)
(* of what is not, or is already, there do nothing.                        *)
Atomic(t, f) ==
  /\ call[t] = Idle /\ f \in use.ops /\ calls < use.calls
  /\ calls' = calls + 1
  /\ Disturb(t, Idle)
  /\ UNCHANGED <<use, map, fds, refs, over, given>>

DeleteFileA(t, p) == Atomic(t, "DeleteFile") /\ Exists(p) /\ unlink(p)
DeleteFileW(t, p) == p \in Wide /\ DeleteFileA(t, p)

CreateDirectoryA(t) ==
  /\ Atomic(t, "CreateDirectory") /\ ~home
  /\ home' = TRUE
  /\ UNCHANGED <<dir, content, history>>
CreateDirectoryW(t) == CreateDirectoryA(t)
_mkdir(t) == CreateDirectoryA(t)

(* Mutant: without a look whether it is empty. *)
RemoveAll(t) ==
  /\ Atomic(t, "RemoveDirectory") /\ home
  /\ home' = FALSE
  /\ UNCHANGED <<dir, content, history>>
RemoveDirectoryA(t) ==
  /\ Atomic(t, "RemoveDirectory") /\ home /\ Listing = {}
  /\ home' = FALSE
  /\ UNCHANGED <<dir, content, history>>
RemoveDirectoryW(t) == RemoveDirectoryA(t)

(* GetFileAttributesA looks whether the file is there and then, in further *)
(* system calls, what it is: one that has gone by then has no attributes.  *)
CallGetFileAttributesA(t, p) ==
  /\ Begin(t, [Idle EXCEPT !.op = "GetFileAttributes", !.pc = "check", !.p = p])
  /\ UNCHANGED given
CallGetFileAttributesW(t, p) == p \in Wide /\ CallGetFileAttributesA(t, p)

GetFileAttributesA_exists(t) ==
  /\ At(t, "GetFileAttributes", "check")
  /\ IF Exists(call[t].p) THEN Goto(t, "kind") ELSE Done(t)
  /\ UNCHANGED <<use, map, disk, fds, refs, calls, over, given, history>>
GetFileAttributesA_kind(t) ==
  /\ At(t, "GetFileAttributes", "kind") /\ Done(t)
  /\ UNCHANGED <<use, map, disk, fds, refs, calls, over, given, history>>

-----------------------------------------------------------------------------
(* CopyFileA and MoveFileA.                                                *)
CallCopyFileA(t, p, q, bFailIfExists) ==
  /\ Begin(t, [Idle EXCEPT !.op = "CopyFile", !.pc = "check", !.p = p, !.q = q,
                           !.flag = bFailIfExists])
  /\ UNCHANGED given
CallCopyFileW(t, p, q, bFailIfExists) ==
  {p, q} \subseteq Wide /\ CallCopyFileA(t, p, q, bFailIfExists)

CopyFileA_check(t) ==
  /\ At(t, "CopyFile", "check")
  /\ IF ~Exists(call[t].p) \/ (Exists(call[t].q) /\ call[t].flag)
     THEN Done(t) /\ UNCHANGED <<disk, history>>
     ELSE unlink(call[t].q) /\ Disturb(t, [call[t] EXCEPT !.pc = "copy"])
  /\ UNCHANGED <<use, map, fds, refs, calls, over, given>>

CallMoveFileA(t, p, q) ==
  /\ Begin(t, [Idle EXCEPT !.op = "MoveFile", !.pc = "check", !.p = p, !.q = q])
  /\ UNCHANGED given
CallMoveFileW(t, p, q) == {p, q} \subseteq Wide /\ CallMoveFileA(t, p, q)

MoveFileA_check(t) ==
  /\ At(t, "MoveFile", "check")
  /\ IF ~Exists(call[t].p) \/ Exists(call[t].q) THEN Done(t)
     ELSE call' = [call EXCEPT ![t].pc = "copy", ![t].raced = FALSE,
                               ![t].kept = content[dir[call[t].p]]]
  /\ UNCHANGED <<use, map, disk, fds, refs, calls, over, given, history>>

(* copy creates the target, which must not be there, and fills it.         *)
Copy_start(t) ==
  /\ call[t].pc = "copy"
  /\ Exists(call[t].p) /\ ~Exists(call[t].q)
  /\ dir' = [dir EXCEPT ![call[t].q] = FreshIno]
  /\ content' = [content EXCEPT ![FreshIno] = "part"]
  /\ Disturb(t, [call[t] EXCEPT !.pc = "copying", !.ino = FreshIno,
                                !.kept = content[dir[call[t].p]]])
  /\ UNCHANGED <<use, map, home, fds, refs, calls, over, given, history>>

(* Mutant: the source goes first. *)
RemovingFirst(t) ==
  /\ call[t].pc = "copying"
  /\ unlink(call[t].p)
  /\ Disturb(t, [call[t] EXCEPT !.pc = "remove"])
  /\ UNCHANGED <<use, map, fds, refs, calls, over, given>>
Copy_end(t) ==
  /\ call[t].pc = "copying"
  /\ \E c \in {call[t].kept} \cup {content[i] : i \in {dir[call[t].p]} \ {NoIno}} :
       content' = [content EXCEPT ![call[t].ino] = c]
  /\ Disturb(t, IF call[t].op = "CopyFile" THEN Idle
                ELSE [call[t] EXCEPT !.pc = "remove"])
  /\ UNCHANGED <<use, map, home, dir, fds, refs, calls, over, given, history>>

MoveFileA_remove(t) ==
  /\ At(t, "MoveFile", "remove")
  /\ unlink(call[t].p)
  /\ Disturb(t, Idle)
  /\ UNCHANGED <<use, map, fds, refs, calls, over, given>>

-----------------------------------------------------------------------------
(* boost::filesystem throws where the system refuses it something: to make *)
(* CreateFileA's directory or remove the old file, or any call of a copy   *)
(* or a move, the last remove of a move too.  What is done stays done.     *)
(* CreateFileA catches it and gives no handle; the copy and the move leave *)
(* it to the caller, who catches it or not.                                *)
Copies(t) == call[t].op \in {"CopyFile", "MoveFile"}

ExceptionCaught(t) ==
  /\ Copies(t) \/ At(t, "CreateFile", "parent") \/ At(t, "CreateFile", "disposition")
  /\ Done(t)
  /\ UNCHANGED <<use, map, disk, fds, refs, calls, over, given, history>>

ExceptionUncaught(t) ==
  /\ Copies(t)
  /\ over' = TRUE
  /\ UNCHANGED <<use, map, disk, fds, refs, call, calls, given, history>>

-----------------------------------------------------------------------------
FileCall(t) ==
  \/ \E p \in use.names :
       \/ \E how \in use.hows :
            CallCreateFileA(t, p, how) \/ CallCreateFileW(t, p, how)
       \/ DeleteFileA(t, p) \/ DeleteFileW(t, p)
       \/ CallGetFileAttributesA(t, p) \/ CallGetFileAttributesW(t, p)
       \/ \E q \in use.names \ {p} :
            \/ \E b \in BOOLEAN : CallCopyFileA(t, p, q, b) \/ CallCopyFileW(t, p, q, b)
            \/ CallMoveFileA(t, p, q) \/ CallMoveFileW(t, p, q)
  \/ \E k \in given :
       \/ CallWriteFile(t, k) \/ CallReadFile(t, k)
       \/ CallFlushFileBuffers(t, k) \/ CallSetFilePointer(t, k)
       \/ CallCloseHandle(t, k)
  \/ CreateDirectoryA(t) \/ CreateDirectoryW(t) \/ _mkdir(t)
  \/ RemoveDirectoryA(t) \/ RemoveDirectoryW(t)

FileStep(t) ==
  \/ CreateFileA_parent(t) \/ CreateFileA_replace(t) \/ CreateFileA_disposition(t)
  \/ CreateFileA_open(t)
  \/ \E r \in Rand, k \in Key : CreateFileA_register(t, r, k)
  \/ Descriptor_lookup(t) \/ WriteFile_write(t) \/ ReadFile_read(t)
  \/ FlushFileBuffers_syncfs(t) \/ SetFilePointer_lseek(t)
  \/ GetFileAttributesA_exists(t) \/ GetFileAttributesA_kind(t)
  \/ CloseFile_lookup(t) \/ CloseFile_close(t) \/ CloseFile_erase(t)
  \/ CopyFileA_check(t) \/ MoveFileA_check(t)
  \/ Copy_start(t) \/ Copy_end(t) \/ MoveFileA_remove(t)
  \/ ExceptionCaught(t) \/ ExceptionUncaught(t)

=============================================================================
