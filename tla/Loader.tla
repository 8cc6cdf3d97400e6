------------------------------- MODULE Loader -------------------------------
(***************************************************************************)
(* Compat/libloaderapi.cpp and the MODULE branch of CloseHandle: a handle  *)
(* per LoadLibrary over dlopen's reference counts.  A library with a       *)
(* DllMain has _wrapper_init as a constructor, which dlopen runs, and      *)
(* _wrapper_fini as a destructor: both open it once more.                  *)
(***************************************************************************)
EXTENDS FileSystem

Unmoved == UNCHANGED <<use, disk, fds, calls, over, history>>

(* The loader has a lock, which it holds while constructors run.           *)
LoaderIsFree == \A t \in Thread : call[t].pc \notin {"attach", "attached"}

CallLoadLibraryA(t, lib) ==
  /\ Begin(t, [Idle EXCEPT !.op = "LoadLibrary", !.pc = "dlopen", !.p = lib])
  /\ UNCHANGED given
CallLoadLibraryW(t, lib) == CallLoadLibraryA(t, lib)

LoadLibraryA_fails(t) ==
  /\ At(t, "LoadLibrary", "dlopen")
  /\ Done(t)
  /\ Unmoved /\ UNCHANGED <<map, refs, given>>

LoadLibraryA_dlopen(t) ==
  /\ At(t, "LoadLibrary", "dlopen") /\ LoaderIsFree
  /\ refs' = [refs EXCEPT ![call[t].p] = @ + 1]
  /\ Goto(t, IF call[t].p = Self /\ refs[Self] = 0 THEN "attach" ELSE "register")
  /\ Unmoved /\ UNCHANGED <<map, given>>

_wrapper_init_dlopen(t) ==
  /\ At(t, "LoadLibrary", "attach")
  /\ refs' = [refs EXCEPT ![Self] = @ + 1]
  /\ Goto(t, "attached")
  /\ Unmoved /\ UNCHANGED <<map, given>>

(* The handle goes to DllMain.                                             *)
_wrapper_init_register(t, r, k) ==
  /\ At(t, "LoadLibrary", "attached")
  /\ H!reg_module(r, k, Self, Self)
  /\ Goto(t, "register")
  /\ Unmoved /\ UNCHANGED <<refs, given>>

LoadLibraryA_register(t, r, k) ==
  /\ At(t, "LoadLibrary", "register")
  /\ H!reg_module(r, k, call[t].p, call[t].p)
  /\ given' = given \cup {k}
  /\ Done(t)
  /\ Unmoved /\ UNCHANGED refs

-----------------------------------------------------------------------------
CallOnModule(t, f, k) ==
  /\ k \in given /\ ~InUse(k) /\ H!type_get(k) = "MODULE"
  /\ Begin(t, [Idle EXCEPT !.op = f, !.pc = "lookup", !.h = k])
  /\ given' = IF f = "GetProcAddress" THEN given ELSE given \ {k}

CallGetProcAddressA(t, k) == CallOnModule(t, "GetProcAddress", k)
CallGetProcAddressW(t, k) == CallGetProcAddressA(t, k)
CallFreeLibrary(t, k)     == CallOnModule(t, "FreeLibrary", k)
CallCloseModule(t, k)     == CallOnModule(t, "CloseHandle", k)

IsModule(t) == H!type_get(call[t].h) = "MODULE"

Module_lookup(t) ==
  /\ call[t].op \in {"GetProcAddress", "FreeLibrary", "CloseHandle"}
  /\ IsModule(t) /\ call[t].pc = "lookup"
  /\ LET native == H!get_module_native_handle(call[t].h)
     IN  call' = [call EXCEPT ![t].fd = native, ![t].pc =
                    IF call[t].op = "GetProcAddress" THEN "io" ELSE "dlclose"]
  /\ Unmoved /\ UNCHANGED <<map, refs, given>>

(* dlsym needs a library that is loaded.                                   *)
GetProcAddressA_dlsym(t) ==
  /\ At(t, "GetProcAddress", "io")
  /\ over' = (refs[call[t].fd] = 0)
  /\ Done(t)
  /\ UNCHANGED <<use, map, disk, fds, refs, calls, given, history>>

(* Mutant: the entry goes, the library stays. *)
ErasingOnly(t) ==
  /\ call[t].pc = "dlclose" /\ LoaderIsFree
  /\ Goto(t, "erase")
  /\ Unmoved /\ UNCHANGED <<map, refs, given>>
FreeLibrary_dlclose(t) ==
  /\ call[t].pc = "dlclose" /\ LoaderIsFree
  /\ refs' = [refs EXCEPT ![call[t].fd] = @ - 1]
  /\ Goto(t, "erase")
  /\ Unmoved /\ UNCHANGED <<map, given>>

FreeLibrary_erase(t) ==
  /\ call[t].op \in {"FreeLibrary", "CloseHandle"} /\ IsModule(t) /\ call[t].pc = "erase"
  /\ H!erase(call[t].h)
  /\ Done(t)
  /\ Unmoved /\ UNCHANGED <<refs, given>>

(* When the program ends, for a library that is still loaded.  The search  *)
(* by native handle may find any of its handles.                           *)
_wrapper_fini(t) ==
  /\ \A u \in Thread : call[u] = Idle
  /\ "exit" \in use.ops /\ refs[Self] > 0
  /\ over' = TRUE
  /\ refs' = [refs EXCEPT ![Self] = @ + 1]
  /\ \E k \in H!find_module_by_native_handle(Self) : H!erase(k)
  /\ UNCHANGED <<use, disk, fds, call, calls, given, history>>

-----------------------------------------------------------------------------
LoaderCall(t) ==
  \/ \E lib \in Lib : CallLoadLibraryA(t, lib) \/ CallLoadLibraryW(t, lib)
  \/ \E k \in given :
       \/ CallGetProcAddressA(t, k) \/ CallGetProcAddressW(t, k)
       \/ CallFreeLibrary(t, k) \/ CallCloseModule(t, k)
  \/ _wrapper_fini(t)

LoaderStep(t) ==
  \/ LoadLibraryA_fails(t) \/ LoadLibraryA_dlopen(t) \/ _wrapper_init_dlopen(t)
  \/ \E r \in Rand, k \in Key :
       _wrapper_init_register(t, r, k) \/ LoadLibraryA_register(t, r, k)
  \/ Module_lookup(t) \/ GetProcAddressA_dlsym(t)
  \/ FreeLibrary_dlclose(t) \/ FreeLibrary_erase(t)

=============================================================================
