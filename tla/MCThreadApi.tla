---------------------------- MODULE MCThreadApi ----------------------------
(* ThreadApi with the first thread and one more pthread_t.                 *)
EXTENDS ThreadApi

MCMinInt == -1   \* a cfg has no negative numbers

Handles  == (OnHandle \cup OnSelf) \ {"EnterCriticalSection"}
Sections == {"CreateThread", "ExitThread", "TerminateThread", "EnterCriticalSection"}

Racing   == {"CreateThread", "ExitThread", "GetCurrentThreadId", "TerminateThread",
             "GetExitCodeThread", "CloseHandle"}

Cutting  == {"CreateThread", "ExitThread", "SetThreadPriority", "TerminateThread",
             "GetExitCodeThread"}

Good(ops) == [ops |-> ops, wide |-> FALSE, recycles |-> FALSE, orderly |-> TRUE,
              zero |-> FALSE]
Bad(ops)  == [ops |-> ops, wide |-> FALSE, recycles |-> TRUE, orderly |-> FALSE,
              zero |-> TRUE]
MCSettings == {Good(Handles), [Good(Cutting) EXCEPT !.wide = TRUE], Bad(Racing),
               Good(Sections), Bad(Sections)}

=============================================================================
