------------------------------ MODULE MCFiles ------------------------------
(* Files with two threads, three names and a few calls.                    *)
EXTENDS Files, TLC

MCMinInt == -1   \* a cfg has no negative numbers

Opening   == [ops    |-> {"CreateFile", "WriteFile", "CloseHandle", "DeleteFile",
                          "CreateDirectory", "RemoveDirectory"},
              hows   |-> Dispositions \ {"none"},
              names  |-> {1}, starts |-> {{}, {1}}, calls |-> 5]
Searching(names, bound) ==
             [ops    |-> {"FindFirstFile", "FindNextFile", "FindClose", "DeleteFile",
                          "CreateFile", "CloseHandle"},
              hows   |-> {"OPEN_ALWAYS"},
              names  |-> names, starts |-> {{1, 2, 3}, {2}}, calls |-> bound]
Moving    == [ops    |-> {"CopyFile", "MoveFile", "DeleteFile", "CreateFile"},
              hows   |-> {"CREATE_ALWAYS", "TRUNCATE_EXISTING"},
              names  |-> {1, 2}, starts |-> {{1}, {1, 2}}, calls |-> 4]
Loading   == [ops    |-> {"LoadLibrary", "FreeLibrary", "GetProcAddress", "CloseHandle",
                          "exit"},
              hows   |-> {}, names  |-> {}, starts |-> {{}}, calls |-> 4]

Asking    == [ops    |-> {"CreateFile", "ReadFile", "FlushFileBuffers", "SetFilePointer",
                          "GetFileAttributes", "DeleteFile", "CloseHandle"},
              hows   |-> {"OPEN_ALWAYS"},
              names  |-> {1}, starts |-> {{}, {1}}, calls |-> 4]

MCUses == {Asking, Opening, Searching({1, 2}, 4), Searching({2}, 5), Moving, Loading}

Threads == Permutations(Thread)

=============================================================================
