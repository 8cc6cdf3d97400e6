---------------------------- MODULE FSPWritetime ----------------------------
(***************************************************************************)
(* The program FSPCheckerWritetime.  FileWrite_hundred prepares files;     *)
(* FileWrite_rand, which main calls, takes some of them at random, each    *)
(* once, and writes blocks at the offset where the prepared ones end.      *)
(* Windows' CreateFile and WriteFile may fail at any time.                 *)
(***************************************************************************)
EXTENDS Integers, Sequences

CONSTANTS
  Count,       \* files, 100 in the code
  Picks,       \* files that are written again, 20 in the code
  Prepared,    \* blocks of 1 KiB in a file, WRITE_SIZE, 10240 in the code
  Added        \* blocks that FileWrite_rand writes, 1024 in the code

ASSUME WritetimeAssumption ==
  /\ {Count, Picks, Prepared, Added} \subseteq Nat \ {0}
  /\ Picks <= Count

VARIABLES
  disk,     \* per file: the blocks in it, by index; Absent if it is not there
  step,     \* where the program is
  hfile,    \* the file that is open, or NoHandle
  i,        \* the loop's i
  a,        \* the files taken so far
  k         \* the block to be written

writetimeVars == <<disk, step, hfile, i, a, k>>

FileNo == 0..Count - 1
Block == 0..Prepared + Added - 1
NoHandle == -1
Absent == {-1}

WritetimeInit ==
  /\ disk = [f \in FileNo |-> Absent]
  /\ step = "prepare" /\ hfile = NoHandle
  /\ i = 0 /\ a = <<>> /\ k = 0

To(s) == step' = s
Close(s) == To(s) /\ hfile' = NoHandle

(* FileWrite_hundred: CREATE_NEW, the blocks in a row.                     *)
Prepare_create ==
  /\ step = "prepare" /\ i < Count
  /\ disk' = [disk EXCEPT ![i] = {}]
  /\ hfile' = i /\ k' = 0 /\ To("fill") /\ UNCHANGED <<i, a>>
(* FALSE; the next program may be started all the same.                    *)
Prepare_fails ==
  /\ step \in {"prepare", "fill"}
  /\ i' = 0 /\ Close("pick") /\ UNCHANGED <<disk, a, k>>
Prepare_write ==
  /\ step = "fill" /\ k < Prepared
  /\ disk' = [disk EXCEPT ![hfile] = @ \cup {k}]
  /\ k' = k + 1 /\ UNCHANGED <<step, hfile, i, a>>
Prepare_close ==
  /\ step = "fill" /\ k = Prepared
  /\ i' = i + 1 /\ Close("prepare") /\ UNCHANGED <<disk, a, k>>
Prepare_done ==
  /\ step = "prepare" /\ i = Count
  /\ i' = 0 /\ To("pick") /\ UNCHANGED <<disk, hfile, a, k>>

(* a[n] == j for an n < i: i is decremented, and incremented by the loop.  *)
Taken(j) == \E n \in 1..Len(a) : a[n] = j

(* FileWrite_rand: a file that was taken already is drawn again.           *)
Rand_open(j) ==
  /\ step = "pick" /\ i < Picks /\ ~Taken(j) /\ disk[j] # Absent
  /\ a' = Append(a, j) /\ hfile' = j /\ k' = 0
  /\ To("add") /\ UNCHANGED <<disk, i>>
Rand_fails ==
  /\ step \in {"pick", "add"} /\ i < Picks
  /\ Close("failed") /\ UNCHANGED <<disk, i, a, k>>

Offset == Prepared + k
Rand_write ==
  /\ step = "add" /\ k < Added
  /\ disk' = [disk EXCEPT ![hfile] = @ \cup {Offset}]
  /\ k' = k + 1 /\ UNCHANGED <<step, hfile, i, a>>
Rand_close ==
  /\ step = "add" /\ k = Added
  /\ i' = i + 1 /\ Close("pick") /\ UNCHANGED <<disk, a, k>>
Rand_done ==
  /\ step = "pick" /\ i = Picks
  /\ To("succeeded") /\ UNCHANGED <<disk, hfile, i, a, k>>

WritetimeNext ==
  \/ Prepare_create \/ Prepare_fails \/ Prepare_write \/ Prepare_close \/ Prepare_done
  \/ \E j \in FileNo : Rand_open(j)
  \/ Rand_fails \/ Rand_write \/ Rand_close \/ Rand_done

-----------------------------------------------------------------------------
(* FileWriteTime.cpp:57: the files taken are different ones; success means *)
(* that Picks files have all the added blocks, right behind the prepared   *)
(* ones, and the others none; no handle is left open, on failure either.   *)
PickedFilesAreExtended ==
  /\ step \in {"succeeded", "failed"} => hfile = NoHandle
  /\ \A m, n \in 1..Len(a) : a[m] = a[n] => m = n
  /\ step = "succeeded" =>
       /\ Len(a) = Picks
       /\ \A f \in FileNo :
            disk[f] \ 0..Prepared - 1 =
              IF \E n \in 1..Picks : a[n] = f THEN Prepared..Prepared + Added - 1
              ELSE disk[f] \cap Absent

=============================================================================
