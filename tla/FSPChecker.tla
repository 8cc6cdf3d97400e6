----------------------------- MODULE FSPChecker -----------------------------
(***************************************************************************)
(* The test program FSPCheckerCpp: main writes and reads a file on each of *)
(* two media (FileWriteRead), then inserts rows into a database on each    *)
(* (Sqlite3Insert), whatever the results.  The media may refuse any call.  *)
(***************************************************************************)
EXTENDS Integers

CONSTANTS
  BLOCK,         \* 4096 in the code
  FILE_BLOCKS,   \* FILE_SIZE/4096, 25600 in the code
  WRITE_SIZE,
  Batches, Rows  \* transactions and the rows of each, 1000 and 100 in the code

ASSUME CheckerAssumption ==
  {BLOCK, FILE_BLOCKS, WRITE_SIZE, Batches, Rows} \subseteq Nat \ {0}

VARIABLES
  asserts,   \* built without NDEBUG
  missing,   \* what the SQLite library lacks
  stage,     \* of main: 1 and 2 FileWriteRead, 3 and 4 Sqlite3Insert
  place,     \* in Excute
  file,      \* the open file: its size and position, and the loop's i
  db,        \* the open database
  crashed    \* a null pointer was called

buildVars == <<asserts, missing>>
checkerVars == <<buildVars, stage, place, file, db, crashed>>

Exited == 5
Prices == 0..Batches * Rows - 1
Symbols == {"open", "exec", "error", "close"}

NoFile == [size |-> 0, pos |-> 0, i |-> 0]

(* rows, pending: how often each price is stored, and is to be stored by   *)
(* the open transaction; told: how often an insertion was reported;        *)
(* next: the price of the next insertion; clean: the table began empty;    *)
(* kept: no transaction has been rolled back; ended: the last END worked   *)
(* or had nothing to do.                                                   *)
NoRows == [p \in Prices |-> 0]
NoDb == [table |-> FALSE, rows |-> NoRows, pending |-> NoRows, told |-> NoRows, open |-> FALSE,
         next |-> 0, clean |-> TRUE, kept |-> TRUE, ended |-> TRUE]

CheckerInit ==
  /\ asserts \in BOOLEAN
  /\ missing \in SUBSET Symbols
  /\ stage = 1 /\ place = "start"
  /\ file = NoFile /\ db = NoDb
  /\ crashed = FALSE

(* main goes on, whatever Excute returned.                                 *)
Return ==
  /\ stage' = stage + 1 /\ place' = "start"
  /\ file' = NoFile /\ db' = NoDb
  /\ UNCHANGED crashed

Go(to) == place' = to /\ UNCHANGED <<stage, crashed>>

-----------------------------------------------------------------------------
(* FileWriteRead::Excute.                                                  *)
Opens == stage \in {1, 2} /\ place = "start"

(* The file must be there: O_CREAT is not given.                           *)
OpenToWrite ==
  /\ Opens
  /\ \E size \in 0..BLOCK * FILE_BLOCKS : file' = [NoFile EXCEPT !.size = size]
  /\ Go("write") /\ UNCHANGED <<buildVars, db>>

OpenFails == (Opens \/ place = "reopen") /\ Return /\ UNCHANGED buildVars

(* rand() masked by m: any number with no bit that m has not.  A power of  *)
(* two is what no odd number but 1 divides.                                *)
PowersOfTwo(m) == {p \in 1..m : \A d \in 2..p : p % d = 0 => d % 2 = 0}
Bit(n, p) == (n \div p) % 2
Masked(m) == {n \in 0..m : \A p \in PowersOfTwo(m) : Bit(n, p) <= Bit(m, p)}

(* The mask is one less than the number of blocks, which need not be a     *)
(* power of two.  Without assertions the lseek inside is not compiled.     *)
Offsets == IF asserts THEN {BLOCK * n : n \in Masked(FILE_BLOCKS - 1)} ELSE {file.pos}

Larger(a, b) == IF a > b THEN a ELSE b

LoopEnds(i) == i >= WRITE_SIZE

(* A write, perhaps of less than a block; a failed one is tried again.     *)
WriteBlock ==
  /\ place = "write" /\ ~LoopEnds(file.i)
  /\ \E ofs \in Offsets, n \in 1..BLOCK :
       file' = [size |-> Larger(file.size, ofs + n), pos |-> ofs + n, i |-> file.i + n]
  /\ Go("write") /\ UNCHANGED <<buildVars, db>>

(* Mutant: the file is closed and not opened again. *)
ReopenAtEnd ==
  /\ place = "reopen"
  /\ file' = [file EXCEPT !.i = 0]
  /\ Go("read") /\ UNCHANGED <<buildVars, db>>
Reopen ==
  /\ place = "reopen"
  /\ file' = [file EXCEPT !.pos = 0, !.i = 0]
  /\ Go("read") /\ UNCHANGED <<buildVars, db>>

CloseWritten ==
  /\ place = "write" /\ LoopEnds(file.i)
  /\ Go("reopen") /\ UNCHANGED <<buildVars, file, db>>

Readable == {ofs \in Offsets : ofs < file.size}

(* At the end of the file, and after an error, the loop goes round.        *)
ReadBlock ==
  /\ place = "read" /\ ~LoopEnds(file.i)
  /\ \E ofs \in Readable, n \in 1..BLOCK :
       /\ ofs + n <= file.size
       /\ file' = [file EXCEPT !.pos = ofs + n, !.i = @ + n]
  /\ Go("read") /\ UNCHANGED <<buildVars, db>>

CloseRead == place = "read" /\ LoopEnds(file.i) /\ Return /\ UNCHANGED buildVars

-----------------------------------------------------------------------------
(* Sqlite3Insert::Excute.  Nothing is closed or freed when it returns.     *)
Loads == stage \in {3, 4} /\ place = "start"

(* LoadLibrary gives -1 where the library is not found, and Excute looks   *)
(* for NULL: the symbols are then asked of a handle that nobody has.       *)
(* A handle of 0 is taken for none.                                        *)
GetProcAddressWrap(found, symbol) == found /\ symbol \notin missing
Load ==
  /\ Loads
  /\ \E found \in BOOLEAN :
       place' = IF GetProcAddressWrap(found, "open") THEN "opendb" ELSE "unloaded"
  /\ UNCHANGED <<buildVars, stage, file, db, crashed>>

Unloaded == place = "unloaded" /\ Return /\ UNCHANGED buildVars

(* A pointer that was not found is called all the same.                    *)
CallNull(symbols) ==
  /\ symbols \cap missing # {}
  /\ crashed' = TRUE
  /\ UNCHANGED <<buildVars, stage, place, file, db>>

(* sqlite3_open: the database of an earlier run may be there.              *)
OpenDb ==
  /\ place = "opendb"
  /\ \E before \in {[NoDb EXCEPT !.table = b, !.rows = [p \in Prices |-> IF b THEN 1 ELSE 0]]
                      : b \in BOOLEAN} :
       db' = before
  /\ Go("drop") /\ UNCHANGED <<buildVars, file>>

OpenDbFails ==
  /\ place = "opendb"
  /\ \/ CallNull({"error", "close"})
     \/ {"error", "close"} \cap missing = {} /\ Return /\ UNCHANGED buildVars

ExecNull == place = "drop" /\ CallNull({"exec"})

Exec(at, to) == place = at /\ "exec" \notin missing /\ Go(to) /\ UNCHANGED <<buildVars, file>>

(* Every result of Exec is printed at most.                                *)
Drop ==
  /\ Exec("drop", "create")
  /\ \/ db' = [db EXCEPT !.table = FALSE, !.rows = NoRows]
     \/ db' = [db EXCEPT !.clean = ~db.table]

Create ==
  /\ Exec("create", "begin")
  /\ \/ db' = [db EXCEPT !.table = TRUE]
     \/ UNCHANGED db

(* BEGIN fails in a transaction that is still open.                        *)
Begin ==
  /\ db.next < Batches * Rows
  /\ Exec("begin", "insert")
  /\ \/ ~db.open /\ db' = [db EXCEPT !.open = TRUE]
     \/ UNCHANGED db

RolledBack(d) == IF d.open THEN [d EXCEPT !.open = FALSE, !.pending = NoRows, !.kept = FALSE] ELSE d

(* An insertion outside a transaction is stored at once.  One that fails   *)
(* does nothing, or rolls back the transaction (a full disk, an I/O error) *)
(* and leaves the rest of the batch without one.                           *)
Insert ==
  /\ Exec("insert", IF (db.next + 1) % Rows = 0 THEN "end" ELSE "insert")
  /\ LET n == [db EXCEPT !.next = @ + 1]
         p == db.next
     IN  \/ /\ db.table
            /\ db' = IF db.open THEN [n EXCEPT !.pending[p] = @ + 1, !.told[p] = @ + 1]
                     ELSE [n EXCEPT !.rows[p] = @ + 1, !.told[p] = @ + 1]
         \/ db' = n
         \/ db' = RolledBack(n)

Committed(d) ==
  [d EXCEPT !.open = FALSE, !.pending = NoRows, !.rows = [p \in Prices |-> d.rows[p] + d.pending[p]]]

(* Mutant: END is left out after the last batch. *)
EndButLast ==
  /\ Exec("end", "begin")
  /\ \/ db' = IF db.next = Batches * Rows THEN db ELSE [Committed(db) EXCEPT !.ended = TRUE]
     \/ db' = [db EXCEPT !.ended = ~db.open]
     \/ db' = [RolledBack(db) EXCEPT !.ended = TRUE]
(* END commits, or fails and leaves the transaction open (the database is  *)
(* busy), or rolls it back.                                                *)
End ==
  /\ Exec("end", "begin")
  /\ \/ db' = [Committed(db) EXCEPT !.ended = TRUE]
     \/ db' = [db EXCEPT !.ended = ~db.open]
     \/ db' = [RolledBack(db) EXCEPT !.ended = TRUE]

Finished == place = "begin" /\ db.next = Batches * Rows /\ Return /\ UNCHANGED buildVars

-----------------------------------------------------------------------------
Step ==
  \/ OpenToWrite \/ OpenFails \/ CloseWritten \/ Reopen \/ CloseRead
  \/ Load \/ Unloaded \/ OpenDb \/ OpenDbFails \/ ExecNull \/ Drop \/ Create
  \/ Begin \/ Insert \/ End \/ Finished

CheckerNext == ~crashed /\ (Step \/ WriteBlock \/ ReadBlock)

(* The program runs; a medium does not refuse for ever, and rand() comes   *)
(* to a block that can be read.                                            *)
CheckerFairness ==
  /\ WF_checkerVars(~crashed /\ Step)
  /\ WF_checkerVars(~crashed /\ WriteBlock)
  /\ WF_checkerVars(~crashed /\ ReadBlock)

-----------------------------------------------------------------------------
(* FileWriteRead.cpp:94: whatever was written, and with or without         *)
(* assertions, the reading loop finds something to read until it has read  *)
(* WRITE_SIZE bytes; both loops move less than a block more than that, and *)
(* no write goes beyond FILE_SIZE unless it follows another without lseek. *)
LoopsCanFinish ==
  /\ place = "read" /\ ~LoopEnds(file.i) => Readable # {}
  /\ place = "reopen" => file.i \in WRITE_SIZE..WRITE_SIZE + BLOCK - 1
  /\ asserts => file.size <= BLOCK * FILE_BLOCKS

(* Sqlite3Insert.cpp:93: looking at Open alone is enough where the library *)
(* is not found or its handle is 0; a null pointer is called only where    *)
(* the library has sqlite3n_open and lacks another symbol.                 *)
OnlyPartOfALibraryCrashes ==
  crashed => "open" \notin missing /\ missing # {}

(* Sqlite3Insert.cpp:145: where the old table was dropped no row is stored *)
(* twice; without a rollback every row whose insertion was reported is     *)
(* stored, and only a failure of the last END leaves any to be lost: a     *)
(* failed END is made good by the next.                                    *)
InsertedRowsAreStored ==
  place = "begin" /\ db.next = Batches * Rows /\ db.clean =>
    /\ \A p \in Prices : db.rows[p] <= db.told[p] /\ db.told[p] <= 1
    /\ db.kept /\ db.ended => db.rows = db.told

(* The program comes to its end unless it crashes.                         *)
CheckerEnds == <>(stage = Exited \/ crashed)

=============================================================================
