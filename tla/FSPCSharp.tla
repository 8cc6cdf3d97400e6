------------------------------ MODULE FSPCSharp ------------------------------
(***************************************************************************)
(* The program FSPCheckerCSharp: a file and a database on each of two      *)
(* media.  What fails throws, and nothing catches it: the program ends,    *)
(* and the transaction at hand is rolled back.                             *)
(***************************************************************************)
EXTENDS Integers, FiniteSets

CONSTANTS
  CsBlocks,              \* blocks that are written and read, 2560 in the code
  CsBatches, CsRows      \* 1000 and 100 in the code

(* Prices are put together from a batch and two digits.                    *)
ASSUME CSharpAssumption ==
  /\ {CsBlocks, CsBatches, CsRows} \subseteq Nat \ {0}
  /\ CsRows <= 100

VARIABLES
  program,   \* of Main: 1 and 3 the file, 2 and 4 the database
  spot,      \* in Excute
  count,     \* of the loop
  stored,    \* the prices in the database
  batch,     \* those of the transaction at hand
  row        \* the loop's j

csharpVars == <<program, spot, count, stored, batch, row>>

CSharpInit ==
  /\ program = 1 /\ spot = "write" /\ count = 0 /\ stored = {} /\ batch = {} /\ row = 0

Ended == 5
Move(p, s, c) == program' = p /\ spot' = s /\ count' = c

(* FileStream's constructor, Seek, Write and Read, and what SQLite does.   *)
Exception ==
  /\ program < Ended /\ spot # "thrown"
  /\ Move(program, "thrown", 0)
  /\ batch' = {} /\ row' = 0 /\ UNCHANGED stored

(* The number of bytes that Read returns is not looked at.                 *)
Transfer ==
  /\ program \in {1, 3} /\ spot \in {"write", "read"} /\ count < CsBlocks
  /\ Move(program, spot, count + 1)
  /\ UNCHANGED <<stored, batch, row>>
Excuted ==
  /\ program \in {1, 3} /\ count = CsBlocks
  /\ IF spot = "write" THEN Move(program, "read", 0) ELSE Move(program + 1, "file", 0)
  /\ UNCHANGED <<stored, batch, row>>

(* The database is deleted and created anew, with an empty table.          *)
Recreate ==
  /\ program \in {2, 4} /\ spot = "file"
  /\ stored' = {} /\ Move(program, "insert", 0) /\ UNCHANGED <<batch, row>>

(* The string is i*100, followed by j: 1 and 5 make 1005.  j < 100.        *)
Price(n, j) == n * 100 * (IF j < 10 THEN 10 ELSE 100) + j

Insert_row ==
  /\ spot = "insert" /\ row < CsRows /\ count < CsBatches
  /\ batch' = batch \cup {Price(count, row)}
  /\ row' = row + 1
  /\ UNCHANGED <<program, spot, count, stored>>

Commit ==
  /\ spot = "insert" /\ row = CsRows
  /\ stored' = stored \cup batch /\ batch' = {} /\ row' = 0
  /\ Move(program, spot, count + 1)

CloseDatabase ==
  /\ spot = "insert" /\ count = CsBatches
  /\ Move(program + 1, "write", 0) /\ UNCHANGED <<stored, batch, row>>

CSharpNext ==
  Exception \/ Transfer \/ Excuted \/ Recreate \/ Insert_row \/ Commit \/ CloseDatabase

-----------------------------------------------------------------------------
(* Sqlite3Insert.cs:37: wherever an exception ends the program, the        *)
(* database holds whole transactions of CsRows different prices, all of    *)
(* them at the end, although a price is put together as text.              *)
BatchesAreWhole ==
  /\ Cardinality(stored) % CsRows = 0
  /\ spot = "insert" => Cardinality(stored) = count * CsRows
  /\ program = Ended => Cardinality(stored) = CsBatches * CsRows

=============================================================================
