----------------------------- MODULE Sequential -----------------------------
(***************************************************************************)
(* What one thread does alone: a timed wait, the time functions, the test  *)
(* programs.  They share no state; a behaviour is about one of them, and   *)
(* the others are at rest.                                                 *)
(***************************************************************************)
EXTENDS WaitDeadline, TimeApi, FSPChecker, FSPWritetime, FSPCSharp

VARIABLE about    \* "wait", "time", "checker", "writetime" or "csharp"

sequentialVars == <<vars, timeVars, checkerVars, writetimeVars, csharpVars, about>>

NoWait ==
  /\ now = CHOOSE instant \in Instants : TRUE
  /\ ms = CHOOSE d \in Milliseconds : TRUE
NoTime ==
  /\ dword = CHOOSE b \in Builds : TRUE
  /\ zone = CHOOSE z \in Zones : TRUE
  /\ clock = CHOOSE c \in Readings : TRUE
NoChecker ==
  /\ asserts = FALSE /\ missing = {}
  /\ stage = Exited /\ place = "start"
  /\ file = NoFile /\ db = NoDb
  /\ crashed = FALSE

SequentialInit ==
  /\ about \in {"wait", "time", "checker", "writetime", "csharp"}
  /\ Init /\ TimeInit /\ WritetimeInit /\ CSharpInit
  /\ about = "wait" \/ NoWait
  /\ about = "time" \/ NoTime
  /\ IF about = "checker" THEN CheckerInit ELSE NoChecker

SequentialNext ==
  /\ UNCHANGED about
  /\ \/ /\ about = "wait" /\ Next
        /\ UNCHANGED <<timeVars, checkerVars, writetimeVars, csharpVars>>
     \/ /\ about = "time" /\ TimeNext
        /\ UNCHANGED <<vars, checkerVars, writetimeVars, csharpVars>>
     \/ /\ about = "checker" /\ CheckerNext
        /\ UNCHANGED <<vars, timeVars, writetimeVars, csharpVars>>
     \/ /\ about = "writetime" /\ WritetimeNext
        /\ UNCHANGED <<vars, timeVars, checkerVars, csharpVars>>
     \/ /\ about = "csharp" /\ CSharpNext
        /\ UNCHANGED <<vars, timeVars, checkerVars, writetimeVars>>

SequentialSpec ==
  SequentialInit /\ [][SequentialNext]_sequentialVars /\ CheckerFairness

-----------------------------------------------------------------------------
(* The three programs, whatever calls the media refuse them and wherever   *)
(* they end: what they report as written or inserted is there, once, and   *)
(* nothing else is; their loops move on; only FSPCheckerCpp can crash, and *)
(* only on a library that has some of the symbols and not all.             *)
ProgramsKeepTheirWord ==
  /\ LoopsCanFinish /\ OnlyPartOfALibraryCrashes /\ InsertedRowsAreStored
  /\ PickedFilesAreExtended
  /\ BatchesAreWhole

=============================================================================
