----------------------------- MODULE MCSynchApi -----------------------------
(* SynchApi on two threads.                                                *)
EXTENDS SynchApi, TLC

MCMinInt == -1   \* a cfg has no negative numbers

Threads == Permutations(Thread)
Objects == Permutations(Obj)
Symmetric == Threads \cup Objects

=============================================================================
