-------------------------- MODULE MCHandleRegistry --------------------------
(* HandleRegistry with an int of two bits: -2..1.                          *)
EXTENDS HandleRegistry, TLC

MCMinInt == -2   \* a cfg has no negative numbers
Values == Permutations(Word \ {NullWord}) \cup Permutations(Text \ {NoText})

=============================================================================
