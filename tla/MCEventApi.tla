----------------------------- MODULE MCEventApi -----------------------------
(* EventApi on three threads.                                              *)
EXTENDS EventApi, TLC

Threads == Permutations(Thread)

=============================================================================
