----------------------------- MODULE MCRelayer -----------------------------
(* Instances of Relayer: orders and starts are interchangeable.               *)
EXTENDS Relayer, TLC

Interchangeable == Permutations(Orders) \cup Permutations(Starts)
=============================================================================
