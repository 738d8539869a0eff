----------------------------- MODULE MCKL02Link -----------------------------
(* KL02Link for TLC: the framework threads are interchangeable.            *)
EXTENDS KL02Link, TLC

Interchangeable == Permutations(Clients)

=============================================================================
