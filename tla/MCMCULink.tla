----------------------------- MODULE MCMCULink -----------------------------
(* MCULink for TLC: clients that do the same may be exchanged.             *)
EXTENDS MCULink, TLC

Interchangeable == Permutations(Clients)

=============================================================================
