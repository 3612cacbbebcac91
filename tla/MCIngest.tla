------------------------------- MODULE MCIngest -------------------------------
(* The ingest service on a small instance.                                 *)
EXTENDS Ingest, TLC

Symmetry == Permutations(Workers) \cup Permutations(Clients)
=============================================================================
