------------------------------ MODULE MCScans ------------------------------
(* Small instances of Scans for TLC. *)
EXTENDS Scans, TLC

Sym == Permutations(Worker)
=============================================================================
