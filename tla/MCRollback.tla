------------------------------ MODULE MCRollback ------------------------------
(* Rollback for TLC: threads and files are interchangeable.                *)
EXTENDS Rollback, TLC

Symmetry == Permutations(Threads) \cup Permutations(Files)

=============================================================================
