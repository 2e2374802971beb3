----------------------------- MODULE MCCommPort -----------------------------
(***************************************************************************)
(* CommPort for TLC.  The threads and the connections are interchangeable. *)
(***************************************************************************)
EXTENDS CommPort, TLC

Symmetry == Permutations(Threads) \cup Permutations(Clients)

=============================================================================
