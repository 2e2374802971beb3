--------------------------- MODULE MCMessageQueue ---------------------------
(* MessageQueue for TLC: producers are interchangeable.  Messages are not: *)
(* the allocation takes the first free one.                                *)
EXTENDS MessageQueue, TLC

Symmetry == Permutations(Producers)

=============================================================================
