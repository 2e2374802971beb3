------------------------------ MODULE MCFileScan ------------------------------
(* FileScan for TLC: the keys of one file, threads interchangeable.        *)
EXTENDS FileScan, TLC

CONSTANT f1

MCFiles == {f1}
MCMaxStamp == 2
MCMaxBack == 1
MCKeys == MCFiles \X (1 .. MCMaxStamp)

(* Bound: of a file whose write time came back VerdictCurrent says nothing *)
(* once the cache stops; the two together are not explored.                *)
Explored == stopping => \A f \in Files : back[f] = 0

Symmetry == Permutations(Threads)

=============================================================================
