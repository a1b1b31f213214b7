----------------------------- MODULE MCWitness -----------------------------
(* Witness on small instances: histories of up to two leaves.              *)
EXTENDS WitnessProps, TLC

CONSTANTS p1, p2, o1, o2, r1, r2

\* 1 and 2 are two leaves: <<1>> and <<1, 1>> are one history, <<2>> forks
\* from both.
Forks == {<<1>>, <<2>>, <<1, 1>>}

Symmetry == Permutations(Origin) \cup Permutations(Procs) \cup Permutations(Requests)
=============================================================================
