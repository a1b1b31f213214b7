------------------------------ MODULE MCSpool ------------------------------
(* Spool on small instances. *)
EXTENDS SpoolProps, TLC

CONSTANTS p1, p2, d1, d2, c1, c2, c3

Symmetry == Permutations(Calls) \cup Permutations(Proxies) \cup Permutations(Drainers)
=============================================================================
