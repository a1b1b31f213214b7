---------------------------- MODULE MCWitnessing ----------------------------
(* Witnessing on small instances: one origin, two histories.               *)
EXTENDS WitnessingProps, TLC

CONSTANTS p1, p2, o1, r1, r2, svc, cli

\* A history of two leaves from the empty tree, and a fork of both its heads.
Forks == {<<>>, <<1>>, <<2>>, <<1, 1>>}

\* One append-only history.
Line == {<<>>, <<1>>, <<1, 1>>, <<1, 1, 1>>}
=============================================================================
