------------------------------- MODULE MCLog -------------------------------
(* LogService on small instances: a1 and a2 are two envelopes of one receipt. *)
EXTENDS LogProps, TLC

CONSTANTS w1, w2, f1, f2, a, b, a1, a2, b1

ReceiptOfEnvelope == [e \in Envelopes |-> IF e = b1 THEN b ELSE a]

Symmetry == Permutations(Writers) \cup Permutations(Followers)
=============================================================================
