----------------------------- MODULE MCEvidence -----------------------------
(* Evidence on a handful of settings, each with the variation it is about. *)
EXTENDS EvidenceProps

CONSTANTS a, b, c, d, a1, a2, b1, c1, d1, r1, r2, k1, k2, t1, t2

ReceiptOfEnvelope ==
    [e \in Envelopes |-> CASE e \in {a1, a2} -> a [] e = b1 -> b [] e = c1 -> c [] OTHER -> d]
ReceiptIn(payload) == IF payload \in Envelopes THEN ReceiptOf[payload] ELSE NoId
RunIn(e) == IF e = d1 THEN r2 ELSE r1
SignerIn(e) == IF e = b1 THEN k2 ELSE k1
TokensIn(e) == CASE e \in {a1, a2} -> {t1} [] e = b1 -> {t1, t2} [] OTHER -> {}

Plain ==
    [tables |-> FALSE, logs |-> {}, published |-> 0..MaxLeaves, keyed |-> FALSE, tears |-> 0,
     prunes |-> FALSE, hits |-> 0, strikes |-> 0, imports |-> FALSE, kills |-> 0]

\* Every log and table of a few leaves of two receipts.
IndexCast == [Plain EXCEPT !.tables = TRUE,
                           !.logs = UNION {[1..n -> {a1, b1}] : n \in 0..MaxLeaves}]

\* A run of three receipts with a duplicate and a neighbour, and its file.
FileCast == [Plain EXCEPT !.logs = {<<a1, d1, b1, a2, c1>>}, !.published = {5}, !.strikes = 2]

\* A directory of one and a half tiles.
DirCast == [Plain EXCEPT !.logs = {<<a1, b1, c1>>}, !.published = {3}, !.hits = 2]

\* The keys table lost and restored.
KeysCast == [Plain EXCEPT !.logs = {<<a1, b1>>}, !.published = {2},
                          !.keyed = TRUE, !.tears = 3, !.prunes = TRUE]

\* The file carried to another machine.
ImportCast == [Plain EXCEPT !.logs = {<<a1, b1, a2, c1>>}, !.published = {4},
                            !.prunes = TRUE, !.strikes = 1, !.imports = TRUE, !.kills = 2]

Settings ==
    [index |-> IndexCast, export |-> FileCast, directory |-> DirCast,
     keys |-> KeysCast, import |-> ImportCast]
=============================================================================
