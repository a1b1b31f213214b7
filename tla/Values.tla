------------------------------- MODULE Values -------------------------------
(***************************************************************************)
(* What a receipt holds, as its readers and the diff see it.  A JSON value *)
(* is a record: an atom, or an array or object with its parts by name (an  *)
(* array's names are its positions).  A member that is left out is empty.  *)
(***************************************************************************)

NoText == ""
NoParts == [n \in {} |-> {}]
Atom(x) == [tag |-> "atom", is |-> x, parts |-> NoParts]
Object(parts) == [tag |-> "object", is |-> NoText, parts |-> parts]
Absent == [tag |-> "none", is |-> NoText, parts |-> NoParts]
Part(v, n) == IF n \in DOMAIN v.parts THEN v.parts[n] ELSE Absent
=============================================================================
