------------------------------ MODULE MCHooks ------------------------------
EXTENDS HooksProps, TLC

CONSTANTS a, b, c, d, s1, s2

(* a, b and d: one tool and one input in one session, as parallel calls or a
   retry; only a carries an id.  c: the same tool and input elsewhere. *)
MCSessionOf == (a :> s1) @@ (b :> s1) @@ (c :> s2) @@ (d :> s1)
MCInput == [x \in {a, b, c, d} |-> "input"]

Casting(o, cs, ask, refuse, f, r, k) ==
    [overlap |-> o, calls |-> cs, asks |-> ask, refused |-> refuse,
     faults |-> f, recovers |-> r, marks |-> k]

(* Hooks one at a time: parallel calls with a prompt, a refusal and a
   failure; two sessions with prompts; three calls.  Overlapping hooks: two
   parallel calls, one perhaps refused; two that nothing tells apart; one
   call beside a recover and a failure. *)
MCCasts == {
    Casting(FALSE, {a, b}, {a}, {b}, 1, 0, 0),
    Casting(FALSE, {a, c}, {a}, {}, 0, 1, 0),
    Casting(FALSE, {a, b, c}, {}, {}, 0, 0, 0),
    Casting(FALSE, {a}, {}, {a}, 1, 1, 1),
    Casting(TRUE, {a, b}, {}, {}, 0, 0, 0),
    Casting(TRUE, {a, b}, {}, {b}, 0, 0, 0),
    Casting(TRUE, {b, d}, {}, {}, 0, 0, 0),
    Casting(TRUE, {b}, {b}, {}, 1, 1, 0)}

(* Two sessions on one state directory, one hook at a time, no failure. *)
MCTwoSessions == {Casting(FALSE, {a, c}, {a, c}, {}, 0, 0, 0)}
=============================================================================
