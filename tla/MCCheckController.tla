-------------------------- MODULE MCCheckController --------------------------
(* Two documents of one user and one of another, a blank and a written text. *)
EXTENDS CheckController, TLC

CONSTANTS ann, bob, a1, a2, b1, t1

Owners == (a1 :> ann) @@ (a2 :> ann) @@ (b1 :> bob)
AtFirst == (a1 :> t1) @@ (a2 :> t1) @@ (b1 :> Blank)
=============================================================================
