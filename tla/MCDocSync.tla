----------------------------- MODULE MCDocSync -----------------------------
(* Instances of DocSync for TLC: the scenes TLC tries one after another. *)
EXTENDS DocSync, TLC

CONSTANTS u1, u2, e1, e2

ThreeDocs == 1..3
MCSymmetry == Permutations({u1, u2})

Tried(acts, n, faulty, docs, edits, tooLarge) ==
  [acts |-> acts, moves |-> n, faults |-> faulty, docs |-> docs, edits |-> edits,
   tooLarge |-> tooLarge]

\* Two edits of one user, of which the server refuses the first alone.
Writing == Tried({"open", "create", "check", "device"}, 2, 2, 2, {e1, e2}, {{e1}})
\* One edit and everything that can happen around it, ends of sessions included.
Leaving == Tried(Acts \ {"rename", "overlap"}, 1, 2, 1, {e1}, {})
\* Names change while saves and navigations are under way.
Renaming == Tried({"rename", "open", "check"}, 2, 1, 2, {e1, e2}, {})
\* A user who types on while a document is being opened.
SwitchingAhead == Tried({"open", "typeAhead"}, 2, 0, 2, {e1, e2}, {})
\* Two openings at once, one request of which may be lost.
Overtaking == Tried({"open", "overlap", "check"}, 3, 1, 2, {e1, e2}, {})

\* A renaming of a document that is being opened, while another device writes it.
RenamingAbroad == {Tried({"rename", "open", "device"}, 2, 1, 2, {e1, e2}, {})}

\* Nothing but typing, and a tab that closes.
Closing == {Tried({}, 0, 1, 1, {e1, e2}, {})}

MCScenes == {Writing, Leaving, Renaming, SwitchingAhead, Overtaking}
=============================================================================
