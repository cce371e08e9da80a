---------------------------- MODULE MCExtension ----------------------------
(* Small instances of the browser extension.                                *)
EXTENDS Extension, TLC

Symmetry == Permutations(Tabs) \cup Permutations(Windows)
=============================================================================
