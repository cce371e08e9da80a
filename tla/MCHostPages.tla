---------------------------- MODULE MCHostPages ----------------------------
(***************************************************************************)
(* A page of someone else's with fields that are corrected: the embedded     *)
(* panel that corrects one (HostDoc), or a page that renders its fields again *)
(* under the extension (Reacquire).  The two share no state; each is explored *)
(* whole while the other stands still.                                     *)
(***************************************************************************)
EXTENDS MCHostDoc, MCReacquire

VARIABLE part  \* which of the two is explored

MCInit ==
  /\ part \in {"panel", "render"}
  /\ Init /\ ReacquireInit
  /\ part # "panel" => load = Typing
  /\ part # "render" => hostPage = NoFieldYet.blocks /\ stock = NoFieldYet.stock
MCNext ==
  \/ part = "panel" /\ Next /\ UNCHANGED <<part, reacquireVars>>
  \/ part = "render" /\ ReacquireNext /\ UNCHANGED <<part, vars>>
MCSpec == MCInit /\ [][MCNext]_<<part, vars, reacquireVars>>
=============================================================================
