----------------------------- MODULE DocHistory -----------------------------
(***************************************************************************)
(* What the document store promises the writers of a document.            *)
(*                                                                         *)
(* A document is the set of edits its content descends from.  Whoever      *)
(* writes, whatever is lost, repeated or late on the way: an accepted      *)
(* write builds on everything accepted before it.  Only deleting the       *)
(* document takes edits away, and a document is never given back once it   *)
(* was deleted.                                                            *)
(***************************************************************************)
CONSTANTS Docs, Users, Edits, Nobody

VARIABLE docs   \* [Docs -> [status, owner, content]]

Absent(status) == [status |-> status, owner |-> Nobody, content |-> {}]

Init ==
  docs \in [Docs -> {Absent("unborn")} \cup
                    [status : {"live"}, owner : Users, content : {{}}]]

Create(d, u, content) ==
  /\ docs[d].status = "unborn"
  /\ docs' = [docs EXCEPT ![d] = [status |-> "live", owner |-> u, content |-> content]]

Extend(d, content) ==
  /\ docs[d].status = "live"
  /\ docs[d].content \subseteq content
  /\ docs' = [docs EXCEPT ![d].content = content]

Delete(d) ==
  /\ docs[d].status = "live"
  /\ docs' = [docs EXCEPT ![d] = Absent("gone")]

Next ==
  \E d \in Docs :
    \/ Delete(d)
    \/ \E content \in SUBSET Edits : \/ Extend(d, content)
                                     \/ \E u \in Users : Create(d, u, content)

Spec == Init /\ [][Next]_docs
=============================================================================
