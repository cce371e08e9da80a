----------------------------- MODULE TextSplice -----------------------------
(***************************************************************************)
(* Findings in a text that somebody else edits.                            *)
(*                                                                         *)
(* A text is a sequence of UTF-16 units; High and Low are the two halves of *)
(* a character outside the basic plane.  A finding covers the units from    *)
(* `from' up to but not including `to', counted from 0, and says what it    *)
(* found there.  The server counts characters instead of units.            *)
(*                                                                         *)
(* frontend/src/embed/{hostDoc,offsets}.ts, frontend/src/findings/.        *)
(***************************************************************************)
EXTENDS Integers, Sequences, FiniteSets, FiniteSetsExt

High == "H"
Low == "L"

Slice(text, from, to) == SubSeq(text, from + 1, to)
Replaced(text, from, to, insert) == Slice(text, 0, from) \o insert \o Slice(text, to, Len(text))
Shorter(a, b) == IF Len(a) < Len(b) THEN Len(a) ELSE Len(b)

-----------------------------------------------------------------------------
(* The one splice between two texts. *)

CommonPrefix(a, b) == Max({n \in 0..Shorter(a, b) : \A i \in 1..n : a[i] = b[i]})
CommonSuffix(a, b, bound) ==
  Max({n \in 0..bound : \A i \in 1..n : a[Len(a) + 1 - i] = b[Len(b) + 1 - i]})

OverlappingSplice(a, b) ==
  LET p == CommonPrefix(a, b)
      s == CommonSuffix(a, b, Shorter(a, b))
  IN [from |-> p, to |-> Len(a) - s, insert |-> Slice(b, p, Len(b) - s)]
\* The suffix may not reach into the prefix.
DeriveSplice(a, b) ==
  LET p == CommonPrefix(a, b)
      s == CommonSuffix(a, b, Shorter(a, b) - p)
  IN [from |-> p, to |-> Len(a) - s, insert |-> Slice(b, p, Len(b) - s)]

IsChange(splice) == splice.from < splice.to \/ splice.insert # <<>>
Touches(item, splice) == item.from <= splice.to /\ splice.from <= item.to

Moved(item, splice) ==
  LET delta == Len(splice.insert) - (splice.to - splice.from)
  IN IF item.from > splice.to
       THEN [item EXCEPT !.from = @ + delta, !.to = @ + delta]
       ELSE item
MapThrough(items, splice) ==
  IF IsChange(splice)
    THEN {Moved(item, splice) : item \in {i \in items : ~Touches(i, splice)}}
    ELSE items

-----------------------------------------------------------------------------
(* Characters and units. *)

CodePoints(text) == Cardinality({i \in DOMAIN text : text[i] # Low})
Boundary(text, u) == u = Len(text) \/ text[u + 1] # Low
\* The unit at which the n-th character begins, if there is one.
UnitsAt(text, n) == {u \in 0..Len(text) : Boundary(text, u) /\ CodePoints(Slice(text, 0, u)) = n}

\* convertFindingOffsets and toTracked: what does not say what it found is dropped.
Converted(text, found) ==
  UNION {{i \in [from : UnitsAt(text, f.start), to : UnitsAt(text, f.end),
                 said : {f.said}, source : {f.source}] :
            i.from < i.to /\ Slice(text, i.from, i.to) = i.said} : f \in found}

-----------------------------------------------------------------------------
\* Findings that say the same of the same text at places that overlap; the
\* nearest of them stands for the old one.
Equivalents(items, old) ==
  {i \in items : i.source = old.source /\ i.said = old.said
                 /\ i.from < old.to /\ old.from < i.to}
Distance(item, old) == IF item.from > old.from THEN item.from - old.from ELSE old.from - item.from
Nearest(items, old) ==
  {i \in Equivalents(items, old) :
     \A j \in Equivalents(items, old) : Distance(i, old) <= Distance(j, old)}
=============================================================================
