--------------------------- MODULE HostDoc_proofs ---------------------------
(***************************************************************************)
(* The panel and the page that holds it, for any fields, users, texts and    *)
(* numbers of requests, and every mix of what users, frameworks, timers and  *)
(* reloads do.                                                             *)
(*                                                                         *)
(* First the texts: what the one splice between two texts leaves of a finding *)
(* (SpliceIs, StandsMoved).  Then five invariants, each from those before it: *)
(* Kept, the kinds of everything and every finding where it was found; Owned,  *)
(* whose the panel is; Asking, what becomes of a request; Introduced and       *)
(* InLine, where the messages under way lead the embed; Worded, what those to  *)
(* the host leave marked.                                                  *)
(***************************************************************************)
EXTENDS HostDoc, SequenceTheorems, FiniteSetTheorems, WellFoundedInduction, TLAPS

\* Texts of any length, and parts of them.
Pieces == Seq(STRING)

-----------------------------------------------------------------------------
(* Numbers. *)

(* Every set of numbers that is not empty has a smallest element.           *)
LEMMA Smallest ==
  ASSUME NEW ns \in SUBSET Nat, ns # {}
  PROVE  \E m \in ns : \A n \in ns : m <= n
<1>1. \E m \in ns : \A n \in ns : ~(<<n, m>> \in OpToRel(<, Nat))
  BY NatLessThanWellFounded, WFMin
<1>2. PICK m \in ns : \A n \in ns : ~(<<n, m>> \in OpToRel(<, Nat))
  BY <1>1
<1>3. \A n \in ns : ~(n < m)
  BY <1>2 DEF OpToRel
<1> QED
  BY <1>3

LEMMA MinIsIn ==
  ASSUME NEW ns \in SUBSET Nat, ns # {}
  PROVE  Min(ns) \in ns /\ \A n \in ns : Min(ns) <= n
BY Smallest DEF Min

LEMMA MaxIsIn ==
  ASSUME NEW k \in Nat, NEW ns \in SUBSET (0..k), ns # {}
  PROVE  Max(ns) \in ns /\ \A n \in ns : n <= Max(ns)
<1> DEFINE below == {k - n : n \in ns}
<1>1. below \in SUBSET Nat /\ below # {}
  <2>1. \A n \in ns : k - n \in Nat
    OBVIOUS
  <2> QED
    BY <2>1
<1>2. PICK m \in below : \A n \in below : m <= n
  BY <1>1, Smallest
<1>3. PICK top \in ns : m = k - top
  BY <1>2
<1>4. \A n \in ns : n <= top
  BY <1>2, <1>3
<1> QED
  BY <1>4 DEF Max

-----------------------------------------------------------------------------
(* Texts. *)

LEMMA SliceIs ==
  ASSUME NEW t \in Pieces, NEW from \in Nat, NEW to \in Nat, to <= Len(t)
  PROVE  /\ Slice(t, from, to) \in Pieces
         /\ Len(Slice(t, from, to)) = IF from < to THEN to - from ELSE 0
         /\ \A i \in 1..(to - from) : Slice(t, from, to)[i] = t[from + i]
<1>1. \A i \in (from + 1)..to : t[i] \in STRING
  BY ElementOfSeq DEF Pieces
<1>2. /\ SubSeq(t, from + 1, to) \in Seq(STRING)
      /\ Len(SubSeq(t, from + 1, to)) = IF from + 1 <= to THEN to - (from + 1) + 1 ELSE 0
      /\ \A i \in 1..(to - (from + 1) + 1) : SubSeq(t, from + 1, to)[i] = t[(from + 1) + i - 1]
  BY <1>1, SubSeqProperties
<1> QED
  BY <1>2 DEF Slice, Pieces

LEMMA ReplacedIs ==
  ASSUME NEW t \in Pieces, NEW x \in Pieces, NEW from \in Nat, NEW to \in Nat,
         from <= to, to <= Len(t)
  PROVE  /\ Replaced(t, from, to, x) \in Pieces
         /\ Len(Replaced(t, from, to, x)) = Len(t) - (to - from) + Len(x)
         /\ \A i \in 1..Len(x) : Replaced(t, from, to, x)[from + i] = x[i]
<1> DEFINE a == Slice(t, 0, from)
           c == Slice(t, to, Len(t))
<1>1. Len(t) \in Nat /\ Len(x) \in Nat
  BY LenProperties DEF Pieces
<1>2. a \in Pieces /\ Len(a) = from
  BY <1>1, SliceIs
<1>3. c \in Pieces /\ Len(c) = Len(t) - to
  <2>1. Len(c) = IF to < Len(t) THEN Len(t) - to ELSE 0
    BY <1>1, SliceIs
  <2>2. c \in Pieces
    BY <1>1, SliceIs
  <2> QED
    BY <1>1, <2>1, <2>2
<1> HIDE DEF a, c
<1>4. /\ a \o x \in Pieces /\ Len(a \o x) = from + Len(x)
      /\ \A i \in 1..Len(x) : (a \o x)[from + i] = x[i]
  <2>1. /\ a \o x \in Pieces /\ Len(a \o x) = from + Len(x)
        /\ \A i \in 1..(from + Len(x)) :
             (a \o x)[i] = IF i <= from THEN a[i] ELSE x[i - from]
    BY <1>2, ConcatProperties DEF Pieces
  <2>2. ASSUME NEW i \in 1..Len(x) PROVE (a \o x)[from + i] = x[i]
    <3>1. from + i \in 1..(from + Len(x)) /\ ~(from + i <= from) /\ from + i - from = i
      BY <1>1
    <3> QED
      BY <2>1, <3>1
  <2> QED
    BY <2>1, <2>2
<1>5. /\ (a \o x) \o c \in Pieces
      /\ Len((a \o x) \o c) = from + Len(x) + (Len(t) - to)
      /\ \A i \in 1..(from + Len(x)) : ((a \o x) \o c)[i] = (a \o x)[i]
  BY <1>1, <1>3, <1>4, ConcatProperties DEF Pieces
<1>6. Replaced(t, from, to, x) = (a \o x) \o c
  BY DEF Replaced, a, c
<1> QED
  BY <1>1, <1>4, <1>5, <1>6, SMTT(30)

(* What DeriveSplice leaves out is the same in both texts.                  *)
LEMMA SpliceIs ==
  ASSUME NEW a \in Pieces, NEW b \in Pieces
  PROVE  LET s == DeriveSplice(a, b) IN
         /\ s.from \in Nat /\ s.to \in Nat /\ s.from <= s.to /\ s.to <= Len(a)
         /\ Len(s.insert) = Len(b) - Len(a) + s.to - s.from
         /\ Len(b) - Len(a) + s.to - s.from \in Nat
         /\ \A i \in 1..s.from : a[i] = b[i]
         /\ \A i \in (s.to + 1)..Len(a) : b[i + Len(b) - Len(a)] = a[i]
<1> DEFINE k == Shorter(a, b)
           p == CommonPrefix(a, b)
           s == CommonSuffix(a, b, k - p)
<1>1. Len(a) \in Nat /\ Len(b) \in Nat
  BY LenProperties DEF Pieces
<1>2. k \in Nat /\ k <= Len(a) /\ k <= Len(b)
  BY <1>1 DEF Shorter
<1>3. p \in 0..k /\ \A i \in 1..p : a[i] = b[i]
  <2> DEFINE ns == {n \in 0..k : \A i \in 1..n : a[i] = b[i]}
  <2>1. ns \in SUBSET (0..k) /\ 0 \in ns
    BY <1>2
  <2>2. Max(ns) \in ns
    BY <1>2, <2>1, MaxIsIn
  <2> QED
    BY <2>2 DEF CommonPrefix
<1> HIDE DEF p, k
<1>4. k - p \in Nat
  BY <1>2, <1>3
<1>5. s \in 0..(k - p) /\ \A i \in 1..s : a[Len(a) + 1 - i] = b[Len(b) + 1 - i]
  <2> DEFINE bound == k - p
             ns == {n \in 0..bound : \A i \in 1..n : a[Len(a) + 1 - i] = b[Len(b) + 1 - i]}
  <2>1. ns \in SUBSET (0..bound) /\ 0 \in ns
    BY <1>4
  <2>2. Max(ns) \in ns
    BY <1>4, <2>1, MaxIsIn
  <2> QED
    BY <2>2 DEF CommonSuffix
<1>6. DeriveSplice(a, b) = [from |-> p, to |-> Len(a) - s, insert |-> Slice(b, p, Len(b) - s)]
  BY DEF DeriveSplice, p, k, s
<1> HIDE DEF s
<1>7. Len(Slice(b, p, Len(b) - s)) = Len(b) - s - p
  <2>1. Len(b) - s \in Nat /\ Len(b) - s <= Len(b) /\ p <= Len(b) - s /\ p \in Nat
    BY <1>1, <1>2, <1>3, <1>5
  <2>2. Len(Slice(b, p, Len(b) - s)) = IF p < Len(b) - s THEN Len(b) - s - p ELSE 0
    BY <2>1, SliceIs
  <2> QED
    BY <2>1, <2>2
<1>8. \A i \in (Len(a) - s + 1)..Len(a) : b[i + Len(b) - Len(a)] = a[i]
  <2> SUFFICES ASSUME NEW i \in (Len(a) - s + 1)..Len(a)
               PROVE  b[i + Len(b) - Len(a)] = a[i]
    OBVIOUS
  <2> DEFINE j == Len(a) + 1 - i
  <2>1. j \in 1..s /\ Len(a) + 1 - j = i /\ Len(b) + 1 - j = i + Len(b) - Len(a)
    BY <1>1, <1>5
  <2> QED
    BY <1>5, <2>1
<1> QED
  BY <1>1, <1>2, <1>3, <1>5, <1>6, <1>7, <1>8

-----------------------------------------------------------------------------
(* Findings in a text that changes. *)

Finding == [id : Id, from : Nat, to : Nat, said : Pieces, source : Sources, user : Users \cup {None}]
Stands(item, t) ==
  item.from < item.to /\ item.to <= Len(t) /\ Slice(t, item.from, item.to) = item.said

LEMMA StandsMoved ==
  ASSUME NEW a \in Pieces, NEW b \in Pieces, NEW item \in Finding, Stands(item, a),
         ~Touches(item, DeriveSplice(a, b))
  PROVE  LET new == Moved(item, DeriveSplice(a, b)) IN
         new \in Finding /\ Stands(new, b) /\ new.user = item.user
<1> DEFINE s == DeriveSplice(a, b)
           delta == Len(s.insert) - (s.to - s.from)
           new == Moved(item, s)
<1>0. Len(a) \in Nat /\ Len(b) \in Nat
  BY LenProperties DEF Pieces
<1>1. /\ s.from \in Nat /\ s.to \in Nat /\ s.from <= s.to /\ s.to <= Len(a)
      /\ Len(s.insert) = Len(b) - Len(a) + s.to - s.from
      /\ Len(b) - Len(a) + s.to - s.from \in Nat
      /\ \A i \in 1..s.from : a[i] = b[i]
      /\ \A i \in (s.to + 1)..Len(a) : b[i + Len(b) - Len(a)] = a[i]
  BY SpliceIs
<1>2. item.from > s.to \/ item.to < s.from
  BY <1>1 DEF Touches, Finding
<1> DEFINE new2 == [item EXCEPT !.from = @ + delta, !.to = @ + delta]
<1>3. new = IF item.from > s.to THEN new2 ELSE item
  BY DEF Moved
<1> HIDE DEF s, new
<1>4. delta = Len(b) - Len(a)
  BY <1>0, <1>1
<1>9. /\ delta \in Int /\ s.from \in Nat /\ s.to \in Nat /\ s.from <= s.to /\ s.to <= Len(a)
      /\ Len(b) - Len(a) + s.to - s.from \in Nat
  BY <1>0, <1>1, <1>4
<1> HIDE DEF delta
<1>5. /\ item.from \in Nat /\ item.to \in Nat /\ item.from < item.to /\ item.to <= Len(a)
      /\ Slice(a, item.from, item.to) = item.said
  BY DEF Finding, Stands
<1>6. CASE item.from > s.to
  <2> DEFINE u == item.from + delta
             v == item.to + delta
  <2>1. u \in Nat /\ v \in Nat /\ u < v /\ v <= Len(b) /\ v - u = item.to - item.from
    <3> DEFINE f == item.from  g == item.to  x == s.from  y == s.to  k == Len(a)  l == Len(b)
    <3>1. f \in Nat /\ g \in Nat /\ x \in Nat /\ y \in Nat /\ k \in Nat /\ l \in Nat /\ delta \in Int
      BY <1>0, <1>5, <1>9
    <3>2. /\ delta = l - k /\ x <= y /\ y <= k /\ l - k + y - x \in Nat
          /\ f < g /\ g <= k /\ f > y
      BY <1>4, <1>5, <1>6, <1>9
    <3> HIDE DEF f, g, x, y, k, l
    <3>3. f + delta \in Nat /\ g + delta \in Nat /\ f + delta < g + delta /\ g + delta <= l
          /\ (g + delta) - (f + delta) = g - f
      BY <3>1, <3>2
    <3> QED
      BY <3>3 DEF f, g, l
  <2>2. new = [item EXCEPT !.from = u, !.to = v]
    BY <1>3, <1>6
  <2>3. /\ Slice(b, u, v) \in Pieces /\ Len(Slice(b, u, v)) = v - u
        /\ \A i \in 1..(v - u) : Slice(b, u, v)[i] = b[u + i]
    BY <2>1, SliceIs
  <2>4. /\ Slice(a, item.from, item.to) \in Pieces /\ Len(Slice(a, item.from, item.to)) = v - u
        /\ \A i \in 1..(v - u) : Slice(a, item.from, item.to)[i] = a[item.from + i]
    <3>1. /\ Slice(a, item.from, item.to) \in Pieces
          /\ Len(Slice(a, item.from, item.to)) = item.to - item.from
          /\ \A i \in 1..(item.to - item.from) : Slice(a, item.from, item.to)[i] = a[item.from + i]
      BY <1>5, SliceIs
    <3> QED
      BY <2>1, <3>1
  <2>5. \A i \in 1..(v - u) : b[u + i] = a[item.from + i]
    <3> SUFFICES ASSUME NEW i \in 1..(v - u)
                 PROVE  b[u + i] = a[item.from + i]
      OBVIOUS
    <3> DEFINE j == item.from + i
    <3>1. j \in (s.to + 1)..Len(a) /\ j + Len(b) - Len(a) = u + i
      <4> DEFINE f == item.from  g == item.to  y == s.to  k == Len(a)  l == Len(b)
      <4>1. f \in Nat /\ g \in Nat /\ y \in Nat /\ k \in Nat /\ l \in Nat /\ delta \in Int
        BY <1>0, <1>5, <1>9
      <4>2. /\ delta = l - k /\ y <= k /\ f < g /\ g <= k /\ f > y
            /\ i \in 1..(g - f) /\ u = f + delta /\ j = f + i
        BY <1>4, <1>5, <1>6, <1>9, <2>1
      <4> HIDE DEF f, g, y, k, l, u, j
      <4>3. j \in (y + 1)..k /\ j + l - k = u + i
        BY <4>1, <4>2
      <4> QED
        BY <4>3 DEF y, k, l
    <3> QED
      BY <1>1, <3>1
  <2>6. Slice(b, u, v) = Slice(a, item.from, item.to)
    BY <2>3, <2>4, <2>5, SeqEqual DEF Pieces
  <2> HIDE DEF u, v
  <2>7. new \in Finding /\ new.from = u /\ new.to = v /\ new.said = item.said /\ new.user = item.user
    BY <2>1, <2>2 DEF Finding
  <2> QED
    BY <1>5, <2>1, <2>6, <2>7 DEF Stands, new, s
<1>7. CASE item.to < s.from
  <2>1. new = item
    BY <1>1, <1>3, <1>5, <1>7
  <2>2. item.to <= Len(b)
    BY <1>0, <1>1, <1>7, <1>5
  <2>3. /\ Slice(b, item.from, item.to) \in Pieces /\ Len(Slice(b, item.from, item.to)) = item.to - item.from
        /\ \A i \in 1..(item.to - item.from) : Slice(b, item.from, item.to)[i] = b[item.from + i]
    BY <1>5, <2>2, SliceIs
  <2>4. /\ Slice(a, item.from, item.to) \in Pieces /\ Len(Slice(a, item.from, item.to)) = item.to - item.from
        /\ \A i \in 1..(item.to - item.from) : Slice(a, item.from, item.to)[i] = a[item.from + i]
    BY <1>5, SliceIs
  <2>5. \A i \in 1..(item.to - item.from) : a[item.from + i] = b[item.from + i]
    <3> SUFFICES ASSUME NEW i \in 1..(item.to - item.from)
                 PROVE  b[item.from + i] = a[item.from + i]
      OBVIOUS
    <3>1. item.from + i \in 1..s.from
      BY <1>1, <1>5, <1>7, SMTT(30)
    <3> QED
      BY <1>1, <3>1
  <2>6. Slice(b, item.from, item.to) = Slice(a, item.from, item.to)
    BY <2>3, <2>4, <2>5, SeqEqual DEF Pieces
  <2> QED
    BY <1>5, <2>1, <2>2, <2>6 DEF Stands, new, s
<1> QED
  BY <1>2, <1>6, <1>7

-----------------------------------------------------------------------------
(* What is of which kind. *)

Mark == [id : Id, from : Nat, to : Nat]
Greeting == [type : {"hello"}]
Texted == [type : {"fieldConnected", "textChanged"}, field : Fields, text : Texts]
Parted == [type : {"fieldDisconnected"}, field : Fields]
Clicked == [type : {"markingClicked"}, field : Fields, id : Id]
Answered == [type : {"replaceResult"}, request : Requests, field : Fields, ok : BOOLEAN, text : Texts]
EmbedWire == Greeting \cup Texted \cup Parted \cup Clicked \cup Answered

Spoken == [type : {"ready"}]
Shown == [type : {"findings"}, field : Fields, spans : SUBSET Mark]
Wanted == [type : {"applyReplacement"}, request : Requests, field : Fields,
           from : Nat, to : Nat, insert : Inserts, expected : Pieces]
HostWire == Spoken \cup Shown \cup {m \in Wanted : m.from <= m.to}

Asked == [state : {"none", "waiting", "ok", "refused", "gaveUp"}, id : Id \cup {None},
          field : Fields \cup {None}, said : Pieces, met : BOOLEAN, applied : BOOLEAN]
Checked == [todo : SUBSET Sources, text : Texts, user : Users \cup {None}]

HostTyped ==
  /\ {loading, ready, forgotten} \subseteq BOOLEAN
  /\ active \in Fields \cup {None} /\ page \in [Fields -> Texts] /\ marks \subseteq Mark
WiresTyped == toEmbed \in Seq(EmbedWire) /\ toHost \in Seq(HostWire)
DocTyped ==
  /\ {pinned, publishing} \subseteq BOOLEAN
  /\ field \in Fields \cup {None} /\ buffer \in Texts
  /\ items \subseteq Finding /\ selected \in Id \cup {None}
  /\ ask \in [Requests -> Asked]
PanelTyped ==
  /\ user \in Users \cup {None} /\ account \in Users \cup {None}
  /\ connected \in Fields \cup {None} /\ shown \subseteq Finding
  /\ check \in Checked /\ effect \in BOOLEAN
BoundsTyped == load \in Loads /\ runs \in Nat
AllTyped == HostTyped /\ WiresTyped /\ DocTyped /\ PanelTyped /\ BoundsTyped

LEMMA EmptyText == <<>> \in Texts /\ <<>> \in Pieces /\ Texts \subseteq Pieces
BY BoundsAssumption, EmptySeq DEF Texts, Pieces

LEMMA InsertsAreTexts == Inserts \subseteq Pieces /\ Originals \subseteq Pieces /\ Typed \subseteq Pieces
BY TextsAssumption DEF Pieces

LEMMA LoadsAre ==
  ASSUME NEW l \in Loads
  PROVE  /\ l.runs \in Nat /\ l.requests \in Nat /\ l.requests <= MaxRequests
         /\ l.owner \in Users \cup {None} /\ l.field \in Fields \cup {None}
         /\ l.page \in [Fields -> Texts]
BY BoundsAssumption, TextsAssumption

LEMMA NoneIsNoField == None \notin Fields /\ None \notin Users
BY FieldsAssumption

(* What is posted to the embed and to the host, by its type.                 *)
LEMMA EmbedWires ==
  ASSUME NEW m \in EmbedWire
  PROVE  /\ m.type \in {"hello", "fieldConnected", "textChanged", "fieldDisconnected",
                        "markingClicked", "replaceResult"}
         /\ m.type = "hello" => m = Hello
         /\ m.type \in {"fieldConnected", "textChanged", "replaceResult"} => m.field \in Fields /\ m.text \in Texts
         /\ m.type \in {"fieldDisconnected", "markingClicked"} => m.field \in Fields
         /\ m.type = "markingClicked" => m.id \in Id
         /\ m.type = "replaceResult" => m.request \in Requests /\ m.ok \in BOOLEAN
BY DEF EmbedWire, Greeting, Texted, Parted, Clicked, Answered, Hello

LEMMA HostWires ==
  ASSUME NEW m \in HostWire
  PROVE  /\ m.type \in {"ready", "findings", "applyReplacement"}
         /\ m.type = "ready" => m = Ready
         /\ m.type = "findings" => m.field \in Fields /\ m.spans \subseteq Mark
         /\ m.type = "applyReplacement" =>
              /\ m.request \in Requests /\ m.field \in Fields
              /\ m.from \in Nat /\ m.to \in Nat /\ m.from <= m.to
              /\ m.insert \in Inserts /\ m.expected \in Pieces
BY DEF HostWire, Spoken, Shown, Wanted, Ready

LEMMA Posted ==
  ASSUME NEW S, NEW q \in Seq(S), NEW ms \in Seq(S)
  PROVE  q \o ms \in Seq(S)
BY ConcatProperties

LEMMA Taken ==
  ASSUME NEW S, NEW q \in Seq(S), q # <<>>
  PROVE  Head(q) \in S /\ Tail(q) \in Seq(S)
BY HeadTailProperties

(* The messages of the host. *)
LEMMA HostMessages ==
  /\ Hello \in EmbedWire
  /\ \A f \in Fields, t \in Texts : ConnectedMsg(f, t) \in EmbedWire /\ ChangedMsg(f, t) \in EmbedWire
  /\ \A f \in Fields : DisconnectedMsg(f) \in EmbedWire
  /\ \A f \in Fields, id \in Id : ClickedMsg(f, id) \in EmbedWire
  /\ \A r \in Requests, f \in Fields, ok \in BOOLEAN, t \in Texts : ResultMsg(r, f, ok, t) \in EmbedWire
BY DEF EmbedWire, Greeting, Texted, Parted, Clicked, Answered, Hello, ConnectedMsg, ChangedMsg,
       DisconnectedMsg, ClickedMsg, ResultMsg

LEMMA ChangesTyped ==
  ASSUME HostTyped, NEW f \in Fields, NEW t \in Texts
  PROVE  Changes(f, t) \in Seq(EmbedWire)
BY HostMessages, EmptySeq DEF Changes

LEMMA AnsweringTyped ==
  ASSUME HostTyped, NEW f \in Fields, NEW m, m.request \in Requests, NEW o,
         o.ok \in BOOLEAN, o.text \in Texts, o.seen \in Texts
  PROVE  Answering(f, m, o) \in Seq(EmbedWire)
<1>1. <<ResultMsg(m.request, f, o.ok, o.text)>> \in Seq(EmbedWire)
  BY HostMessages
<1>2. Changes(f, o.text) \in Seq(EmbedWire) /\ Changes(f, o.seen) \in Seq(EmbedWire)
  BY ChangesTyped
<1> QED
  BY <1>1, <1>2, Posted DEF Answering

(* The messages of the embed. *)
LEMMA SaysTyped ==
  ASSUME NEW f \in Fields \cup {None}, NEW its \in SUBSET Finding
  PROVE  Says(f, its) \in Seq(HostWire)
<1>1. CASE f = None
  BY <1>1, EmptySeq DEF Says
<1>2. CASE f # None
  <2>1. \A i \in its : [id |-> i.id, from |-> i.from, to |-> i.to] \in Mark
    BY DEF Finding, Mark
  <2>2. FindingsMsg(f, its) \in HostWire
    BY <1>2, <2>1 DEF FindingsMsg, HostWire, Shown
  <2> QED
    BY <1>2, <2>2 DEF Says
<1> QED
  BY <1>1, <1>2

(* What the adapters make of a text.                                         *)
LEMMA EditsAre ==
  ASSUME NEW t \in Pieces
  PROVE  Edits(t) \subseteq Pieces
<1>1. Len(t) \in Nat
  BY LenProperties DEF Pieces
<1>2. \A u \in 0..Len(t), c \in Typed : Replaced(t, u, u, c) \in Pieces
  BY <1>1, InsertsAreTexts, ReplacedIs
<1>3. \A y \in [from : 0..Len(t), to : 0..Len(t)] : y.from < y.to => Replaced(t, y.from, y.to, <<>>) \in Pieces
  BY <1>1, EmptyText, ReplacedIs
<1> QED
  BY <1>2, <1>3 DEF Edits

LEMMA FittingAre ==
  ASSUME NEW ts \in SUBSET Pieces
  PROVE  Fitting(ts) \subseteq Texts
BY DEF Fitting, Texts, Pieces

LEMMA OutcomesAre ==
  ASSUME NEW f \in Fields, NEW t \in Texts, NEW m \in HostWire, m.type = "applyReplacement",
         NEW o \in Outcomes(f, t, m)
  PROVE  /\ o.ok \in BOOLEAN /\ o.text \in Pieces /\ (o.text \in Texts => o.seen \in Texts)
         /\ o.ok => Judged(t, m)
         /\ f \in Rich /\ o.ok => o.text = Put(t, m)
         /\ f \notin Rich /\ Judged(t, m) => o.ok
         /\ ~o.ok => o.text = t \/ (f \in Rich /\ Judged(t, m) /\ o.text # Put(t, m))
<1>1. /\ m.from \in Nat /\ m.to \in Nat /\ m.from <= m.to /\ m.insert \in Pieces
      /\ t \in Pieces
  BY HostWires, InsertsAreTexts, EmptyText
<1>2. Judged(t, m) => Put(t, m) \in Pieces
  BY <1>1, ReplacedIs DEF Judged, Put
<1>3. Judged(t, m) => \A x \in Rewritten(t, m) : x \in Pieces /\ x # Put(t, m)
  BY <1>2, EditsAre DEF Rewritten, Fitting
<1>4. CASE ~Judged(t, m)
  <2>1. o = [ok |-> FALSE, text |-> t, seen |-> t]
    BY <1>4 DEF Outcomes, Outcome
  <2> QED
    BY <1>1, <1>4, <2>1
<1>5. CASE Judged(t, m)
  <2> DEFINE put == Put(t, m)
             others == Rewritten(t, m)
  <2>1. put \in Pieces /\ \A x \in others : x \in Pieces /\ x # put
    BY <1>2, <1>3, <1>5
  <2>2. CASE f \in Rich
    <3>1. Outcomes(f, t, m) = Verified(t, m)
      BY <1>5, <2>2 DEF Outcomes
    <3>2. o \in {Outcome(TRUE, put), Outcome(FALSE, t)} \cup {Outcome(FALSE, x) : x \in others}
      BY <3>1 DEF Verified
    <3> HIDE DEF put, others
    <3>3. CASE o = Outcome(TRUE, put)
      BY <1>5, <2>1, <2>2, <3>3 DEF Outcome, put
    <3>4. CASE o = Outcome(FALSE, t)
      BY <1>1, <2>2, <3>4 DEF Outcome
    <3>5. ASSUME NEW x \in others, o = Outcome(FALSE, x)
          PROVE  /\ o.ok = FALSE /\ o.text \in Pieces /\ o.text # put
                 /\ o.text \in Texts => o.seen \in Texts
      BY <2>1, <3>5 DEF Outcome
    <3> QED
      BY <1>5, <2>2, <3>2, <3>3, <3>4, <3>5 DEF put
  <2>3. CASE f \notin Rich
    <3> DEFINE fit == Fitting({put})
    <3>1. Outcomes(f, t, m) = Unverified(t, m)
      BY <1>5, <2>3 DEF Outcomes
    <3>2. fit \subseteq Texts
      BY <2>1, FittingAre
    <3>3. PICK x \in {put} \cup others : o \in [ok : {TRUE}, text : {x}, seen : {x} \cup fit]
      BY <3>1 DEF Unverified
    <3> HIDE DEF put, others, fit
    <3>4. o.ok = TRUE /\ o.text \in Pieces /\ (o.text \in Texts => o.seen \in Texts)
      BY <2>1, <3>2, <3>3
    <3> QED
      BY <1>5, <2>3, <3>4
  <2> QED
    BY <2>2, <2>3
<1> QED
  BY <1>4, <1>5

-----------------------------------------------------------------------------
(* What the embed does to its document. *)

Standing == \A item \in items : Stands(item, buffer)

LEMMA ResetKeeps ==
  ASSUME AllTyped, ResetConnection
  PROVE  /\ items' = {} /\ shown' = {} /\ selected' = None
         /\ toHost' \in Seq(HostWire)
         /\ ask' \in [Requests -> Asked]
<1>1. Says(field, {}) \in Seq(HostWire)
  BY SaysTyped DEF AllTyped, DocTyped
<1>2. toHost' \in Seq(HostWire)
  BY <1>1, Posted DEF AllTyped, WiresTyped, ResetConnection, SendsAfter
<1>3. ask' \in [Requests -> Asked]
  <2>1. ask' = AllGivenUp
    BY DEF ResetConnection
  <2>2. \A r \in Requests : ask[r] \in Asked
    BY DEF AllTyped, DocTyped
  <2>3. \A r \in Requests : [ask[r] EXCEPT !.state = "gaveUp"] \in Asked
    BY <2>2 DEF Asked
  <2> QED
    BY <2>1, <2>2, <2>3 DEF AllGivenUp
<1> QED
  BY <1>2, <1>3 DEF ResetConnection

LEMMA RemappedStand ==
  ASSUME AllTyped, Standing, NEW t \in Texts
  PROVE  \A item \in Remapped(t) :
           item \in Finding /\ Stands(item, t) /\ \E i \in items : i.user = item.user
<1> DEFINE s == DeriveSplice(buffer, t)
<1>1. buffer \in Pieces /\ t \in Pieces /\ items \subseteq Finding
  BY EmptyText DEF AllTyped, DocTyped
<1>2. CASE IsChange(s)
  <2>1. Remapped(t) = {Moved(item, s) : item \in {i \in items : ~Touches(i, s)}}
    BY <1>2 DEF Remapped, MapThrough
  <2>2. ASSUME NEW i \in items, ~Touches(i, s)
        PROVE  Moved(i, s) \in Finding /\ Stands(Moved(i, s), t) /\ Moved(i, s).user = i.user
    BY <1>1, <2>2, StandsMoved DEF Standing
  <2> QED
    BY <2>1, <2>2
<1>3. CASE ~IsChange(s)
  <2>1. Remapped(t) = items
    BY <1>3 DEF Remapped, MapThrough
  <2>2. Len(buffer) \in Nat /\ Len(t) \in Nat
    BY <1>1, LenProperties DEF Pieces
  <2>3. /\ s.from \in Nat /\ s.to \in Nat /\ s.from <= s.to /\ s.to <= Len(buffer)
        /\ Len(s.insert) = Len(t) - Len(buffer) + s.to - s.from
        /\ \A i \in 1..s.from : buffer[i] = t[i]
        /\ \A i \in (s.to + 1)..Len(buffer) : t[i + Len(t) - Len(buffer)] = buffer[i]
    BY <1>1, SpliceIs
  <2>4. s.from >= s.to /\ s.insert = <<>>
    BY <1>3, <2>3 DEF IsChange
  <2>5. s.from = s.to /\ Len(t) = Len(buffer)
    BY <2>2, <2>3, <2>4, EmptySeq
  <2> HIDE DEF s
  <2>6. \A i \in 1..Len(buffer) : buffer[i] = t[i]
    <3> SUFFICES ASSUME NEW i \in 1..Len(buffer) PROVE buffer[i] = t[i]
      OBVIOUS
    <3>1. i + Len(t) - Len(buffer) = i
      BY <2>2, <2>5
    <3>2. i \in 1..s.from \/ i \in (s.to + 1)..Len(buffer)
      BY <2>2, <2>3, <2>5
    <3> QED
      BY <2>3, <3>1, <3>2
  <2>7. t = buffer
    BY <1>1, <2>5, <2>6, SeqEqual DEF Pieces
  <2> QED
    BY <1>1, <2>1, <2>7 DEF Standing
<1> QED
  BY <1>2, <1>3

LEMMA SyncKeeps ==
  ASSUME AllTyped, Standing, NEW t \in Texts, Sync(t)
  PROVE  /\ buffer' = t
         /\ items' \subseteq Finding /\ shown' \subseteq Finding
         /\ toHost' \in Seq(HostWire)
         /\ \A item \in items' : Stands(item, buffer') /\ \E i \in items : i.user = item.user
<1>1. CASE t = buffer
  BY <1>1 DEF Sync, AllTyped, DocTyped, PanelTyped, WiresTyped, Standing
<1>2. CASE t # buffer
  <2>1. buffer' = t /\ items' = Remapped(t)
    BY <1>2 DEF Sync
  <2>2. \A item \in Remapped(t) :
           item \in Finding /\ Stands(item, t) /\ \E i \in items : i.user = item.user
    BY RemappedStand
  <2>3. items' \subseteq Finding
    BY <2>1, <2>2
  <2>4. Says(field, items') \in Seq(HostWire)
    BY <2>3, SaysTyped DEF AllTyped, DocTyped
  <2>5. shown' \subseteq Finding /\ toHost' \in Seq(HostWire)
    BY <1>2, <2>3, <2>4, Posted DEF Sync, SendsAfter, AllTyped, PanelTyped, WiresTyped
  <2> QED
    BY <2>1, <2>2, <2>3, <2>5
<1> QED
  BY <1>1, <1>2

LEMMA FoundAre ==
  ASSUME NEW t \in Texts, NEW source \in Sources, NEW f \in Found(source, t)
  PROVE  f.source = source /\ f.said \in Pieces
<1>1. t \in Pieces
  BY EmptyText
<1>2. Len(t) \in Nat /\ DOMAIN t = 1..Len(t)
  BY <1>1, LenProperties DEF Pieces
<1>3. FlaggedAt(t) \subseteq 1..Len(t)
  BY <1>2 DEF FlaggedAt
<1>4. \A i, j \in 1..Len(t) : Span(source, t, i, j).source = source /\ Span(source, t, i, j).said \in Pieces
  <2> SUFFICES ASSUME NEW i \in 1..Len(t), NEW j \in 1..Len(t) PROVE SubSeq(t, i, j) \in Pieces
    BY DEF Span
  <2>1. \A k \in i..j : t[k] \in STRING
    BY <1>1, <1>2, ElementOfSeq DEF Pieces
  <2> QED
    BY <2>1, SubSeqProperties DEF Pieces
<1>5. CASE source = "rule"
  BY <1>3, <1>4, <1>5 DEF Found
<1>6. CASE source = "llm"
  <2>1. ~(Cardinality(FlaggedAt(t)) < 2) /\ f = Span("llm", t, Min(FlaggedAt(t)), Max(FlaggedAt(t)))
    BY <1>6 DEF Found
  <2>2. FlaggedAt(t) # {}
    BY <2>1, FS_EmptySet
  <2>3. Min(FlaggedAt(t)) \in FlaggedAt(t)
    BY <1>3, <2>2, MinIsIn
  <2>4. Max(FlaggedAt(t)) \in FlaggedAt(t)
    <3>1. FlaggedAt(t) \in SUBSET (0..Len(t))
      BY <1>2, <1>3
    <3> QED
      BY <1>2, <2>2, <3>1, MaxIsIn
  <2> QED
    BY <1>3, <1>4, <1>6, <2>1, <2>3, <2>4
<1> QED
  BY <1>5, <1>6 DEF Sources

LEMMA MergeKeeps ==
  ASSUME AllTyped, Standing, NEW sources, NEW found,
         \A f \in found : f.source \in Sources /\ f.said \in Pieces,
         Merge(sources, found)
  PROVE  /\ items' \subseteq Finding /\ shown' = items' /\ selected' \in Id \cup {None}
         /\ toHost' \in Seq(HostWire)
         /\ \A item \in items' :
              /\ Stands(item, buffer)
              /\ (item \in items /\ item.source \notin sources) \/ (found # {} /\ item.user = check.user)
<1> DEFINE kept == {i \in items : i.source \notin sources}
           tracked == {Tracked(f) : f \in Converted(buffer, found)}
           new == kept \cup tracked
           old == {i \in items : i.id = selected}
           heirs == UNION {Nearest(new, o) : o \in old}
<1>1. buffer \in Pieces /\ Len(buffer) \in Nat /\ Len(buffer) <= MaxLen /\ MaxLen \in Nat
  BY EmptyText, LenProperties, BoundsAssumption DEF AllTyped, DocTyped, Pieces, Texts
<1>2. ASSUME NEW f \in Converted(buffer, found)
      PROVE  /\ Tracked(f) \in Finding /\ Stands(Tracked(f), buffer)
             /\ Tracked(f).user = check.user /\ found # {}
  <2>1. PICK g \in found : f \in {i \in [from : UnitsAt(buffer, g.start), to : UnitsAt(buffer, g.end),
                                         said : {g.said}, source : {g.source}] :
                                    i.from < i.to /\ Slice(buffer, i.from, i.to) = i.said}
    BY <1>2 DEF Converted
  <2>2. /\ f.from \in 0..Len(buffer) /\ f.to \in 0..Len(buffer) /\ f.from < f.to
        /\ f.said \in Pieces /\ f.source \in Sources /\ Slice(buffer, f.from, f.to) = f.said
    BY <2>1 DEF UnitsAt
  <2>3. <<runs, f.source, f.from>> \in Id
    BY <1>1, <2>2 DEF Id, AllTyped, BoundsTyped
  <2> QED
    BY <1>1, <2>1, <2>2, <2>3 DEF Tracked, Finding, Stands, AllTyped, PanelTyped, Checked
<1>3. \A item \in new :
        /\ item \in Finding /\ Stands(item, buffer)
        /\ (item \in items /\ item.source \notin sources) \/ (found # {} /\ item.user = check.user)
  BY <1>2 DEF Standing, AllTyped, DocTyped
<1>4. heirs \subseteq new
  BY DEF Nearest, Equivalents
<1>5. /\ items' = new /\ shown' = new
      /\ selected' = IF \E i \in new : i.id = selected THEN selected
                     ELSE IF heirs = {} THEN None ELSE (CHOOSE h \in heirs : TRUE).id
      /\ SendsAfter(Says(field, new))
  BY DEF Merge
<1> HIDE DEF new, heirs
<1>6. selected' \in Id \cup {None}
  <2>1. heirs # {} => (CHOOSE h \in heirs : TRUE) \in new
    BY <1>4
  <2> QED
    BY <1>3, <1>5, <2>1 DEF Finding, AllTyped, DocTyped
<1>7. toHost' \in Seq(HostWire)
  <2>1. Says(field, new) \in Seq(HostWire)
    BY <1>3, SaysTyped DEF AllTyped, DocTyped
  <2> QED
    BY <1>5, <2>1, Posted DEF SendsAfter, AllTyped, WiresTyped
<1> QED
  BY <1>3, <1>5, <1>6, <1>7

-----------------------------------------------------------------------------
(* Every step keeps the kinds of things, and findings where they stand.      *)

Kept == AllTyped /\ Standing

LEMMA RunCheckKeeps ==
  ASSUME Kept, NEW sources \in SUBSET Sources, RunCheck(sources)
  PROVE  /\ items' \subseteq Finding /\ shown' \subseteq Finding /\ selected' \in Id \cup {None}
         /\ toHost' \in Seq(HostWire) /\ check' \in Checked
         /\ BoundsTyped'
         /\ \A item \in items' : Stands(item, buffer)
<1>1. BoundsTyped'
  BY DEF RunCheck, Kept, AllTyped, BoundsTyped
<1>2. CASE buffer = <<>>
  <2>1. Merge(Sources, {}) /\ check' = Nothing
    BY <1>2 DEF RunCheck
  <2>2. check' \in Checked
    BY <2>1, EmptyText DEF Nothing, Checked
  <2> QED
    BY <1>1, <2>1, <2>2, MergeKeeps DEF Kept
<1>3. CASE buffer # <<>>
  <2>1. check' = [todo |-> sources, text |-> buffer, user |-> user] /\ UNCHANGED <<items, selected, shown, toHost>>
    BY <1>3 DEF RunCheck
  <2> QED
    BY <1>1, <2>1 DEF Checked, Kept, AllTyped, DocTyped, PanelTyped, WiresTyped, Standing
<1> QED
  BY <1>2, <1>3

\* What the embed leaves alone when it is the host's turn, and the other way round.
LEMMA EmbedAtRest ==
  ASSUME Kept, EmbedRests, Running \/ (UNCHANGED <<load, runs>>)
  PROVE  DocTyped' /\ PanelTyped' /\ BoundsTyped' /\ Standing'
BY DEF Kept, AllTyped, EmbedRests, docVars, userVars, storeVars, checkVars, Running, bounds,
       DocTyped, PanelTyped, BoundsTyped, Standing

LEMMA PostsTyped ==
  ASSUME Kept, NEW ms \in Seq(EmbedWire), Posts(ms)
  PROVE  toEmbed' \in Seq(EmbedWire)
BY Posted DEF Posts, Kept, AllTyped, WiresTyped

LEMMA FrameLoadsKeeps == ASSUME Kept, FrameLoads PROVE Kept'
<1>1. <<Hello>> \in Seq(EmbedWire)
  BY HostMessages
<1>2. toEmbed' \in Seq(EmbedWire)
  BY <1>1, PostsTyped DEF FrameLoads
<1>3. DocTyped' /\ PanelTyped' /\ BoundsTyped' /\ Standing'
  BY EmbedAtRest DEF FrameLoads
<1> QED
  BY <1>2, <1>3 DEF FrameLoads, Kept, AllTyped, HostTyped, WiresTyped

LEMMA HelloAgainKeeps == ASSUME Kept, HelloAgain PROVE Kept'
<1>1. <<Hello>> \in Seq(EmbedWire)
  BY HostMessages
<1>2. toEmbed' \in Seq(EmbedWire)
  BY <1>1, PostsTyped DEF HelloAgain
<1>3. DocTyped' /\ PanelTyped' /\ BoundsTyped' /\ Standing'
  BY EmbedAtRest DEF HelloAgain
<1> QED
  BY <1>2, <1>3 DEF HelloAgain, Kept, AllTyped, HostTyped, WiresTyped, hostVars

LEMMA ConnectKeeps == ASSUME Kept, NEW f \in Fields, Connect(f) PROVE Kept'
<1>1. <<ConnectedMsg(f, page[f])>> \in Seq(EmbedWire)
  BY HostMessages DEF Kept, AllTyped, HostTyped
<1>2. toEmbed' \in Seq(EmbedWire)
  BY <1>1, PostsTyped DEF Connect
<1>3. DocTyped' /\ PanelTyped' /\ BoundsTyped' /\ Standing'
  BY EmbedAtRest DEF Connect, Acting
<1> QED
  BY <1>2, <1>3 DEF Connect, Kept, AllTyped, HostTyped, WiresTyped

LEMMA LeaveKeeps == ASSUME Kept, Leave PROVE Kept'
<1>1. <<DisconnectedMsg(active)>> \in Seq(EmbedWire)
  BY HostMessages DEF Kept, AllTyped, HostTyped, Leave
<1>2. toEmbed' \in Seq(EmbedWire)
  BY <1>1, PostsTyped DEF Leave
<1>3. DocTyped' /\ PanelTyped' /\ BoundsTyped' /\ Standing'
  BY EmbedAtRest DEF Leave, Acting
<1> QED
  BY <1>2, <1>3 DEF Leave, Kept, AllTyped, HostTyped, WiresTyped

LEMMA ClickKeeps == ASSUME Kept, Click PROVE Kept'
<1>1. PICK mark \in marks : Posts(<<ClickedMsg(active, mark.id)>>)
  BY DEF Click
<1>2. <<ClickedMsg(active, mark.id)>> \in Seq(EmbedWire)
  BY <1>1, HostMessages DEF Kept, AllTyped, HostTyped, Click, Mark
<1>3. toEmbed' \in Seq(EmbedWire)
  BY <1>1, <1>2, PostsTyped
<1>4. DocTyped' /\ PanelTyped' /\ BoundsTyped' /\ Standing'
  BY EmbedAtRest DEF Click, Acting
<1> QED
  BY <1>3, <1>4 DEF Click, Kept, AllTyped, HostTyped, WiresTyped, hostVars

LEMMA TypeKeeps == ASSUME Kept, NEW f \in Fields, Type(f) PROVE Kept'
<1>1. PICK t \in Fitting(Edits(page[f])) : page' = [page EXCEPT ![f] = t] /\ Posts(Changes(f, t))
  BY DEF Type
<1>2. t \in Texts
  BY <1>1, EmptyText, EditsAre, FittingAre DEF Kept, AllTyped, HostTyped
<1>3. toEmbed' \in Seq(EmbedWire)
  BY <1>1, <1>2, ChangesTyped, PostsTyped DEF Kept, AllTyped
<1>4. DocTyped' /\ PanelTyped' /\ BoundsTyped' /\ Standing'
  BY EmbedAtRest DEF Type, Acting
<1>5. page' \in [Fields -> Texts]
  BY <1>1, <1>2 DEF Kept, AllTyped, HostTyped
<1> QED
  BY <1>3, <1>4, <1>5 DEF Type, Kept, AllTyped, HostTyped, WiresTyped

(* What the host makes of a message. *)
LEMMA CarriedIs ==
  ASSUME Kept, NEW m \in HostWire, m.type = "applyReplacement", active = m.field,
         NEW o \in Outcomes(active, page[active], m)
  PROVE  LET asks == Carried(m, o)
             q == ask[m.request]
             t == page[active]
         IN /\ asks \in [Requests -> Asked]
            /\ \A r \in Requests : r # m.request \/ ask[r].state = "none" => asks[r] = ask[r]
            /\ \A r \in Requests : /\ asks[r].state = ask[r].state /\ asks[r].id = ask[r].id
                                   /\ asks[r].field = ask[r].field /\ asks[r].said = ask[r].said
            /\ q.state # "none" =>
                 /\ asks[m.request].met = (q.met \/ Judged(t, m))
                 /\ asks[m.request].applied = (q.applied \/ ((o.ok \/ o.text # t) /\ o.text = Put(t, m)))
<1> DEFINE asks == Carried(m, o)
           q == ask[m.request]
           t == page[active]
           d == q.met \/ Judged(t, m)
           b == q.applied \/ ((o.ok \/ o.text # t) /\ o.text = Put(t, m))
<1>1. m.request \in Requests /\ active \in Fields
  BY HostWires
<1>2. o.ok \in BOOLEAN
  BY <1>1, OutcomesAre DEF Kept, AllTyped, HostTyped
<1>3. ask \in [Requests -> Asked] /\ q \in Asked
  BY <1>1 DEF Kept, AllTyped, DocTyped
<1>4. d \in BOOLEAN /\ b \in BOOLEAN
  BY <1>2, <1>3 DEF Asked, Judged
<1>5. q.state = "none" => asks = ask
  BY DEF Carried
<1>6. q.state # "none" => asks = [ask EXCEPT ![m.request] = [q EXCEPT !.met = d, !.applied = b]]
  BY <1>1, <1>3 DEF Carried, Asked
<1> HIDE DEF asks, q, t, d, b
<1>7. [q EXCEPT !.met = d, !.applied = b] \in Asked
  BY <1>3, <1>4 DEF Asked
<1>8. CASE q.state = "none"
  BY <1>3, <1>5, <1>8 DEF asks, q
<1>9. CASE q.state # "none"
  <2>1. \A r \in Requests : asks[r] = IF r = m.request THEN [q EXCEPT !.met = d, !.applied = b] ELSE ask[r]
    BY <1>1, <1>3, <1>6, <1>9
  <2>2. asks \in [Requests -> Asked]
    BY <1>3, <1>6, <1>7, <1>9
  <2>3. asks[m.request].met = d /\ asks[m.request].applied = b
    BY <1>1, <1>3, <2>1 DEF Asked
  <2>4. \A r \in Requests : r # m.request \/ ask[r].state = "none" => asks[r] = ask[r]
    BY <1>9, <2>1 DEF q
  <2>5. \A r \in Requests : /\ asks[r].state = ask[r].state /\ asks[r].id = ask[r].id
                            /\ asks[r].field = ask[r].field /\ asks[r].said = ask[r].said
    <3> SUFFICES ASSUME NEW r \in Requests
                 PROVE  /\ asks[r].state = ask[r].state /\ asks[r].id = ask[r].id
                        /\ asks[r].field = ask[r].field /\ asks[r].said = ask[r].said
      OBVIOUS
    <3>1. CASE r = m.request
      <4>1. asks[r] = [q EXCEPT !.met = d, !.applied = b] /\ ask[r] = q
        BY <2>1, <3>1 DEF q
      <4> QED
        BY <1>3, <4>1 DEF Asked
    <3>2. CASE r # m.request
      BY <2>1, <3>2
    <3> QED
      BY <3>1, <3>2
  <2>6. /\ asks \in [Requests -> Asked] /\ \A r \in Requests : r # m.request \/ ask[r].state = "none" => asks[r] = ask[r]
        /\ \A r \in Requests : /\ asks[r].state = ask[r].state /\ asks[r].id = ask[r].id
                               /\ asks[r].field = ask[r].field /\ asks[r].said = ask[r].said
    BY <2>2, <2>4, <2>5
  <2> QED
    BY <2>3, <2>6 DEF asks, q, t, d, b
<1> QED
  BY <1>8, <1>9

LEMMA HostHearsApply ==
  ASSUME Kept, HostHears, Head(toHost).type = "applyReplacement", active = Head(toHost).field
  PROVE  LET m == Head(toHost) IN
         \E o \in Outcomes(active, page[active], m) :
           /\ o.text \in Texts
           /\ page' = [page EXCEPT ![active] = o.text]
           /\ Posts(Answering(active, m, o))
           /\ ask' = Carried(m, o)
           /\ UNCHANGED <<loading, ready, active, forgotten, marks>>
<1> DEFINE m == Head(toHost)
<1>1. m \in HostWire
  BY Taken DEF HostHears, Kept, AllTyped, WiresTyped
<1>2. m.field \in Fields
  BY <1>1, HostWires
<1>3. PICK o \in Outcomes(active, page[active], m) :
           /\ Len(o.text) <= MaxLen
           /\ page' = [page EXCEPT ![active] = o.text]
           /\ Posts(Answering(active, m, o))
           /\ ask' = Carried(m, o)
           /\ UNCHANGED <<loading, ready, active, forgotten, marks>>
  BY DEF HostHears
<1>4. o.text \in Pieces
  BY <1>1, <1>2, OutcomesAre DEF Kept, AllTyped, HostTyped
<1> QED
  BY <1>3, <1>4 DEF Texts, Pieces

LEMMA HostHearsKeeps == ASSUME Kept, HostHears PROVE Kept'
<1> DEFINE m == Head(toHost)
<1>1. m \in HostWire /\ Tail(toHost) \in Seq(HostWire)
  BY Taken DEF HostHears, Kept, AllTyped, WiresTyped
<1>2. toHost' \in Seq(HostWire) /\ UNCHANGED <<pinned, docVars, userVars, storeVars, checkVars, bounds>>
  BY <1>1 DEF HostHears, Running
<1>3. PanelTyped' /\ BoundsTyped' /\ Standing'
  BY <1>2 DEF Kept, AllTyped, PanelTyped, BoundsTyped, Standing, docVars, userVars, storeVars, checkVars, bounds
<1>4. ask' \in [Requests -> Asked] => DocTyped'
  BY <1>2 DEF Kept, AllTyped, DocTyped, docVars
<1>5. CASE m.type = "ready"
  <2>1. ready' = TRUE /\ UNCHANGED <<loading, active, forgotten, page, marks, toEmbed, ask>>
    BY <1>5 DEF HostHears
  <2> QED
    BY <1>2, <1>3, <1>4, <2>1 DEF Kept, AllTyped, HostTyped, WiresTyped, DocTyped
<1>6. CASE m.type = "findings"
  <2>1. marks' = Marked(m.field, m.spans) /\ UNCHANGED <<loading, ready, active, forgotten, page, toEmbed, ask>>
    BY <1>6 DEF HostHears
  <2>2. marks' \subseteq Mark
    BY <1>1, <1>6, <2>1, HostWires DEF Marked, Kept, AllTyped, HostTyped
  <2> QED
    BY <1>2, <1>3, <1>4, <2>1, <2>2 DEF Kept, AllTyped, HostTyped, WiresTyped, DocTyped
<1>7. CASE m.type = "applyReplacement" /\ active # m.field
  <2> DEFINE answer == ResultMsg(m.request, m.field, FALSE, IF active = None THEN page[m.field] ELSE <<>>)
  <2>1. Posts(<<answer>>) /\ UNCHANGED <<hostVars, ask>>
    BY <1>7 DEF HostHears
  <2>2. answer \in EmbedWire
    BY <1>1, <1>7, HostWires, HostMessages, EmptyText DEF Kept, AllTyped, HostTyped
  <2>3. toEmbed' \in Seq(EmbedWire)
    <3> HIDE DEF answer
    <3>1. <<answer>> \in Seq(EmbedWire)
      BY <2>2
    <3> QED
      BY <2>1, <3>1, PostsTyped
  <2> QED
    BY <1>2, <1>3, <1>4, <2>1, <2>3 DEF Kept, AllTyped, HostTyped, WiresTyped, DocTyped, hostVars
<1>8. CASE m.type = "applyReplacement" /\ active = m.field
  <2>1. PICK o \in Outcomes(active, page[active], m) :
           /\ o.text \in Texts
           /\ page' = [page EXCEPT ![active] = o.text]
           /\ Posts(Answering(active, m, o))
           /\ ask' = Carried(m, o)
           /\ UNCHANGED <<loading, ready, active, forgotten, marks>>
    BY <1>8, HostHearsApply
  <2>2. m.field \in Fields /\ m.request \in Requests
    BY <1>1, <1>8, HostWires
  <2>3. o.ok \in BOOLEAN /\ o.seen \in Texts
    BY <1>1, <1>8, <2>1, <2>2, OutcomesAre DEF Kept, AllTyped, HostTyped
  <2>4. toEmbed' \in Seq(EmbedWire)
    BY <1>8, <2>1, <2>2, <2>3, AnsweringTyped, PostsTyped DEF Kept, AllTyped
  <2>5. page' \in [Fields -> Texts]
    BY <2>1 DEF Kept, AllTyped, HostTyped
  <2>6. ask' \in [Requests -> Asked]
    BY <1>1, <1>8, <2>1, CarriedIs
  <2> QED
    BY <1>2, <1>3, <1>4, <2>1, <2>4, <2>5, <2>6 DEF Kept, AllTyped, HostTyped, WiresTyped
<1> QED
  BY <1>1, <1>5, <1>6, <1>7, <1>8, HostWires

(* What the embed makes of a message. *)
LEMMA OnConnectedKeeps ==
  ASSUME Kept, NEW m \in EmbedWire, m.type = "fieldConnected", OnConnected(m), UNCHANGED <<pinned, userVars>>
  PROVE  DocTyped' /\ PanelTyped' /\ Standing' /\ toHost' \in Seq(HostWire)
<1>1. m.field \in Fields /\ m.text \in Texts
  BY EmbedWires
<1>2. /\ items' = {} /\ shown' = {} /\ selected' = None /\ toHost' \in Seq(HostWire)
      /\ ask' \in [Requests -> Asked]
  BY ResetKeeps DEF OnConnected, Kept
<1> QED
  BY <1>1, <1>2 DEF OnConnected, Kept, AllTyped, DocTyped, PanelTyped, Standing, userVars

LEMMA OnDisconnectedKeeps ==
  ASSUME Kept, NEW m \in EmbedWire, OnDisconnected(m), UNCHANGED <<pinned, userVars>>
  PROVE  DocTyped' /\ PanelTyped' /\ Standing' /\ toHost' \in Seq(HostWire)
<1>1. CASE m.field # field
  BY <1>1 DEF OnDisconnected, Kept, AllTyped, DocTyped, PanelTyped, WiresTyped, Standing, docVars,
              storeVars, checkVars, userVars
<1>2. CASE m.field = field
  <2>1. /\ items' = {} /\ shown' = {} /\ selected' = None /\ toHost' \in Seq(HostWire)
        /\ ask' \in [Requests -> Asked]
    BY <1>2, ResetKeeps DEF OnDisconnected, Kept
  <2> QED
    BY <1>2, <2>1, EmptyText DEF OnDisconnected, Kept, AllTyped, DocTyped, PanelTyped, Standing, userVars
<1> QED
  BY <1>1, <1>2

LEMMA OnChangedKeeps ==
  ASSUME Kept, NEW m \in EmbedWire, m.type = "textChanged", OnChanged(m), UNCHANGED <<pinned, userVars>>
  PROVE  DocTyped' /\ PanelTyped' /\ Standing' /\ toHost' \in Seq(HostWire)
<1>1. m.text \in Texts
  BY EmbedWires
<1>2. UNCHANGED <<pinned, userVars, field, selected, publishing, connected, ask, checkVars>>
  BY DEF OnChanged
<1>3. CASE m.field = field
  <2>1. Sync(m.text)
    BY <1>3 DEF OnChanged
  <2>2. /\ buffer' = m.text /\ items' \subseteq Finding /\ shown' \subseteq Finding /\ toHost' \in Seq(HostWire)
        /\ \A item \in items' : Stands(item, buffer')
    BY <1>1, <2>1, SyncKeeps DEF Kept
  <2> QED
    BY <1>1, <1>2, <2>2 DEF Kept, AllTyped, DocTyped, PanelTyped, Standing, userVars, checkVars
<1>4. CASE m.field # field
  <2>1. UNCHANGED <<buffer, items, shown, toHost>>
    BY <1>4 DEF OnChanged
  <2> QED
    BY <1>2, <2>1 DEF Kept, AllTyped, DocTyped, PanelTyped, WiresTyped, Standing, userVars, checkVars
<1> QED
  BY <1>3, <1>4

LEMMA SettledTyped ==
  ASSUME Kept, NEW r \in Requests, NEW answer \in {"ok", "refused"}
  PROVE  Settled(r, answer) \in [Requests -> Asked]
<1> DEFINE q == ask[r]
           st == IF q.state = "waiting" THEN answer ELSE q.state
<1>1. Settled(r, answer) = [ask EXCEPT ![r] = [q EXCEPT !.state = st]]
  BY DEF Settled
<1>2. q \in Asked
  BY DEF Kept, AllTyped, DocTyped
<1>3. st \in {"none", "waiting", "ok", "refused", "gaveUp"}
  BY <1>2 DEF Asked
<1> HIDE DEF q, st
<1>4. [q EXCEPT !.state = st] \in Asked
  BY <1>2, <1>3 DEF Asked
<1> QED
  BY <1>1, <1>4 DEF Kept, AllTyped, DocTyped

LEMMA OnResultKeeps ==
  ASSUME Kept, NEW m \in EmbedWire, m.type = "replaceResult", OnResult(m), UNCHANGED <<pinned, userVars>>
  PROVE  DocTyped' /\ PanelTyped' /\ Standing' /\ toHost' \in Seq(HostWire)
<1>1. m.text \in Texts /\ m.request \in Requests
  BY EmbedWires
<1>2. UNCHANGED <<pinned, userVars, field, selected, publishing, connected, checkVars>>
  BY DEF OnResult
<1>3. CASE m.field = field
  <2>1. ask' = Settled(m.request, IF m.ok THEN "ok" ELSE "refused") /\ Sync(m.text)
    BY <1>3 DEF OnResult
  <2>2. /\ buffer' = m.text /\ items' \subseteq Finding /\ shown' \subseteq Finding /\ toHost' \in Seq(HostWire)
        /\ \A item \in items' : Stands(item, buffer')
    BY <1>1, <2>1, SyncKeeps DEF Kept
  <2>3. ask' \in [Requests -> Asked]
    BY <1>1, <2>1, SettledTyped
  <2> QED
    BY <1>1, <1>2, <2>2, <2>3 DEF Kept, AllTyped, DocTyped, PanelTyped, Standing, userVars, checkVars
<1>4. CASE m.field # field
  <2>1. UNCHANGED <<ask, buffer, items, shown, toHost>>
    BY <1>4 DEF OnResult
  <2> QED
    BY <1>2, <2>1 DEF Kept, AllTyped, DocTyped, PanelTyped, WiresTyped, Standing, userVars, checkVars
<1> QED
  BY <1>3, <1>4

LEMMA OnClickedKeeps ==
  ASSUME Kept, NEW m \in EmbedWire, m.type = "markingClicked", OnClicked(m), UNCHANGED <<pinned, userVars>>
  PROVE  DocTyped' /\ PanelTyped' /\ Standing' /\ toHost' \in Seq(HostWire)
<1>1. m.id \in Id
  BY EmbedWires
<1> QED
  BY <1>1 DEF OnClicked, Kept, AllTyped, DocTyped, PanelTyped, WiresTyped, Standing, userVars, checkVars, storeVars

LEMMA EmbedHearsKeeps == ASSUME Kept, EmbedHears PROVE Kept'
<1> DEFINE m == Head(toEmbed)
<1>1. m \in EmbedWire /\ Tail(toEmbed) \in Seq(EmbedWire)
  BY Taken DEF EmbedHears, Kept, AllTyped, WiresTyped
<1>2. toEmbed' \in Seq(EmbedWire) /\ UNCHANGED <<bounds, hostVars, userVars>>
  BY <1>1 DEF EmbedHears, Running
<1>3. HostTyped' /\ BoundsTyped'
  BY <1>2 DEF Kept, AllTyped, HostTyped, BoundsTyped, bounds, hostVars
<1>4. DocTyped' /\ PanelTyped' /\ Standing' /\ toHost' \in Seq(HostWire)
  <2>1. CASE m.type = "hello"
    <3>1. pinned' = TRUE /\ SendsAfter(<<Ready>>) /\ UNCHANGED <<docVars, storeVars, ask, checkVars>>
      BY <2>1 DEF EmbedHears
    <3>2. <<Ready>> \in Seq(HostWire)
      BY DEF HostWire, Spoken, Ready
    <3>3. toHost' \in Seq(HostWire)
      BY <3>1, <3>2, Posted DEF SendsAfter, Kept, AllTyped, WiresTyped
    <3> QED
      BY <1>2, <3>1, <3>3 DEF Kept, AllTyped, DocTyped, PanelTyped, Standing, docVars, storeVars, checkVars, userVars
  <2>2. CASE m.type # "hello" /\ ~pinned
    <3>1. UNCHANGED <<pinned, docVars, storeVars, ask, checkVars, toHost>>
      BY <2>2 DEF EmbedHears
    <3> QED
      BY <1>2, <3>1 DEF Kept, AllTyped, DocTyped, PanelTyped, WiresTyped, Standing,
             docVars, storeVars, checkVars, userVars
  <2>3. CASE m.type = "fieldConnected" /\ pinned
    <3>1. OnConnected(m) /\ UNCHANGED pinned
      BY <2>3 DEF EmbedHears
    <3> QED
      BY <1>1, <1>2, <2>3, <3>1, OnConnectedKeeps
  <2>4. CASE m.type = "fieldDisconnected" /\ pinned
    <3>1. OnDisconnected(m) /\ UNCHANGED pinned
      BY <2>4 DEF EmbedHears
    <3> QED
      BY <1>1, <1>2, <3>1, OnDisconnectedKeeps
  <2>5. CASE m.type = "textChanged" /\ pinned
    <3>1. OnChanged(m) /\ UNCHANGED pinned
      BY <2>5 DEF EmbedHears
    <3> QED
      BY <1>1, <1>2, <2>5, <3>1, OnChangedKeeps
  <2>6. CASE m.type = "replaceResult" /\ pinned
    <3>1. OnResult(m) /\ UNCHANGED pinned
      BY <2>6 DEF EmbedHears
    <3> QED
      BY <1>1, <1>2, <2>6, <3>1, OnResultKeeps
  <2>7. CASE m.type = "markingClicked" /\ pinned
    <3>1. OnClicked(m) /\ UNCHANGED pinned
      BY <2>7 DEF EmbedHears
    <3> QED
      BY <1>1, <1>2, <2>7, <3>1, OnClickedKeeps
  <2> QED
    BY <1>1, <2>1, <2>2, <2>3, <2>4, <2>5, <2>6, <2>7, EmbedWires
<1> QED
  BY <1>2, <1>3, <1>4 DEF Kept, AllTyped, WiresTyped

-----------------------------------------------------------------------------
(* What the user does. *)

LEMMA SelectKeeps == ASSUME Kept, Select PROVE Kept'
<1>1. PICK i \in shown : selected' = (IF selected = i.id THEN None ELSE i.id)
  BY DEF Select
<1>2. selected' \in Id \cup {None}
  BY <1>1 DEF Kept, AllTyped, PanelTyped, Finding
<1> QED
  BY <1>2 DEF Select, Acting, HostRests, Kept, AllTyped, HostTyped, WiresTyped, DocTyped, PanelTyped, BoundsTyped,
              Standing, hostVars, userVars, storeVars, checkVars

(* A request is the first that was not made yet, and asks for what it shows.  *)
LEMMA SendReplaceIs ==
  ASSUME Kept, NEW item \in Finding, NEW from \in Nat, NEW to \in Nat, from <= to, to <= Len(buffer),
         NEW insert \in Inserts, SendReplace(item, from, to, insert)
  PROVE  \E r \in Requests :
           LET said == Slice(buffer, from, to) IN
           /\ ask[r].state = "none" /\ field \in Fields /\ said \in Pieces
           /\ ask' = [ask EXCEPT ![r] = [state |-> "waiting", id |-> item.id, field |-> field,
                                         said |-> said, met |-> FALSE, applied |-> FALSE]]
           /\ SendsAfter(<<[type |-> "applyReplacement", request |-> r, field |-> field,
                            from |-> from, to |-> to, insert |-> insert, expected |-> said]>>)
           /\ [type |-> "applyReplacement", request |-> r, field |-> field,
               from |-> from, to |-> to, insert |-> insert, expected |-> said] \in HostWire
           /\ [state |-> "waiting", id |-> item.id, field |-> field, said |-> said, met |-> FALSE, applied |-> FALSE] \in Asked
<1> DEFINE r == Min(Fresh)
           said == Slice(buffer, from, to)
<1>1. load.requests \in Nat /\ load.requests <= MaxRequests /\ MaxRequests \in Nat
  BY LoadsAre, BoundsAssumption DEF Kept, AllTyped, BoundsTyped
<1>2. Fresh \subseteq Nat /\ Fresh # {}
  BY <1>1 DEF Fresh, SendReplace
<1>3. r \in Fresh
  BY <1>2, MinIsIn
<1>4. r \in Requests /\ ask[r].state = "none"
  BY <1>1, <1>3 DEF Fresh, Requests
<1>5. field \in Fields
  BY DEF SendReplace, Kept, AllTyped, DocTyped
<1>6. said \in Pieces
  BY SliceIs, EmptyText DEF Kept, AllTyped, DocTyped
<1>7. /\ ask' = [ask EXCEPT ![r] = [state |-> "waiting", id |-> item.id, field |-> field,
                                    said |-> said, met |-> FALSE, applied |-> FALSE]]
      /\ SendsAfter(<<[type |-> "applyReplacement", request |-> r, field |-> field,
                       from |-> from, to |-> to, insert |-> insert, expected |-> said]>>)
  BY DEF SendReplace
<1> HIDE DEF r, said
<1>8. [type |-> "applyReplacement", request |-> r, field |-> field,
       from |-> from, to |-> to, insert |-> insert, expected |-> said] \in HostWire
  BY <1>4, <1>5, <1>6 DEF HostWire, Wanted
<1>9. [state |-> "waiting", id |-> item.id, field |-> field, said |-> said, met |-> FALSE, applied |-> FALSE] \in Asked
  BY <1>5, <1>6 DEF Asked, Finding
<1> QED
  BY <1>4, <1>5, <1>6, <1>7, <1>8, <1>9 DEF said

(* Both ways to ask for a replacement.                                      *)
Wants(item) ==
  /\ user # None /\ item \in Finding /\ item \in items
  /\ \E from, to \in Nat, insert \in Inserts :
       from <= to /\ to <= Len(buffer) /\ SendReplace(item, from, to, insert)
  /\ Opened(item) /\ Running /\ HostRests /\ UNCHANGED <<pinned, userVars, storeVars, checkVars>>

LEMMA ApplySuggestionWants ==
  ASSUME Kept, ApplySuggestion
  PROVE  \E item \in Offered : Wants(item)
<1>1. PICK i \in Offered, insert \in Inserts : SendReplace(i, i.from, i.to, insert) /\ Opened(i)
  BY DEF ApplySuggestion
<1>2. i \in Finding /\ i \in items /\ Stands(i, buffer)
  BY <1>1 DEF Offered, Kept, AllTyped, DocTyped, Standing
<1>3. i.from \in Nat /\ i.to \in Nat /\ i.from <= i.to /\ i.to <= Len(buffer)
  BY <1>2 DEF Finding, Stands
<1> QED
  BY <1>1, <1>2, <1>3 DEF ApplySuggestion, Wants

LEMMA ApplyRewriteWants ==
  ASSUME Kept, ApplyRewrite
  PROVE  \E item \in Offered : Wants(item)
<1>1. PICK i \in Offered, insert \in Inserts, original \in Originals :
        /\ Around(i, original) # {}
        /\ LET u == Min(Around(i, original))
           IN SendReplace(i, u, u + Len(original), insert)
        /\ Opened(i)
  BY DEF ApplyRewrite
<1>2. i \in Finding /\ i \in items
  BY <1>1 DEF Offered, Kept, AllTyped, DocTyped
<1>3. Len(original) \in Nat /\ Len(buffer) \in Nat
  BY <1>1, InsertsAreTexts, EmptyText, LenProperties DEF Pieces, Kept, AllTyped, DocTyped
<1> DEFINE u == Min(Around(i, original))
<1>4. Around(i, original) \subseteq 0..(Len(buffer) - Len(original))
  BY DEF Around
<1>5. u \in Around(i, original)
  <2>1. Around(i, original) \in SUBSET Nat
    BY <1>3, <1>4
  <2> QED
    BY <1>1, <2>1, MinIsIn
<1> HIDE DEF u
<1>6. u \in Nat /\ u + Len(original) \in Nat /\ u <= u + Len(original) /\ u + Len(original) <= Len(buffer)
  BY <1>3, <1>4, <1>5
<1>7. SendReplace(i, u, u + Len(original), insert)
  BY <1>1 DEF u
<1> QED
  BY <1>1, <1>2, <1>6, <1>7 DEF ApplyRewrite, Wants

LEMMA WantsKeeps == ASSUME Kept, NEW item \in Offered, Wants(item) PROVE Kept'
<1>1. PICK from \in Nat, to \in Nat, insert \in Inserts :
        from <= to /\ to <= Len(buffer) /\ SendReplace(item, from, to, insert)
  BY DEF Wants
<1>2. PICK m \in HostWire, r \in Requests, a \in Asked :
        SendsAfter(<<m>>) /\ ask' = [ask EXCEPT ![r] = a]
  <2>1. item \in Finding
    BY DEF Wants
  <2> QED
    <3> DEFINE said == Slice(buffer, from, to)
               Sent(r) == [type |-> "applyReplacement", request |-> r, field |-> field,
                           from |-> from, to |-> to, insert |-> insert, expected |-> said]
               Waiting == [state |-> "waiting", id |-> item.id, field |-> field, said |-> said, met |-> FALSE, applied |-> FALSE]
    <3>1. \E r \in Requests : /\ ask' = [ask EXCEPT ![r] = Waiting]
                              /\ SendsAfter(<<Sent(r)>>) /\ Sent(r) \in HostWire /\ Waiting \in Asked
      BY <1>1, <2>1, SendReplaceIs
    <3> HIDE DEF Sent, Waiting
    <3> QED
      BY <3>1
<1>3. <<m>> \in Seq(HostWire)
  OBVIOUS
<1>4. toHost' \in Seq(HostWire)
  BY <1>2, <1>3, Posted DEF SendsAfter, Kept, AllTyped, WiresTyped
<1>5. ask' \in [Requests -> Asked]
  BY <1>2 DEF Kept, AllTyped, DocTyped
<1>6. selected' \in Id
  BY DEF Wants, Opened, Finding
<1> QED
  BY <1>4, <1>5, <1>6 DEF Wants, Opened, Running, HostRests,
     Kept, AllTyped, HostTyped, WiresTyped, DocTyped, PanelTyped,
              BoundsTyped, Standing, hostVars, userVars, storeVars, checkVars, bounds

LEMMA TimeoutKeeps == ASSUME Kept, NEW r \in Requests, Timeout(r) PROVE Kept'
<1>1. ask' = [ask EXCEPT ![r] = [ask[r] EXCEPT !.state = "gaveUp"]]
  BY DEF Timeout
<1>2. ask[r] \in Asked
  BY DEF Kept, AllTyped, DocTyped
<1>3. [ask[r] EXCEPT !.state = "gaveUp"] \in Asked
  BY <1>2 DEF Asked
<1>4. ask' \in [Requests -> Asked]
  BY <1>1, <1>3 DEF Kept, AllTyped, DocTyped
<1> QED
  BY <1>4 DEF Timeout, Running, HostRests, Kept, AllTyped, HostTyped, WiresTyped, DocTyped, PanelTyped,
              BoundsTyped, Standing, hostVars, docVars, userVars, storeVars, checkVars, bounds

LEMMA CheckKeeps == ASSUME Kept, Check PROVE Kept'
<1>1. PICK sources \in SUBSET Sources : RunCheck(sources)
  BY DEF Check, Sources
<1>2. /\ items' \subseteq Finding /\ shown' \subseteq Finding /\ selected' \in Id \cup {None}
      /\ toHost' \in Seq(HostWire) /\ check' \in Checked
      /\ BoundsTyped'
      /\ \A item \in items' : Stands(item, buffer)
  BY <1>1, RunCheckKeeps
<1> QED
  BY <1>2 DEF Check, HostRests, Kept, AllTyped, HostTyped, WiresTyped, DocTyped, PanelTyped, Standing,
       hostVars, userVars

LEMMA EffectsKeeps == ASSUME Kept, Effects PROVE Kept'
<1>1. CASE connected = None
  <2>1. check' = Nothing /\ Running /\ UNCHANGED <<items, selected, shown, toHost>>
    BY <1>1 DEF Effects, Aborted
  <2>2. check' \in Checked
    BY <2>1, EmptyText DEF Nothing, Checked
  <2> QED
    BY <2>1, <2>2 DEF Effects, Running, HostRests, Kept, AllTyped, HostTyped, WiresTyped, DocTyped, PanelTyped,
                BoundsTyped, Standing, hostVars, userVars, bounds
<1>2. CASE connected # None
  <2>1. RunCheck({"rule"}) /\ {"rule"} \in SUBSET Sources
    BY <1>2 DEF Effects, Sources
  <2>2. /\ items' \subseteq Finding /\ shown' \subseteq Finding /\ selected' \in Id \cup {None}
        /\ toHost' \in Seq(HostWire) /\ check' \in Checked
        /\ BoundsTyped'
        /\ \A item \in items' : Stands(item, buffer)
    BY <2>1, RunCheckKeeps
  <2> QED
    BY <2>2 DEF Effects, HostRests, Kept, AllTyped, HostTyped, WiresTyped, DocTyped, PanelTyped,
         Standing, hostVars, userVars
<1> QED
  BY <1>1, <1>2

(* An answer is merged onto the text that was checked, or changes nothing.   *)
LEMMA AnswerIs ==
  ASSUME Kept, Answer
  PROVE  /\ \/ /\ buffer = check.text
               /\ \E s \in Sources : /\ Merge({s}, Found(s, check.text))
                                     /\ \A f \in Found(s, check.text) : f.source \in Sources /\ f.said \in Pieces
            \/ UNCHANGED <<items, selected, shown, toHost>>
         /\ check' = Nothing \/ \E todo \in SUBSET Sources : check' = [check EXCEPT !.todo = todo]
<1> DEFINE s == IF "rule" \in check.todo THEN "rule" ELSE "llm"
           rest == check.todo \ {s}
<1>1. s \in Sources
  BY DEF Sources
<1>2. \A f \in Found(s, check.text) : f.source \in Sources /\ f.said \in Pieces
  BY <1>1, FoundAre DEF Kept, AllTyped, PanelTyped, Checked
<1>3. rest \in SUBSET Sources
  BY DEF Kept, AllTyped, PanelTyped, Checked
<1>4. /\ IF buffer = check.text THEN Merge({s}, Found(s, check.text))
         ELSE UNCHANGED <<items, selected, shown, toHost>>
      /\ check' = IF rest = {} THEN Nothing ELSE [check EXCEPT !.todo = rest]
  BY DEF Answer
<1> HIDE DEF s, rest
<1> QED
  BY <1>1, <1>2, <1>3, <1>4

LEMMA AnswerKeeps == ASSUME Kept, Answer PROVE Kept'
<1>1. check' \in Checked
  <2>1. Nothing \in Checked
    BY EmptyText DEF Nothing, Checked
  <2>2. \A todo \in SUBSET Sources : [check EXCEPT !.todo = todo] \in Checked
    BY DEF Kept, AllTyped, PanelTyped, Checked
  <2> QED
    BY <2>1, <2>2, AnswerIs
<1>2. /\ items' \subseteq Finding /\ shown' \subseteq Finding /\ selected' \in Id \cup {None}
      /\ toHost' \in Seq(HostWire)
      /\ \A item \in items' : Stands(item, buffer)
  <2>1. CASE UNCHANGED <<items, selected, shown, toHost>>
    BY <2>1 DEF Kept, AllTyped, DocTyped, PanelTyped, WiresTyped, Standing
  <2>2. ASSUME NEW s \in Sources, Merge({s}, Found(s, check.text)),
               \A f \in Found(s, check.text) : f.source \in Sources /\ f.said \in Pieces
        PROVE  /\ items' \subseteq Finding /\ shown' \subseteq Finding /\ selected' \in Id \cup {None}
               /\ toHost' \in Seq(HostWire)
               /\ \A item \in items' : Stands(item, buffer)
    BY <2>2, MergeKeeps DEF Kept
  <2> QED
    BY <2>1, <2>2, AnswerIs
<1> QED
  BY <1>1, <1>2 DEF Answer, Running, HostRests,
     Kept, AllTyped, HostTyped, WiresTyped, DocTyped, PanelTyped, BoundsTyped,
              Standing, hostVars, userVars, bounds

LEMMA SignInKeeps == ASSUME Kept, NEW u \in Users, SignIn(u) PROVE Kept'
<1>1. /\ items' = {} /\ shown' = {} /\ selected' = None /\ toHost' \in Seq(HostWire)
      /\ ask' \in [Requests -> Asked]
  BY ResetKeeps DEF SignIn, Kept
<1>2. Nothing \in Checked
  BY EmptyText DEF Nothing, Checked
<1> QED
  BY <1>1, <1>2 DEF SignIn, Aborted, Acting, HostRests, Kept, AllTyped, HostTyped, WiresTyped, DocTyped, PanelTyped, BoundsTyped,
              Standing, hostVars

LEMMA RestoreKeeps == ASSUME Kept, Restore PROVE Kept'
BY DEF Restore, Running, HostRests, Kept, AllTyped, HostTyped, WiresTyped, DocTyped, PanelTyped, BoundsTyped,
       Standing, hostVars, docVars, storeVars, bounds

LEMMA SignOutKeeps == ASSUME Kept, SignOut PROVE Kept'
<1>1. /\ items' = {} /\ shown' = {} /\ selected' = None /\ toHost' \in Seq(HostWire)
      /\ ask' \in [Requests -> Asked]
  BY ResetKeeps DEF SignOut, Kept
<1>2. Nothing \in Checked
  BY EmptyText DEF Nothing, Checked
<1> QED
  BY <1>1, <1>2 DEF SignOut, Aborted, Acting, HostRests,
     Kept, AllTyped, HostTyped, WiresTyped, DocTyped, PanelTyped, BoundsTyped,
              Standing, hostVars

LEMMA ReloadKeeps == ASSUME Kept, Reload PROVE Kept'
<1>1. Nothing \in Checked /\ NoRequest \in Asked /\ <<>> \in Texts
  BY EmptyText DEF Nothing, Checked, NoRequest, Asked
<1>2. toEmbed' \in Seq(EmbedWire)
  BY EmptySeq DEF Reload
<1> QED
  BY <1>1, <1>2 DEF Reload, Acting, Kept, AllTyped, HostTyped, WiresTyped, DocTyped, PanelTyped, BoundsTyped, Standing

LEMMA RestKeeps == ASSUME Kept, UNCHANGED vars PROVE Kept'
BY DEF vars, Kept, AllTyped, HostTyped, WiresTyped, DocTyped, PanelTyped, BoundsTyped,
       Standing, hostVars, docVars, userVars, storeVars, checkVars, bounds

LEMMA KeptInit == Init => Kept
<1> SUFFICES ASSUME Init PROVE Kept
  OBVIOUS
<1>1. /\ load.owner \in Users \cup {None} /\ load.field \in Fields \cup {None}
      /\ load.page \in [Fields -> Texts]
  BY LoadsAre DEF Init
<1>2. Nothing \in Checked /\ NoRequest \in Asked /\ <<>> \in Texts
  BY EmptyText DEF Nothing, Checked, NoRequest, Asked
<1>3. <<>> \in Seq(EmbedWire) /\ <<>> \in Seq(HostWire)
  BY EmptySeq
<1>4. buffer \in Texts
  BY <1>1, <1>2 DEF Init
<1> QED
  BY <1>1, <1>2, <1>3, <1>4 DEF Init, Kept, AllTyped, HostTyped, WiresTyped, DocTyped, PanelTyped, BoundsTyped, Standing

LEMMA KeptNext == Kept /\ [Next]_vars => Kept'
<1> SUFFICES ASSUME Kept, [Next]_vars PROVE Kept'
  OBVIOUS
<1> QED
  BY FrameLoadsKeeps, HelloAgainKeeps, LeaveKeeps, ClickKeeps, HostHearsKeeps, EmbedHearsKeeps, ConnectKeeps,
     TypeKeeps, SelectKeeps, ApplySuggestionWants, ApplyRewriteWants, WantsKeeps, TimeoutKeeps, CheckKeeps,
     EffectsKeeps, AnswerKeeps, SignInKeeps, RestoreKeeps, SignOutKeeps, ReloadKeeps, RestKeeps DEF Next

LEMMA KeptIsTyped == Kept => TypeOK
<1> SUFFICES ASSUME Kept PROVE TypeOK
  OBVIOUS
<1>1. \A item \in items : item.from < item.to /\ item.id \in Id
  BY DEF Kept, AllTyped, DocTyped, Standing, Stands, Finding
<1> QED
  BY <1>1 DEF TypeOK, Kept, AllTyped, HostTyped, DocTyped, PanelTyped

(* Host, embed and queues keep their shape; so do the requests, and no text   *)
(* outgrows its bound.                                                     *)
THEOREM TypeCorrect == Spec => []TypeOK
<1>1. Spec => []Kept
  BY KeptInit, KeptNext, PTL DEF Spec
<1> QED
  BY <1>1, KeptIsTyped, PTL

-----------------------------------------------------------------------------
(* The panel is the user's own.  While the embed publishes, the panel shows  *)
(* its field and its findings; signed out, nothing is left to publish.       *)

Owned ==
  /\ PanelIsOwn
  /\ publishing => connected = field /\ shown = items
  /\ ~publishing => items = {} /\ shown = {}
  /\ user # None \/ account # None => publishing
  /\ user = None => items = {} /\ check = Nothing
  /\ field = None => buffer = <<>> /\ items = {}
  /\ ~pinned => field = None
  /\ check # Nothing => check.text # <<>> /\ check.user = user

\* No request is left waiting.
LEMMA GivenUp ==
  ASSUME Kept, ResetConnection
  PROVE  /\ items' = {} /\ shown' = {}
         /\ \A r \in Requests : ask'[r].state # "waiting"
<1>1. \A r \in Requests : ask[r] \in Asked
  BY DEF Kept, AllTyped, DocTyped
<1>2. ask' = AllGivenUp
  BY DEF ResetConnection
<1>3. \A r \in Requests : ask'[r] = IF ask[r].state = "waiting" THEN [ask[r] EXCEPT !.state = "gaveUp"] ELSE ask[r]
  BY <1>2 DEF AllGivenUp
<1>4. \A r \in Requests : ask'[r].state # "waiting"
  BY <1>1, <1>3 DEF Asked
<1> QED
  BY <1>4 DEF ResetConnection

LEMMA OwnedAtRest ==
  ASSUME Owned, UNCHANGED <<pinned, docVars, userVars, storeVars, checkVars>>,
         \A r \in Requests : ask'[r].state = ask[r].state
  PROVE  Owned'
BY DEF Owned, PanelIsOwn, docVars, userVars, storeVars, checkVars

LEMMA HostMovesOwned ==
  ASSUME Owned, EmbedRests
  PROVE  Owned'
BY OwnedAtRest DEF EmbedRests

LEMMA HostHearsOwned == ASSUME Kept, Owned, HostHears PROVE Owned'
<1> DEFINE m == Head(toHost)
<1>1. m \in HostWire
  BY Taken DEF HostHears, Kept, AllTyped, WiresTyped
<1>2. UNCHANGED <<pinned, docVars, userVars, storeVars, checkVars>>
  BY DEF HostHears
<1>3. CASE m.type = "applyReplacement" /\ active = m.field
  <2>1. \A r \in Requests : ask'[r].state = ask[r].state
    BY <1>1, <1>3, HostHearsApply, CarriedIs
  <2> QED
    BY <1>2, <2>1, OwnedAtRest
<1>4. CASE ~(m.type = "applyReplacement" /\ active = m.field)
  <2>1. UNCHANGED ask
    BY <1>1, <1>4, HostWires DEF HostHears
  <2> QED
    BY <1>2, <2>1, OwnedAtRest
<1> QED
  BY <1>3, <1>4

LEMMA SyncOwned ==
  ASSUME Kept, Owned, field # None, NEW t \in Texts, Sync(t),
         UNCHANGED <<pinned, field, publishing, connected, userVars, checkVars>>,
         \A r \in Requests : ask'[r].state = "waiting" => ask[r].state = "waiting"
  PROVE  Owned'
<1>1. \A item \in items' : \E i \in items : i.user = item.user
  BY SyncKeeps DEF Kept
<1>2. (items' = items /\ shown' = shown) \/ (IF publishing THEN shown' = items' ELSE shown' = shown)
  BY DEF Sync
<1>3. items = {} => items' = {}
  BY <1>1
<1>4. CASE publishing
  <2>1. shown' = items'
    BY <1>2, <1>4 DEF Owned
  <2>2. \A item \in items' \cup shown' : item.user = user
    BY <1>1, <2>1 DEF Owned, PanelIsOwn
  <2> QED
    BY <1>3, <1>4, <2>1, <2>2 DEF Owned, PanelIsOwn, userVars, checkVars
<1>5. CASE ~publishing
  <2>1. items' = {} /\ shown' = {}
    BY <1>2, <1>3, <1>5 DEF Owned
  <2> QED
    BY <1>5, <2>1 DEF Owned, PanelIsOwn, userVars, checkVars
<1> QED
  BY <1>4, <1>5 DEF Kept, AllTyped, DocTyped

LEMMA SettledStates ==
  ASSUME Kept, NEW q \in Requests, NEW answer \in {"ok", "refused"}
  PROVE  /\ Settled(q, answer)[q].state = IF ask[q].state = "waiting" THEN answer ELSE ask[q].state
         /\ LET b == Settled(q, answer)[q]
            IN b.met = ask[q].met /\ b.applied = ask[q].applied /\ b.field = ask[q].field
         /\ \A r \in Requests : r # q => Settled(q, answer)[r] = ask[r]
<1>1. ask[q] \in Asked
  BY DEF Kept, AllTyped, DocTyped
<1> QED
  BY <1>1 DEF Settled, Asked, Kept, AllTyped, DocTyped

LEMMA EmbedHearsOwned == ASSUME Kept, Owned, EmbedHears PROVE Owned'
<1> DEFINE m == Head(toEmbed)
<1>1. m \in EmbedWire
  BY Taken DEF EmbedHears, Kept, AllTyped, WiresTyped
<1>2. UNCHANGED userVars
  BY DEF EmbedHears
<1>3. CASE m.type = "hello"
  <2>1. pinned' = TRUE /\ UNCHANGED <<docVars, storeVars, ask, checkVars>>
    BY <1>3 DEF EmbedHears
  <2> QED
    BY <1>2, <2>1 DEF Owned, PanelIsOwn, docVars, userVars, storeVars, checkVars
<1>4. CASE m.type # "hello" /\ ~pinned
  <2>1. UNCHANGED <<pinned, docVars, storeVars, ask, checkVars>>
    BY <1>4 DEF EmbedHears
  <2> QED
    BY <1>2, <2>1, OwnedAtRest
<1>5. CASE m.type = "fieldConnected" /\ pinned
  <2>1. OnConnected(m) /\ UNCHANGED pinned
    BY <1>5 DEF EmbedHears
  <2>2. items' = {} /\ shown' = {} /\ \A r \in Requests : ask'[r].state # "waiting"
    BY <2>1, GivenUp DEF OnConnected
  <2>3. m.field # None
    BY <1>1, <1>5, EmbedWires, NoneIsNoField
  <2> QED
    BY <1>2, <1>5, <2>1, <2>2, <2>3 DEF OnConnected, Owned, PanelIsOwn, userVars
<1>6. CASE m.type = "fieldDisconnected" /\ pinned
  <2>1. OnDisconnected(m) /\ UNCHANGED pinned
    BY <1>6 DEF EmbedHears
  <2>2. CASE m.field # field
    BY <1>2, <2>1, <2>2, OwnedAtRest DEF OnDisconnected
  <2>3. CASE m.field = field
    <3>1. items' = {} /\ shown' = {} /\ \A r \in Requests : ask'[r].state # "waiting"
      BY <2>1, <2>3, GivenUp DEF OnDisconnected
    <3> QED
      BY <1>2, <1>6, <2>1, <2>3, <3>1 DEF OnDisconnected, Owned, PanelIsOwn, userVars
  <2> QED
    BY <2>2, <2>3
<1>7. CASE m.type = "textChanged" /\ pinned
  <2>1. OnChanged(m) /\ UNCHANGED pinned
    BY <1>7 DEF EmbedHears
  <2>2. m.text \in Texts /\ m.field \in Fields
    BY <1>1, <1>7, EmbedWires
  <2>3. CASE m.field = field
    BY <1>2, <2>1, <2>2, <2>3, SyncOwned, NoneIsNoField DEF OnChanged
  <2>4. CASE m.field # field
    BY <1>2, <2>1, <2>4, OwnedAtRest DEF OnChanged, docVars, storeVars
  <2> QED
    BY <2>3, <2>4
<1>8. CASE m.type = "replaceResult" /\ pinned
  <2>1. OnResult(m) /\ UNCHANGED pinned
    BY <1>8 DEF EmbedHears
  <2>2. m.text \in Texts /\ m.field \in Fields /\ m.request \in Requests
    BY <1>1, <1>8, EmbedWires
  <2>3. CASE m.field = field
    <3>1. ask' = Settled(m.request, IF m.ok THEN "ok" ELSE "refused") /\ Sync(m.text)
      BY <2>1, <2>3 DEF OnResult
    <3>2. \A r \in Requests : ask'[r].state = "waiting" => ask[r].state = "waiting"
      BY <2>2, <3>1, SettledStates
    <3> QED
      BY <1>2, <2>1, <2>2, <2>3, <3>1, <3>2, SyncOwned, NoneIsNoField DEF OnResult
  <2>4. CASE m.field # field
    BY <1>2, <2>1, <2>4, OwnedAtRest DEF OnResult, docVars, storeVars
  <2> QED
    BY <2>3, <2>4
<1>9. CASE m.type = "markingClicked" /\ pinned
  <2>1. OnClicked(m) /\ UNCHANGED pinned
    BY <1>9 DEF EmbedHears
  <2> QED
    BY <1>2, <2>1 DEF OnClicked, Owned, PanelIsOwn, userVars, storeVars, checkVars
<1> QED
  BY <1>1, <1>3, <1>4, <1>5, <1>6, <1>7, <1>8, <1>9, EmbedWires

LEMMA WantsOwned == ASSUME Kept, Owned, NEW item \in Offered, Wants(item) PROVE Owned'
BY DEF Wants, Opened, Owned, PanelIsOwn, userVars, storeVars, checkVars

LEMMA RunCheckOwned ==
  ASSUME Kept, Owned, user # None, connected # None, NEW sources \in SUBSET Sources, RunCheck(sources),
         UNCHANGED <<field, buffer, publishing, pinned, ask, userVars, connected>>
  PROVE  Owned'
<1>1. publishing /\ field # None
  BY DEF Owned, PanelIsOwn
<1>2. /\ items' = shown' /\ \A item \in items' : item \in items \/ item.user = user
      /\ check' # Nothing => check'.text # <<>> /\ check'.user = user
  <2>1. CASE buffer = <<>>
    <3>1. Merge(Sources, {}) /\ check' = Nothing
      BY <2>1 DEF RunCheck
    <3>2. items' = shown' /\ items' = {}
      BY <3>1, MergeKeeps DEF Kept, AllTyped, DocTyped, Finding
    <3> QED
      BY <3>1, <3>2
  <2>2. CASE buffer # <<>>
    <3>1. check' = [todo |-> sources, text |-> buffer, user |-> user] /\ UNCHANGED <<items, selected, shown, toHost>>
      BY <2>2 DEF RunCheck
    <3> QED
      BY <1>1, <2>2, <3>1 DEF Owned
  <2> QED
    BY <2>1, <2>2
<1>3. \A item \in items' \cup shown' : item.user = user
  BY <1>2 DEF Owned, PanelIsOwn
<1> QED
  BY <1>1, <1>2, <1>3 DEF Owned, PanelIsOwn, userVars

LEMMA CheckOwned == ASSUME Kept, Owned, Check PROVE Owned'
<1>1. PICK sources \in SUBSET Sources : RunCheck(sources)
  BY DEF Check, Sources
<1> QED
  BY <1>1, RunCheckOwned DEF Check

LEMMA EffectsOwned == ASSUME Kept, Owned, Effects PROVE Owned'
<1>1. CASE connected = None
  BY <1>1 DEF Effects, Aborted, Owned, PanelIsOwn, userVars
<1>2. CASE connected # None
  <2>1. RunCheck({"rule"}) /\ {"rule"} \in SUBSET Sources
    BY <1>2 DEF Effects, Sources
  <2> QED
    BY <1>2, <2>1, RunCheckOwned DEF Effects
<1> QED
  BY <1>1, <1>2

LEMMA AnswerOwned == ASSUME Kept, Owned, Answer PROVE Owned'
<1>1. check # Nothing /\ user # None /\ publishing
  BY DEF Answer, Owned
<1>2. UNCHANGED <<field, buffer, publishing, pinned, ask, userVars, connected, effect>>
  BY DEF Answer
<1>3. check' # Nothing => check'.text # <<>> /\ check'.user = user
  <2>1. check \in Checked /\ check.text # <<>> /\ check.user = user
    BY <1>1 DEF Owned, Kept, AllTyped, PanelTyped
  <2>2. \A todo \in SUBSET Sources :
          LET c == [check EXCEPT !.todo = todo] IN c.text = check.text /\ c.user = check.user
    BY <2>1 DEF Checked
  <2> QED
    BY <2>1, <2>2, AnswerIs
<1>4. CASE UNCHANGED <<items, selected, shown, toHost>>
  BY <1>1, <1>2, <1>3, <1>4 DEF Owned, PanelIsOwn, userVars
<1>5. ASSUME NEW s \in Sources, Merge({s}, Found(s, check.text)), buffer = check.text,
             \A f \in Found(s, check.text) : f.source \in Sources /\ f.said \in Pieces
      PROVE  Owned'
  <2>1. items' = shown' /\ \A item \in items' : item \in items \/ item.user = check.user
    BY <1>5, MergeKeeps DEF Kept
  <2>2. \A item \in items' \cup shown' : item.user = user
    BY <1>1, <2>1 DEF Owned, PanelIsOwn
  <2>3. field # None
    BY <1>1, <1>5 DEF Owned
  <2> QED
    BY <1>1, <1>2, <1>3, <2>1, <2>2, <2>3 DEF Owned, PanelIsOwn, userVars
<1> QED
  BY <1>4, <1>5, AnswerIs

LEMMA SignInOwned == ASSUME Kept, Owned, NEW u \in Users, SignIn(u) PROVE Owned'
<1>1. items' = {} /\ shown' = {} /\ \A r \in Requests : ask'[r].state # "waiting"
  BY GivenUp DEF SignIn
<1> QED
  BY <1>1, NoneIsNoField DEF SignIn, Aborted, Owned, PanelIsOwn

LEMMA SignOutOwned == ASSUME Kept, Owned, SignOut PROVE Owned'
<1>1. items' = {} /\ shown' = {} /\ \A r \in Requests : ask'[r].state # "waiting"
  BY GivenUp DEF SignOut
<1> QED
  BY <1>1 DEF SignOut, Aborted, Owned, PanelIsOwn

LEMMA RestoreOwned == ASSUME Kept, Owned, Restore PROVE Owned'
BY DEF Restore, Owned, PanelIsOwn, docVars, storeVars

LEMMA ReloadOwned == ASSUME Kept, Owned, Reload PROVE Owned'
<1>1. \A r \in Requests : ask'[r].state # "waiting"
  BY DEF Reload, NoRequest
<1> QED
  BY <1>1 DEF Reload, Acting, Owned, PanelIsOwn

LEMMA TimeoutOwned == ASSUME Kept, Owned, NEW q \in Requests, Timeout(q) PROVE Owned'
<1>1. ask' = [ask EXCEPT ![q].state = "gaveUp"] /\ \A r \in Requests : ask[r] \in Asked
  BY DEF Timeout, Kept, AllTyped, DocTyped
<1>2. \A r \in Requests : ask'[r].state = "waiting" => ask[r].state = "waiting"
  BY <1>1 DEF Asked, Kept, AllTyped, DocTyped
<1> QED
  BY <1>2 DEF Timeout, Owned, PanelIsOwn, docVars, userVars, storeVars, checkVars

LEMMA OwnedInit == Init => Owned
<1> SUFFICES ASSUME Init PROVE Owned
  OBVIOUS
<1>1. /\ items = {} /\ shown = {} /\ publishing = TRUE /\ connected = field /\ check = Nothing
      /\ \A r \in Requests : ask[r].state = "none"
  BY DEF Init, NoRequest
<1>2. field = None => buffer = <<>>
  BY DEF Init
<1>3. ~pinned => field = None
  BY DEF Init
<1> QED
  BY <1>1, <1>2, <1>3 DEF Owned, PanelIsOwn

LEMMA OwnedNext == Kept /\ Owned /\ [Next]_vars => Owned'
<1> SUFFICES ASSUME Kept, Owned, [Next]_vars PROVE Owned'
  OBVIOUS
<1>1. CASE UNCHANGED vars
  BY <1>1 DEF vars, Owned, PanelIsOwn, docVars, userVars, storeVars, checkVars
<1>2. CASE Select
  BY <1>2 DEF Select, Owned, PanelIsOwn, userVars, storeVars, checkVars
<1>3. CASE FrameLoads \/ HelloAgain \/ Leave \/ Click \/ \E f \in Fields : Connect(f) \/ Type(f)
  BY <1>3, HostMovesOwned DEF FrameLoads, HelloAgain, Leave, Click, Connect, Type
<1>4. CASE \/ HostHears \/ EmbedHears \/ ApplySuggestion \/ ApplyRewrite \/ \E r \in Requests : Timeout(r)
           \/ Check \/ Effects \/ Answer \/ \E u \in Users : SignIn(u)
           \/ Restore \/ SignOut \/ Reload
  BY <1>4, HostHearsOwned, EmbedHearsOwned, ApplySuggestionWants, ApplyRewriteWants, WantsOwned, TimeoutOwned,
     CheckOwned, EffectsOwned, AnswerOwned, SignInOwned, RestoreOwned, SignOutOwned, ReloadOwned
<1> QED
  BY <1>1, <1>2, <1>3, <1>4 DEF Next

(* Whatever is under way when somebody signs in or out, the panel shows the   *)
(* embed's field and the findings of checks that its own user started there. *)
THEOREM PanelStaysOwn == Spec => []PanelIsOwn
<1>1. Spec => [](Kept /\ Owned)
  BY KeptInit, KeptNext, OwnedInit, OwnedNext, PTL DEF Spec
<1>2. Owned => PanelIsOwn
  BY DEF Owned
<1> QED
  BY <1>1, <1>2, PTL

-----------------------------------------------------------------------------
(* What was asked and what is said of it.  Of each request one word at most  *)
(* is under way, the wish or its answer; a frame that has just been loaded   *)
(* has asked nothing, and what the last one asked is gone when it is greeted. *)

Idx(s) == 1..Len(s)
Wishes(m) == m.type = "applyReplacement"
Replies(m) == m.type = "replaceResult"
Unserved(a) == ~a.met /\ ~a.applied
\* What an answer may say of a request: that its text was found and, of a rich field,
\* that what was put in is there.
Honest(a, ok) ==
  /\ a.applied => a.met
  /\ a.field \in Rich => (ok <=> a.applied)
  /\ a.field \notin Rich => (ok <=> a.met)
Due(asks, m) ==
  LET a == asks[m.request]
  IN a.state \in {"waiting", "gaveUp"} /\ Unserved(a) /\ a.field = m.field /\ a.said = m.expected
Told(asks, m) == LET a == asks[m.request] IN a.state \in {"waiting", "gaveUp"} /\ Honest(a, m.ok)

\* What has been said of a request, if anything.
Candid(a) ==
  /\ a.state = "ok" => Honest(a, TRUE)
  /\ a.state = "refused" => Honest(a, FALSE)
  /\ a.state = "none" => Unserved(a)

Ungreeted ==
  /\ \A r \in Requests : ask[r].state = "none"
  /\ (\E i \in Idx(toEmbed) : toEmbed[i] = Hello) => \A i \in Idx(toHost) : ~Wishes(toHost[i])
  /\ \A i, j \in Idx(toEmbed) : i < j /\ toEmbed[i] = Hello => ~Replies(toEmbed[j])
Greeted ==
  /\ \A i \in Idx(toHost) : Wishes(toHost[i]) => Due(ask, toHost[i])
  /\ \A i \in Idx(toEmbed) : Replies(toEmbed[i]) => Told(ask, toEmbed[i])
  /\ \A i, j \in Idx(toHost) :
       Wishes(toHost[i]) /\ Wishes(toHost[j]) /\ toHost[i].request = toHost[j].request => i = j
  /\ \A i, j \in Idx(toEmbed) :
       Replies(toEmbed[i]) /\ Replies(toEmbed[j]) /\ toEmbed[i].request = toEmbed[j].request => i = j
  /\ \A i \in Idx(toHost), j \in Idx(toEmbed) :
       Wishes(toHost[i]) /\ Replies(toEmbed[j]) => toHost[i].request # toEmbed[j].request
Asking ==
  /\ ~pinned => Ungreeted
  /\ pinned => Greeted
  /\ \A r \in Requests : Candid(ask[r])

(* A queue after a step that adds nothing of a type: what was there, less its *)
(* head perhaps, and others behind.                                         *)
LaterBy(k, new, old, type) ==
  \A i \in Idx(new) : /\ new[i].type = type => i + k \in Idx(old)
                      /\ i + k \in Idx(old) => new[i] = old[i + k]
Later(new, old, type) == \E k \in {0, 1} : LaterBy(k, new, old, type)

LEMMA LaterSame ==
  ASSUME NEW S, NEW q \in Seq(S), NEW type
  PROVE  Later(q, q, type)
<1>1. Len(q) \in Nat
  BY LenProperties
<1>2. LaterBy(0, q, q, type)
  BY <1>1 DEF LaterBy, Idx
<1> QED
  BY <1>2 DEF Later

LEMMA LaterTail ==
  ASSUME NEW S, NEW q \in Seq(S), q # <<>>, NEW type
  PROVE  Later(Tail(q), q, type)
<1>1. Len(q) \in Nat /\ Len(Tail(q)) = Len(q) - 1 /\ \A i \in 1..Len(Tail(q)) : Tail(q)[i] = q[i + 1]
  BY LenProperties, HeadTailProperties
<1>2. LaterBy(1, Tail(q), q, type)
  BY <1>1 DEF LaterBy, Idx
<1> QED
  BY <1>2 DEF Later

(* The elements of a queue that was added to.                               *)
LEMMA ConcatAt ==
  ASSUME NEW S, NEW q \in Seq(S), NEW ms \in Seq(S)
  PROVE  /\ Len(q) \in Nat /\ Len(ms) \in Nat /\ Len(q \o ms) = Len(q) + Len(ms)
         /\ \A i \in 1..Len(q) : (q \o ms)[i] = q[i]
         /\ \A i \in Idx(q \o ms) : i > Len(q) => i - Len(q) \in Idx(ms) /\ (q \o ms)[i] = ms[i - Len(q)]
<1>1. Len(q) \in Nat /\ Len(ms) \in Nat
  BY LenProperties
<1>2. /\ Len(q \o ms) = Len(q) + Len(ms)
      /\ \A i \in 1..(Len(q) + Len(ms)) : (q \o ms)[i] = IF i <= Len(q) THEN q[i] ELSE ms[i - Len(q)]
  BY ConcatProperties
<1> QED
  BY <1>1, <1>2 DEF Idx

LEMMA LaterAdded ==
  ASSUME NEW S, NEW q \in Seq(S), NEW ms \in Seq(S), NEW type, \A i \in Idx(ms) : ms[i].type # type
  PROVE  Later(q \o ms, q, type)
<1> DEFINE new == q \o ms
<1>1. /\ Len(q) \in Nat
      /\ \A i \in 1..Len(q) : new[i] = q[i]
      /\ \A i \in Idx(new) : i > Len(q) => i - Len(q) \in Idx(ms) /\ new[i] = ms[i - Len(q)]
  BY ConcatAt
<1> HIDE DEF new
<1>2. LaterBy(0, new, q, type)
  BY <1>1 DEF LaterBy, Idx
<1> QED
  BY <1>2 DEF Later, new

\* What may become of requests without a word: those that wait are given up.
Milder ==
  \A r \in Requests :
    /\ ask'[r].met = ask[r].met /\ ask'[r].applied = ask[r].applied
    /\ ask'[r].field = ask[r].field /\ ask'[r].said = ask[r].said
    /\ ask'[r].state = ask[r].state \/ (ask[r].state = "waiting" /\ ask'[r].state = "gaveUp")

LEMMA ResetMilder == ASSUME Kept, ResetConnection PROVE Milder
<1>1. \A r \in Requests : ask[r] \in Asked
  BY DEF Kept, AllTyped, DocTyped
<1>2. \A r \in Requests : ask'[r] = IF ask[r].state = "waiting" THEN [ask[r] EXCEPT !.state = "gaveUp"] ELSE ask[r]
  BY DEF ResetConnection, AllGivenUp
<1> QED
  BY <1>1, <1>2 DEF Milder, Asked

LEMMA GreetedLater ==
  ASSUME Kept, Greeted, Milder,
         Later(toEmbed', toEmbed, "replaceResult"), Later(toHost', toHost, "applyReplacement")
  PROVE  Greeted'
<1>1. PICK k \in {0, 1} : LaterBy(k, toEmbed', toEmbed, "replaceResult")
  BY DEF Later
<1>2. PICK l \in {0, 1} : LaterBy(l, toHost', toHost, "applyReplacement")
  BY DEF Later
<1>3. \A i \in Idx(toEmbed') : Replies(toEmbed'[i]) => i + k \in Idx(toEmbed) /\ toEmbed'[i] = toEmbed[i + k]
  BY <1>1 DEF LaterBy, Replies
<1>4. \A i \in Idx(toHost') : Wishes(toHost'[i]) => i + l \in Idx(toHost) /\ toHost'[i] = toHost[i + l]
  BY <1>2 DEF LaterBy, Wishes
<1>5. /\ \A i \in Idx(toHost) : toHost[i] \in HostWire
      /\ \A i \in Idx(toEmbed) : toEmbed[i] \in EmbedWire
  BY ElementOfSeq DEF Kept, AllTyped, WiresTyped, Idx
<1>6. ASSUME NEW i \in Idx(toHost'), Wishes(toHost'[i]) PROVE Due(ask', toHost'[i])
  <2>1. Due(ask, toHost'[i]) /\ toHost'[i].request \in Requests
    BY <1>4, <1>5, <1>6, HostWires DEF Greeted, Wishes
  <2> QED
    BY <2>1 DEF Due, Unserved, Milder
<1>7. ASSUME NEW i \in Idx(toEmbed'), Replies(toEmbed'[i]) PROVE Told(ask', toEmbed'[i])
  <2>1. Told(ask, toEmbed'[i]) /\ toEmbed'[i].request \in Requests
    BY <1>3, <1>5, <1>7, EmbedWires DEF Greeted, Replies
  <2> QED
    BY <2>1 DEF Told, Honest, Milder
<1>8. \A i, j \in Idx(toHost') :
        Wishes(toHost'[i]) /\ Wishes(toHost'[j]) /\ toHost'[i].request = toHost'[j].request => i = j
  <2>1. \A i, j \in Idx(toHost') :
        Wishes(toHost'[i]) /\ Wishes(toHost'[j]) /\ toHost'[i].request = toHost'[j].request => i + l = j + l
    BY <1>4 DEF Greeted
  <2> QED
    BY <2>1 DEF Idx
<1>9. \A i, j \in Idx(toEmbed') :
        Replies(toEmbed'[i]) /\ Replies(toEmbed'[j]) /\ toEmbed'[i].request = toEmbed'[j].request => i = j
  <2>1. \A i, j \in Idx(toEmbed') :
        Replies(toEmbed'[i]) /\ Replies(toEmbed'[j]) /\ toEmbed'[i].request = toEmbed'[j].request => i + k = j + k
    BY <1>3 DEF Greeted
  <2> QED
    BY <2>1 DEF Idx
<1>10. \A i \in Idx(toHost'), j \in Idx(toEmbed') :
         Wishes(toHost'[i]) /\ Replies(toEmbed'[j]) => toHost'[i].request # toEmbed'[j].request
  BY <1>3, <1>4 DEF Greeted
<1> QED
  BY <1>6, <1>7, <1>8, <1>9, <1>10 DEF Greeted, Idx, Wishes, Replies, Due, Told

LEMMA UngreetedLater ==
  ASSUME Kept, Ungreeted, Milder,
         Later(toEmbed', toEmbed, "replaceResult"), Later(toHost', toHost, "applyReplacement"),
         \/ \A i \in Idx(toEmbed') : toEmbed'[i] = Hello => \E j \in Idx(toEmbed) : toEmbed[j] = Hello
         \/ toHost = <<>>
  PROVE  Ungreeted'
<1>1. PICK k \in {0, 1} : LaterBy(k, toEmbed', toEmbed, "replaceResult")
  BY DEF Later
<1>2. PICK l \in {0, 1} : LaterBy(l, toHost', toHost, "applyReplacement")
  BY DEF Later
<1>3. \A r \in Requests : ask'[r].state = "none"
  BY DEF Ungreeted, Milder
<1>4. ASSUME NEW i \in Idx(toEmbed'), toEmbed'[i] = Hello, NEW j \in Idx(toHost') PROVE ~Wishes(toHost'[j])
  <2>1. Wishes(toHost'[j]) => j + l \in Idx(toHost) /\ toHost'[j] = toHost[j + l]
    BY <1>2 DEF LaterBy, Wishes
  <2>2. toHost = <<>> => Idx(toHost) = {}
    BY EmptySeq DEF Idx
  <2> QED
    BY <1>4, <2>1, <2>2 DEF Ungreeted
<1>5. ASSUME NEW i \in Idx(toEmbed'), NEW j \in Idx(toEmbed'), i < j, toEmbed'[i] = Hello, Replies(toEmbed'[j])
      PROVE  FALSE
  <2>1. j + k \in Idx(toEmbed) /\ toEmbed'[j] = toEmbed[j + k]
    BY <1>1, <1>5 DEF LaterBy, Replies
  <2>2. i + k \in Idx(toEmbed) /\ i + k < j + k
    <3>1. Len(toEmbed) \in Nat
      BY LenProperties DEF Kept, AllTyped, WiresTyped
    <3>2. i \in Nat /\ i >= 1
      BY DEF Idx
    <3> QED
      BY <1>5, <2>1, <3>1, <3>2 DEF Idx
  <2>3. toEmbed[i + k] = Hello
    BY <1>1, <1>5, <2>2 DEF LaterBy
  <2> QED
    BY <1>5, <2>1, <2>2, <2>3 DEF Ungreeted
<1> QED
  BY <1>3, <1>4, <1>5 DEF Ungreeted, Idx, Wishes, Replies

LEMMA AskingLater ==
  ASSUME Kept, Asking, Milder, pinned' = pinned,
         Later(toEmbed', toEmbed, "replaceResult"), Later(toHost', toHost, "applyReplacement"),
         \/ \A i \in Idx(toEmbed') : toEmbed'[i] = Hello => \E j \in Idx(toEmbed) : toEmbed[j] = Hello
         \/ toHost = <<>>
  PROVE  Asking'
<1>1. \A r \in Requests : Candid(ask'[r])
  BY DEF Asking, Candid, Honest, Unserved, Milder
<1>2. CASE pinned
  BY <1>1, <1>2, GreetedLater DEF Asking
<1>3. CASE ~pinned
  BY <1>1, <1>3, UngreetedLater DEF Asking
<1> QED
  BY <1>2, <1>3 DEF Kept, AllTyped, DocTyped

Holds(new, old, x) == \A i \in Idx(new) : new[i] = x => i \in Idx(old) /\ old[i] = x

LEMMA AddedQuiet ==
  ASSUME NEW S, NEW q \in Seq(S), NEW ms \in Seq(S), NEW new, new = q \o ms,
         NEW x \in S, \A i \in Idx(ms) : ms[i] # x
  PROVE  Holds(new, q, x)
<1>1. /\ Len(q) \in Nat
      /\ \A j \in 1..Len(q) : new[j] = q[j]
      /\ \A j \in Idx(new) : j > Len(q) => j - Len(q) \in Idx(ms) /\ new[j] = ms[j - Len(q)]
  BY ConcatAt
<1> QED
  BY <1>1 DEF Idx, Holds

LEMMA PostedQuiet ==
  ASSUME Kept, NEW ms \in Seq(EmbedWire), Posts(ms), \A i \in Idx(ms) : ms[i].type \notin {"replaceResult", "hello"}
  PROVE  /\ Later(toEmbed', toEmbed, "replaceResult")
         /\ \A i \in Idx(toEmbed') : toEmbed'[i] = Hello => \E j \in Idx(toEmbed) : toEmbed[j] = Hello
<1>1. toEmbed \in Seq(EmbedWire) /\ toEmbed' = toEmbed \o ms
  BY DEF Posts, Kept, AllTyped, WiresTyped
<1>2. Later(toEmbed', toEmbed, "replaceResult")
  BY <1>1, LaterAdded
<1>3. \A i \in Idx(ms) : ms[i] # Hello
  BY DEF Hello
<1>4. Hello \in EmbedWire
  BY HostMessages
<1>5. Holds(toEmbed', toEmbed, Hello)
  BY <1>1, <1>3, <1>4, AddedQuiet
<1> QED
  BY <1>2, <1>5 DEF Holds

LEMMA HeardQuiet ==
  ASSUME Kept, toEmbed # <<>>, toEmbed' = Tail(toEmbed)
  PROVE  /\ Later(toEmbed', toEmbed, "replaceResult")
         /\ \A i \in Idx(toEmbed') : toEmbed'[i] = Hello => \E j \in Idx(toEmbed) : toEmbed[j] = Hello
<1>1. toEmbed \in Seq(EmbedWire)
  BY DEF Kept, AllTyped, WiresTyped
<1>2. Later(toEmbed', toEmbed, "replaceResult")
  BY <1>1, LaterTail
<1>3. /\ Len(toEmbed) \in Nat /\ Len(toEmbed') = Len(toEmbed) - 1
      /\ \A i \in 1..Len(toEmbed') : toEmbed'[i] = toEmbed[i + 1]
  BY <1>1, LenProperties, HeadTailProperties
<1> QED
  BY <1>2, <1>3 DEF Idx

LEMMA UnpostedQuiet ==
  ASSUME Kept, UNCHANGED toEmbed
  PROVE  /\ Later(toEmbed', toEmbed, "replaceResult")
         /\ \A i \in Idx(toEmbed') : toEmbed'[i] = Hello => \E j \in Idx(toEmbed) : toEmbed[j] = Hello
BY LaterSame DEF Kept, AllTyped, WiresTyped

LEMMA UnsentQuiet ==
  ASSUME Kept, UNCHANGED toHost, NEW type
  PROVE  Later(toHost', toHost, type)
BY LaterSame DEF Kept, AllTyped, WiresTyped

LEMMA SentQuiet ==
  ASSUME Kept, NEW ms \in Seq(HostWire), SendsAfter(ms), NEW type, \A i \in Idx(ms) : ms[i].type # type
  PROVE  Later(toHost', toHost, type)
BY LaterAdded DEF SendsAfter, Kept, AllTyped, WiresTyped

LEMMA SaysQuiet ==
  ASSUME Kept, NEW its \in SUBSET Finding, SendsAfter(Says(field, its)), NEW type, type # "findings"
  PROVE  Later(toHost', toHost, type)
<1>1. Says(field, its) \in Seq(HostWire)
  BY SaysTyped DEF Kept, AllTyped, DocTyped
<1>2. \A i \in Idx(Says(field, its)) : Says(field, its)[i].type # type
  BY DEF Says, FindingsMsg, Idx
<1> QED
  BY <1>1, <1>2, SentQuiet

LEMMA ResetQuiet ==
  ASSUME Kept, ResetConnection, NEW type, type # "findings"
  PROVE  Milder /\ Later(toHost', toHost, type)
BY ResetMilder, SaysQuiet DEF ResetConnection

LEMMA SyncQuiet ==
  ASSUME Kept, NEW t \in Texts, Sync(t), NEW type, type # "findings"
  PROVE  Later(toHost', toHost, type)
<1>1. items' \in SUBSET Finding
  BY SyncKeeps DEF Kept
<1> QED
  BY <1>1, SaysQuiet, UnsentQuiet DEF Sync

LEMMA MergeQuiet ==
  ASSUME Kept, NEW sources, NEW found, \A f \in found : f.source \in Sources /\ f.said \in Pieces,
         Merge(sources, found), NEW type, type # "findings"
  PROVE  Later(toHost', toHost, type)
<1>1. items' \in SUBSET Finding
  BY MergeKeeps DEF Kept
<1>2. SendsAfter(Says(field, items'))
  BY DEF Merge
<1> QED
  BY <1>1, <1>2, SaysQuiet

LEMMA RunCheckQuiet ==
  ASSUME Kept, NEW sources \in SUBSET Sources, RunCheck(sources), NEW type, type # "findings"
  PROVE  Later(toHost', toHost, type)
BY MergeQuiet, UnsentQuiet DEF RunCheck

LEMMA AnswerQuiet ==
  ASSUME Kept, Answer, NEW type, type # "findings"
  PROVE  Later(toHost', toHost, type)
BY AnswerIs, MergeQuiet, UnsentQuiet

LEMMA AskUnchanged ==
  ASSUME UNCHANGED ask
  PROVE  Milder
BY DEF Milder

\* Steps that neither ask nor answer.
LEMMA QuietAsks ==
  ASSUME Kept, Asking, HelloAgain \/ FrameLoads \/ Leave \/ Click \/ \E f \in Fields : Connect(f) \/ Type(f)
  PROVE  Asking'
<1>1. UNCHANGED pinned /\ Milder
  BY AskUnchanged DEF HelloAgain, FrameLoads, Leave, Click, Connect, Type, EmbedRests
<1>2. UNCHANGED toHost /\ Later(toHost', toHost, "applyReplacement")
  BY UnsentQuiet DEF HelloAgain, FrameLoads, Leave, Click, Connect, Type
<1>3. CASE HelloAgain \/ FrameLoads
  <2>1. Posts(<<Hello>>) /\ toHost = <<>>
    BY <1>3 DEF HelloAgain, FrameLoads
  <2>2. <<Hello>> \in Seq(EmbedWire) /\ \A i \in Idx(<<Hello>>) : <<Hello>>[i].type # "replaceResult"
    BY HostMessages DEF Hello, Idx
  <2>3. Later(toEmbed', toEmbed, "replaceResult")
    BY <2>1, <2>2, LaterAdded DEF Posts, Kept, AllTyped, WiresTyped
  <2> QED
    BY <1>1, <1>2, <2>1, <2>3, AskingLater
<1>4. ASSUME NEW ms \in Seq(EmbedWire), Posts(ms), \A i \in Idx(ms) : ms[i].type \notin {"replaceResult", "hello"}
      PROVE  Asking'
  BY <1>1, <1>2, <1>4, PostedQuiet, AskingLater
<1>5. ASSUME NEW m \in EmbedWire, Posts(<<m>>), m.type \notin {"replaceResult", "hello"}
      PROVE  Asking'
  <2>1. <<m>> \in Seq(EmbedWire) /\ \A i \in Idx(<<m>>) : <<m>>[i] = m
    BY DEF Idx
  <2> QED
    BY <1>4, <1>5, <2>1
<1>6. CASE Leave
  <2>1. DisconnectedMsg(active) \in EmbedWire
    BY <1>6, HostMessages DEF Leave, Kept, AllTyped, HostTyped
  <2>2. DisconnectedMsg(active).type = "fieldDisconnected"
    BY DEF DisconnectedMsg
  <2> QED
    BY <1>6, <1>5, <2>1, <2>2 DEF Leave
<1>7. CASE Click
  <2>1. PICK mark \in marks : Posts(<<ClickedMsg(active, mark.id)>>)
    BY <1>7 DEF Click
  <2>2. ClickedMsg(active, mark.id) \in EmbedWire
    BY <1>7, HostMessages DEF Kept, AllTyped, HostTyped, Click, Mark
  <2>3. ClickedMsg(active, mark.id).type = "markingClicked"
    BY DEF ClickedMsg
  <2> QED
    BY <1>5, <2>1, <2>2, <2>3
<1>8. ASSUME NEW f \in Fields, Connect(f) PROVE Asking'
  <2>1. ConnectedMsg(f, page[f]) \in EmbedWire
    BY HostMessages DEF Kept, AllTyped, HostTyped
  <2>2. ConnectedMsg(f, page[f]).type = "fieldConnected"
    BY DEF ConnectedMsg
  <2> QED
    BY <1>8, <1>5, <2>1, <2>2 DEF Connect
<1>9. ASSUME NEW f \in Fields, Type(f) PROVE Asking'
  <2>1. PICK t \in Fitting(Edits(page[f])) : Posts(Changes(f, t))
    BY <1>9 DEF Type
  <2>2. t \in Texts
    BY <2>1, EmptyText, EditsAre, FittingAre DEF Kept, AllTyped, HostTyped
  <2>3. Changes(f, t) \in Seq(EmbedWire)
    BY <2>2, ChangesTyped DEF Kept, AllTyped
  <2>4. \A i \in Idx(Changes(f, t)) : Changes(f, t)[i].type \notin {"replaceResult", "hello"}
    BY DEF Changes, ChangedMsg, Idx
  <2> QED
    BY <1>4, <2>1, <2>3, <2>4
<1> QED
  BY <1>3, <1>6, <1>7, <1>8, <1>9

LEMMA EmbedMovesAsking ==
  ASSUME Kept, Asking, UNCHANGED <<toEmbed, pinned>>, Milder, Later(toHost', toHost, "applyReplacement")
  PROVE  Asking'
BY UnpostedQuiet, AskingLater

LEMMA TimeoutAsking == ASSUME Kept, Asking, NEW q \in Requests, Timeout(q) PROVE Asking'
<1>1. ask' = [ask EXCEPT ![q].state = "gaveUp"] /\ ask[q].state = "waiting" /\ \A r \in Requests : ask[r] \in Asked
  BY DEF Timeout, Kept, AllTyped, DocTyped
<1>2. Milder
  BY <1>1 DEF Milder, Asked, Kept, AllTyped, DocTyped
<1> QED
  BY <1>2, EmbedMovesAsking, UnsentQuiet DEF Timeout, HostRests

LEMMA ReloadAsking == ASSUME Kept, Asking, Reload PROVE Asking'
<1>1. \A r \in Requests : ask'[r].state = "none" /\ Candid(ask'[r])
  BY DEF Reload, NoRequest, Candid, Unserved
<1>2. Idx(toEmbed') = {} /\ ~pinned'
  BY DEF Reload, Idx
<1> QED
  BY <1>1, <1>2 DEF Asking, Ungreeted

(* A queue to which one message of a type was added, at a place behind.      *)
OneMore(new, old, type, at, m) ==
  /\ at \notin Idx(old)
  /\ \A i \in Idx(new) : new[i].type = type => (i \in Idx(old) /\ new[i] = old[i]) \/ (i = at /\ new[i] = m)

LEMMA OneAdded ==
  ASSUME NEW S, NEW q \in Seq(S), NEW ms \in Seq(S), NEW new, new = q \o ms, NEW type,
         NEW p \in Idx(ms), \A i \in Idx(ms) : ms[i].type = type => i = p
  PROVE  OneMore(new, q, type, Len(q) + p, ms[p])
<1>1. /\ Len(q) \in Nat /\ p \in Nat /\ p >= 1
      /\ \A j \in 1..Len(q) : new[j] = q[j]
      /\ \A j \in Idx(new) : j > Len(q) => j - Len(q) \in Idx(ms) /\ new[j] = ms[j - Len(q)]
  BY ConcatAt DEF Idx
<1>2. ASSUME NEW i \in Idx(new), new[i].type = type, i > Len(q) PROVE i = Len(q) + p /\ new[i] = ms[p]
  <2>1. i - Len(q) \in Idx(ms) /\ new[i] = ms[i - Len(q)]
    BY <1>1, <1>2
  <2>2. i - Len(q) = p
    BY <1>2, <2>1
  <2>3. i \in Int /\ Len(q) \in Int
    BY <1>1 DEF Idx
  <2>4. i = Len(q) + p
    BY <2>2, <2>3
  <2> QED
    BY <2>1, <2>2, <2>4
<1> QED
  BY <1>1, <1>2 DEF OneMore, Idx

(* One wish or one answer more, of a request of which no word was under way;  *)
(* all the others as they were.                                             *)
Unheard(q) ==
  /\ \A i \in Idx(toHost) : Wishes(toHost[i]) => toHost[i].request # q
  /\ \A i \in Idx(toEmbed) : Replies(toEmbed[i]) => toEmbed[i].request # q

LEMMA WiresTypes ==
  ASSUME Kept
  PROVE  /\ \A i \in Idx(toHost) : Wishes(toHost[i]) => toHost[i].request \in Requests
         /\ \A i \in Idx(toEmbed) : Replies(toEmbed[i]) => toEmbed[i].request \in Requests
<1>1. /\ \A i \in Idx(toHost) : toHost[i] \in HostWire
      /\ \A i \in Idx(toEmbed) : toEmbed[i] \in EmbedWire
  BY ElementOfSeq DEF Kept, AllTyped, WiresTyped, Idx
<1> QED
  BY <1>1, HostWires, EmbedWires DEF Wishes, Replies

LEMMA WishAdded ==
  ASSUME Kept, Greeted, NEW q \in Requests, Unheard(q), \A r \in Requests : r # q => ask'[r] = ask[r],
         UNCHANGED toEmbed, NEW at, NEW m, OneMore(toHost', toHost, "applyReplacement", at, m),
         m.request = q, Due(ask', m)
  PROVE  Greeted'
<1>1. \A i \in Idx(toHost') : Wishes(toHost'[i]) =>
         (i \in Idx(toHost) /\ toHost'[i] = toHost[i]) \/ (i = at /\ toHost'[i] = m)
  BY DEF OneMore, Wishes
<1>2. at \notin Idx(toHost)
  BY DEF OneMore
<1>3. ASSUME NEW i \in Idx(toHost'), Wishes(toHost'[i]) PROVE Due(ask', toHost'[i])
  <2>1. CASE i \in Idx(toHost) /\ toHost'[i] = toHost[i]
    <3>1. toHost[i].request \in Requests \ {q} /\ Due(ask, toHost[i])
      BY <1>3, <2>1, WiresTypes DEF Unheard, Greeted
    <3> QED
      BY <2>1, <3>1 DEF Due
  <2> QED
    BY <1>1, <1>3, <2>1
<1>4. ASSUME NEW i \in Idx(toEmbed'), Replies(toEmbed'[i]) PROVE Told(ask', toEmbed'[i])
  <2>1. toEmbed[i].request \in Requests \ {q} /\ Told(ask, toEmbed[i])
    BY <1>4, WiresTypes DEF Unheard, Greeted
  <2> QED
    BY <2>1 DEF Told
<1>5. ASSUME NEW i \in Idx(toHost'), NEW j \in Idx(toHost'), Wishes(toHost'[i]), Wishes(toHost'[j]),
             toHost'[i].request = toHost'[j].request
      PROVE  i = j
  BY <1>1, <1>5 DEF Unheard, Greeted
<1>6. ASSUME NEW i \in Idx(toHost'), NEW j \in Idx(toEmbed'), Wishes(toHost'[i]), Replies(toEmbed'[j])
      PROVE  toHost'[i].request # toEmbed'[j].request
  BY <1>1, <1>6 DEF Unheard, Greeted
<1>7. \A i, j \in Idx(toEmbed') :
        Replies(toEmbed'[i]) /\ Replies(toEmbed'[j]) /\ toEmbed'[i].request = toEmbed'[j].request => i = j
  BY DEF Greeted
<1> QED
  BY <1>3, <1>4, <1>5, <1>6, <1>7 DEF Greeted

LEMMA WantsAsking == ASSUME Kept, Owned, Asking, NEW item \in Offered, Wants(item) PROVE Asking'
<1>1. PICK from \in Nat, to \in Nat, insert \in Inserts :
        from <= to /\ to <= Len(buffer) /\ SendReplace(item, from, to, insert)
  BY DEF Wants
<1>2. item \in Finding
  BY DEF Wants
<1> DEFINE said == Slice(buffer, from, to)
           Sent(r) == [type |-> "applyReplacement", request |-> r, field |-> field,
                       from |-> from, to |-> to, insert |-> insert, expected |-> said]
           Waiting == [state |-> "waiting", id |-> item.id, field |-> field, said |-> said, met |-> FALSE, applied |-> FALSE]
<1>3. PICK r \in Requests : /\ ask[r].state = "none" /\ field \in Fields
                            /\ ask' = [ask EXCEPT ![r] = Waiting]
                            /\ SendsAfter(<<Sent(r)>>) /\ Sent(r) \in HostWire
  BY <1>1, <1>2, SendReplaceIs
<1>4. /\ ask'[r] = Waiting /\ \A x \in Requests : x # r => ask'[x] = ask[x]
  BY <1>3 DEF Kept, AllTyped, DocTyped
<1>5. pinned /\ pinned' = pinned /\ UNCHANGED toEmbed
  BY <1>3, NoneIsNoField DEF Owned, Wants, HostRests
<1>6. Greeted'
  <2>1. Unheard(r)
    BY <1>3, <1>5 DEF Unheard, Asking, Greeted, Due, Told
  <2>2. Due(ask', Sent(r)) /\ Sent(r).request = r
    BY <1>4 DEF Due, Unserved
  <2> HIDE DEF Sent
  <2>3. <<Sent(r)>> \in Seq(HostWire) /\ 1 \in Idx(<<Sent(r)>>) /\ <<Sent(r)>>[1] = Sent(r)
        /\ \A i \in Idx(<<Sent(r)>>) : i = 1
    BY <1>3 DEF Idx
  <2>4. OneMore(toHost', toHost, "applyReplacement", Len(toHost) + 1, Sent(r))
    BY <1>3, <2>3, OneAdded DEF SendsAfter, Kept, AllTyped, WiresTyped
  <2> QED
    BY <1>4, <1>5, <2>1, <2>2, <2>4, WishAdded DEF Asking
<1>7. \A x \in Requests : Candid(ask'[x])
  <2>1. Candid(Waiting)
    BY DEF Candid
  <2> HIDE DEF Waiting
  <2> QED
    BY <1>4, <2>1 DEF Asking
<1> QED
  BY <1>5, <1>6, <1>7 DEF Asking

(* The rest of a queue whose head is gone.                                   *)
Rest(new, old) == \A i \in Idx(new) : i + 1 \in Idx(old) /\ i + 1 # 1 /\ new[i] = old[i + 1]

LEMMA RestIs ==
  ASSUME NEW S, NEW q \in Seq(S), q # <<>>, NEW new, new = Tail(q)
  PROVE  Rest(new, q) /\ 1 \in Idx(q) /\ Head(q) = q[1]
<1>1. /\ Len(q) \in Nat /\ Len(q) >= 1 /\ Len(Tail(q)) = Len(q) - 1 /\ Head(q) = q[1]
      /\ \A i \in 1..Len(Tail(q)) : Tail(q)[i] = q[i + 1]
  BY LenProperties, HeadTailProperties, EmptySeq
<1> QED
  BY <1>1 DEF Rest, Idx

LEMMA AnswerAdded ==
  ASSUME Kept, Greeted, toHost # <<>>, NEW q \in Requests, Wishes(Head(toHost)), Head(toHost).request = q,
         \A r \in Requests : r # q => ask'[r] = ask[r],
         toHost' = Tail(toHost), NEW at, NEW m, OneMore(toEmbed', toEmbed, "replaceResult", at, m),
         m.request = q, Told(ask', m)
  PROVE  Greeted'
<1>1. \A i \in Idx(toEmbed') : Replies(toEmbed'[i]) =>
         (i \in Idx(toEmbed) /\ toEmbed'[i] = toEmbed[i]) \/ (i = at /\ toEmbed'[i] = m)
  BY DEF OneMore, Replies
<1>2. Rest(toHost', toHost) /\ 1 \in Idx(toHost) /\ Wishes(toHost[1]) /\ toHost[1].request = q
  BY RestIs DEF Kept, AllTyped, WiresTyped
<1>3. \A i \in Idx(toHost') : Wishes(toHost'[i]) =>
         i + 1 \in Idx(toHost) /\ toHost'[i] = toHost[i + 1] /\ toHost'[i].request # q
  <2> SUFFICES ASSUME NEW i \in Idx(toHost'), Wishes(toHost'[i])
               PROVE  i + 1 \in Idx(toHost) /\ toHost'[i] = toHost[i + 1] /\ toHost'[i].request # q
    OBVIOUS
  <2>1. i + 1 \in Idx(toHost) /\ i + 1 # 1 /\ toHost'[i] = toHost[i + 1]
    BY <1>2 DEF Rest
  <2> DEFINE k == i + 1
  <2>2. k \in Idx(toHost) /\ k # 1 /\ Wishes(toHost[k])
    BY <2>1
  <2> HIDE DEF k
  <2>3. toHost[k].request # q
    BY <1>2, <2>2 DEF Greeted
  <2> QED
    BY <2>1, <2>3 DEF k
<1>4. \A i \in Idx(toEmbed) : Replies(toEmbed[i]) => toEmbed[i].request # q
  BY <1>2 DEF Greeted
<1>5. ASSUME NEW i \in Idx(toHost'), Wishes(toHost'[i]) PROVE Due(ask', toHost'[i])
  <2>1. toHost'[i].request \in Requests \ {q} /\ Due(ask, toHost'[i])
    BY <1>3, <1>5, WiresTypes DEF Greeted
  <2> QED
    BY <2>1 DEF Due
<1>6. ASSUME NEW i \in Idx(toEmbed'), Replies(toEmbed'[i]) PROVE Told(ask', toEmbed'[i])
  <2>1. CASE i \in Idx(toEmbed) /\ toEmbed'[i] = toEmbed[i]
    <3>1. toEmbed[i].request \in Requests \ {q} /\ Told(ask, toEmbed[i])
      BY <1>4, <1>6, <2>1, WiresTypes DEF Greeted
    <3> QED
      BY <2>1, <3>1 DEF Told
  <2> QED
    BY <1>1, <1>6, <2>1
<1>7. ASSUME NEW i \in Idx(toHost'), NEW j \in Idx(toHost'), Wishes(toHost'[i]), Wishes(toHost'[j]),
             toHost'[i].request = toHost'[j].request
      PROVE  i = j
  <2> DEFINE k == i + 1
             l == j + 1
  <2>1. k \in Idx(toHost) /\ l \in Idx(toHost) /\ toHost'[i] = toHost[k] /\ toHost'[j] = toHost[l]
    BY <1>3, <1>7
  <2> HIDE DEF k, l
  <2>2. k = l
    BY <1>7, <2>1 DEF Greeted
  <2> QED
    BY <2>2 DEF k, l, Idx
<1>8. ASSUME NEW i \in Idx(toEmbed'), NEW j \in Idx(toEmbed'), Replies(toEmbed'[i]), Replies(toEmbed'[j]),
             toEmbed'[i].request = toEmbed'[j].request
      PROVE  i = j
  BY <1>1, <1>4, <1>8 DEF Greeted
<1>9. ASSUME NEW i \in Idx(toHost'), NEW j \in Idx(toEmbed'), Wishes(toHost'[i]), Replies(toEmbed'[j])
      PROVE  toHost'[i].request # toEmbed'[j].request
  <2>1. CASE j \in Idx(toEmbed) /\ toEmbed'[j] = toEmbed[j]
    <3> DEFINE k == i + 1
    <3>1. k \in Idx(toHost) /\ toHost'[i] = toHost[k] /\ Wishes(toHost[k])
      BY <1>3, <1>9
    <3>2. Replies(toEmbed[j])
      BY <1>9, <2>1
    <3> HIDE DEF k
    <3> QED
      BY <2>1, <3>1, <3>2 DEF Greeted
  <2> QED
    BY <1>1, <1>3, <1>9, <2>1
<1> QED
  BY <1>5, <1>6, <1>7, <1>8, <1>9 DEF Greeted

LEMMA PairIs ==
  ASSUME NEW x, NEW y
  PROVE  <<x>> \o <<y>> = <<x, y>>
<1>1. <<x>> \in Seq({x, y}) /\ <<y>> \in Seq({x, y}) /\ <<x, y>> \in Seq({x, y})
  OBVIOUS
<1> DEFINE s == <<x>>
           t == <<y>>
           u == <<x, y>>
<1>2. /\ s \in Seq({x, y}) /\ t \in Seq({x, y}) /\ u \in Seq({x, y})
      /\ Len(s) = 1 /\ Len(t) = 1 /\ Len(u) = 2 /\ s[1] = x /\ t[1] = y /\ u[1] = x /\ u[2] = y
  BY <1>1
<1> HIDE DEF s, t, u
<1>3. /\ s \o t \in Seq({x, y}) /\ Len(s \o t) = 2
      /\ (s \o t)[1] = s[1] /\ (s \o t)[2] = t[1]
  <2>1. /\ s \o t \in Seq({x, y}) /\ Len(s \o t) = Len(s) + Len(t)
        /\ \A i \in 1..(Len(s) + Len(t)) : (s \o t)[i] = IF i <= Len(s) THEN s[i] ELSE t[i - Len(s)]
    BY <1>2, ConcatProperties
  <2>2. \A i \in 1..2 : (s \o t)[i] = IF i <= 1 THEN s[i] ELSE t[i - 1]
    BY <1>2, <2>1
  <2> QED
    BY <1>2, <2>1, <2>2
<1>4. \A i \in 1..Len(s \o t) : (s \o t)[i] = u[i]
  BY <1>2, <1>3
<1> QED
  BY <1>2, <1>3, <1>4, SeqEqual DEF s, t, u

\* An answer is said alone, or with a change it made, before it or after it.
LEMMA AnsweringIs ==
  ASSUME NEW f, NEW m, NEW o
  PROVE  LET a == ResultMsg(m.request, f, o.ok, o.text)
         IN Answering(f, m, o) \in {<<a>>, <<a, ChangedMsg(f, o.text)>>, <<ChangedMsg(f, o.seen), a>>}
<1> DEFINE a == ResultMsg(m.request, f, o.ok, o.text)
           c == ChangedMsg(f, o.text)
           e == ChangedMsg(f, o.seen)
<1>1. Changes(f, o.text) \in {<<>>, <<c>>} /\ Changes(f, o.seen) \in {<<>>, <<e>>}
  BY DEF Changes
<1>2. Answering(f, m, o) \in {<<a>> \o Changes(f, o.text), Changes(f, o.seen) \o <<a>>}
  BY DEF Answering
<1> HIDE DEF a, c, e
<1>3. <<a>> \o <<>> = <<a>> /\ <<>> \o <<a>> = <<a>>
  <2>1. <<a>> \in Seq({a})
    OBVIOUS
  <2> QED
    BY <2>1, ConcatEmptySeq
<1>4. <<a>> \o <<c>> = <<a, c>> /\ <<e>> \o <<a>> = <<e, a>>
  BY PairIs
<1>5. Answering(f, m, o) \in {<<a>>, <<a, c>>, <<e, a>>}
  BY <1>1, <1>2, <1>3, <1>4
<1> QED
  BY <1>5 DEF a, c, e

(* What the host answers.                                                    *)
LEMMA AnsweringAsks ==
  ASSUME NEW f, NEW m, NEW o
  PROVE  \E p \in Idx(Answering(f, m, o)) :
           /\ Answering(f, m, o)[p] = ResultMsg(m.request, f, o.ok, o.text)
           /\ \A i \in Idx(Answering(f, m, o)) : i # p => Answering(f, m, o)[i].type = "textChanged"
<1> DEFINE a == ResultMsg(m.request, f, o.ok, o.text)
           c == ChangedMsg(f, o.text)
           e == ChangedMsg(f, o.seen)
<1>1. Answering(f, m, o) \in {<<a>>, <<a, c>>, <<e, a>>} /\ c.type = "textChanged" /\ e.type = "textChanged"
  BY AnsweringIs DEF ChangedMsg
<1> HIDE DEF a, c, e
<1>2. CASE Answering(f, m, o) \in {<<a>>, <<a, c>>}
  <2>1. 1 \in Idx(Answering(f, m, o)) /\ Answering(f, m, o)[1] = a
        /\ \A i \in Idx(Answering(f, m, o)) : i # 1 => Answering(f, m, o)[i] = c
    BY <1>2 DEF Idx
  <2> QED
    BY <1>1, <2>1 DEF a
<1>3. CASE Answering(f, m, o) = <<e, a>>
  <2>1. 2 \in Idx(Answering(f, m, o)) /\ Answering(f, m, o)[2] = a
        /\ \A i \in Idx(Answering(f, m, o)) : i # 2 => Answering(f, m, o)[i] = e
    BY <1>3 DEF Idx
  <2> QED
    BY <1>1, <2>1 DEF a
<1> QED
  BY <1>1, <1>2, <1>3

(* While nobody is greeted, an answer is to what the last frame wished.      *)
LEMMA UngreetedAnswer ==
  ASSUME Kept, Ungreeted, toHost # <<>>, Wishes(Head(toHost)), toHost' = Tail(toHost),
         \A r \in Requests : ask'[r].state = ask[r].state,
         NEW ms \in Seq(EmbedWire), Posts(ms), \A i \in Idx(ms) : ms[i] # Hello
  PROVE  Ungreeted'
<1>1. 1 \in Idx(toHost) /\ Wishes(toHost[1])
  BY RestIs DEF Kept, AllTyped, WiresTyped
<1>2. \A i \in Idx(toEmbed) : toEmbed[i] # Hello
  BY <1>1 DEF Ungreeted
<1>3. Holds(toEmbed', toEmbed, Hello)
  BY HostMessages, AddedQuiet DEF Posts, Kept, AllTyped, WiresTyped
<1>4. \A i \in Idx(toEmbed') : toEmbed'[i] # Hello
  BY <1>2, <1>3 DEF Holds
<1> QED
  BY <1>4 DEF Ungreeted

LEMMA HostHearsAsking == ASSUME Kept, Asking, HostHears PROVE Asking'
<1> DEFINE m == Head(toHost)
<1>1. m \in HostWire
  BY Taken DEF HostHears, Kept, AllTyped, WiresTyped
<1>2. toHost # <<>> /\ toHost' = Tail(toHost) /\ UNCHANGED pinned
  BY DEF HostHears
<1>3. CASE m.type \in {"ready", "findings"}
  <2>1. UNCHANGED <<toEmbed, ask>>
    BY <1>3 DEF HostHears
  <2>2. Later(toHost', toHost, "applyReplacement")
    BY <1>2, LaterTail DEF Kept, AllTyped, WiresTyped
  <2> QED
    BY <1>2, <2>1, <2>2, AskUnchanged, EmbedMovesAsking
<1>4. ASSUME Wishes(m), NEW ms \in Seq(EmbedWire), Posts(ms), NEW p \in Idx(ms), NEW a, ms[p] = a, Replies(a),
             \A i \in Idx(ms) : i # p => ms[i].type = "textChanged",
             a.request = m.request, pinned => Honest(ask'[m.request], a.ok),
             \A r \in Requests : ask'[r].state = ask[r].state /\ (r # m.request => ask'[r] = ask[r]),
             ask[m.request].state \in {"none", "ok", "refused"} => ask'[m.request] = ask[m.request]
      PROVE  Asking'
  <2>1. m.request \in Requests
    BY <1>1, <1>4, HostWires DEF Wishes
  <2>2. \A r \in Requests : Candid(ask'[r])
    <3> SUFFICES ASSUME NEW r \in Requests PROVE Candid(ask'[r])
      OBVIOUS
    <3>1. ask'[r] = ask[r] \/ ask'[r].state \notin {"none", "ok", "refused"}
      BY <1>4
    <3> QED
      BY <3>1 DEF Asking, Candid
  <2>3. CASE ~pinned
    <3>1. \A i \in Idx(ms) : ms[i] # Hello
      <4>1. \A i \in Idx(ms) : ms[i].type \in {"textChanged", "replaceResult"}
        BY <1>4 DEF Replies
      <4> QED
        BY <4>1 DEF Hello
    <3>2. Ungreeted'
      BY <1>2, <1>4, <2>3, <3>1, UngreetedAnswer DEF Asking
    <3> QED
      BY <1>2, <2>2, <2>3, <3>2 DEF Asking
  <2>4. CASE pinned
    <3>1. OneMore(toEmbed', toEmbed, "replaceResult", Len(toEmbed) + p, a)
      <4>1. \A i \in Idx(ms) : ms[i].type = "replaceResult" => i = p
        BY <1>4
      <4> QED
        BY <1>4, <4>1, OneAdded DEF Posts, Kept, AllTyped, WiresTyped
    <3>2. Told(ask', a)
      <4>1. 1 \in Idx(toHost) /\ m = toHost[1]
        BY <1>2, RestIs DEF Kept, AllTyped, WiresTyped
      <4>2. ask[m.request].state \in {"waiting", "gaveUp"}
        BY <1>4, <2>4, <4>1 DEF Asking, Greeted, Due
      <4> QED
        BY <1>4, <2>1, <2>4, <4>2 DEF Told
    <3>3. Greeted'
      BY <1>2, <1>4, <2>1, <2>4, <3>1, <3>2, AnswerAdded DEF Asking
    <3> QED
      BY <1>2, <2>2, <2>4, <3>3 DEF Asking, Kept, AllTyped, DocTyped
  <2> QED
    BY <2>3, <2>4 DEF Kept, AllTyped, DocTyped
<1>5. ASSUME Wishes(m) PROVE Unserved(ask[m.request])
  <2>1. 1 \in Idx(toHost) /\ m = toHost[1] /\ m.request \in Requests
    BY <1>1, <1>2, <1>5, RestIs, HostWires DEF Kept, AllTyped, WiresTyped, Wishes
  <2>2. CASE pinned
    BY <1>5, <2>1, <2>2 DEF Asking, Greeted, Due
  <2>3. CASE ~pinned
    BY <2>1, <2>3 DEF Asking, Ungreeted, Candid
  <2> QED
    BY <2>2, <2>3 DEF Kept, AllTyped, DocTyped
<1>6. CASE m.type = "applyReplacement" /\ active # m.field
  <2> DEFINE a == ResultMsg(m.request, m.field, FALSE, IF active = None THEN page[m.field] ELSE <<>>)
  <2>1. Posts(<<a>>) /\ UNCHANGED ask
    BY <1>6 DEF HostHears
  <2>2. a \in EmbedWire /\ Replies(a) /\ a.request = m.request /\ a.ok = FALSE
    <3>1. a \in EmbedWire
      BY <1>1, <1>6, HostWires, HostMessages, EmptyText DEF Kept, AllTyped, HostTyped
    <3> QED
      BY <3>1 DEF ResultMsg, Replies
  <2> HIDE DEF a
  <2>3. <<a>> \in Seq(EmbedWire) /\ 1 \in Idx(<<a>>) /\ <<a>>[1] = a /\ \A i \in Idx(<<a>>) : i = 1
    BY <2>2 DEF Idx
  <2>4. Wishes(m)
    BY <1>6 DEF Wishes
  <2> HIDE DEF m
  <2>5. Honest(ask'[m.request], a.ok)
    BY <1>5, <2>1, <2>2, <2>4 DEF Unserved, Honest
  <2> QED
    BY <1>4, <2>1, <2>2, <2>3, <2>4, <2>5
<1>7. CASE m.type = "applyReplacement" /\ active = m.field
  <2>1. PICK o \in Outcomes(active, page[active], m) :
           /\ o.text \in Texts
           /\ page' = [page EXCEPT ![active] = o.text]
           /\ Posts(Answering(active, m, o))
           /\ ask' = Carried(m, o)
           /\ UNCHANGED <<loading, ready, active, forgotten, marks>>
    BY <1>7, HostHearsApply
  <2>2. m.field \in Fields /\ m.request \in Requests /\ Wishes(m)
    BY <1>1, <1>7, HostWires DEF Wishes
  <2>3. /\ o.ok \in BOOLEAN /\ o.seen \in Texts
        /\ o.ok => Judged(page[active], m)
        /\ active \in Rich /\ o.ok => o.text = Put(page[active], m)
        /\ active \notin Rich /\ Judged(page[active], m) => o.ok
        /\ ~o.ok => o.text = page[active]
                   \/ (active \in Rich /\ Judged(page[active], m) /\ o.text # Put(page[active], m))
    BY <1>1, <1>7, <2>1, <2>2, OutcomesAre DEF Kept, AllTyped, HostTyped
  <2> DEFINE ms == Answering(active, m, o)
             a == ResultMsg(m.request, active, o.ok, o.text)
             d == Judged(page[active], m)
             b == (o.ok \/ o.text # page[active]) /\ o.text = Put(page[active], m)
  <2>4. ms \in Seq(EmbedWire)
    <3>1. active \in Fields /\ HostTyped
      BY <1>7, <2>2 DEF Kept, AllTyped
    <3>2. m.request \in Requests /\ o.ok \in BOOLEAN /\ o.text \in Texts /\ o.seen \in Texts
      BY <2>1, <2>2, <2>3
    <3> HIDE DEF m
    <3> QED
      BY <3>1, <3>2, AnsweringTyped
  <2>5. PICK p \in Idx(ms) : /\ ms[p] = a
                             /\ \A i \in Idx(ms) : i # p => ms[i].type = "textChanged"
    <3>1. active \in Fields
      BY <1>7, <2>2
    <3>2. m.request \in Requests /\ o.ok \in BOOLEAN /\ o.text \in Texts
      BY <2>1, <2>2, <2>3
    <3> HIDE DEF m
    <3> QED
      BY <3>1, <3>2, AnsweringAsks
  <2>6. Replies(a) /\ a.request = m.request /\ a.ok = o.ok
    BY DEF ResultMsg, Replies
  <2>7. /\ \A r \in Requests : ask'[r].state = ask[r].state /\ ask'[r].field = ask[r].field
        /\ \A r \in Requests : r # m.request \/ ask[r].state = "none" => ask'[r] = ask[r]
        /\ ask[m.request].state # "none" =>
             /\ ask'[m.request].met = (ask[m.request].met \/ d)
             /\ ask'[m.request].applied = (ask[m.request].applied \/ b)
    BY <1>1, <1>7, <2>1, CarriedIs
  <2>8. Posts(ms)
    BY <2>1
  <2>9. /\ b => d
        /\ o.ok => d
        /\ active \in Rich => (o.ok <=> b)
        /\ active \notin Rich => (o.ok <=> d)
    BY <2>3
  <2>10. pinned => ask[m.request].state \in {"waiting", "gaveUp"} /\ ask[m.request].field = active
    <3>1. 1 \in Idx(toHost) /\ m = toHost[1]
      BY <1>2, RestIs DEF Kept, AllTyped, WiresTyped, m
    <3> QED
      BY <1>7, <2>2, <3>1 DEF Asking, Greeted, Due
  <2>11. ~pinned => ask[m.request].state = "none"
    BY <2>2 DEF Asking, Ungreeted
  <2> HIDE DEF m, a, b, d, ms
  <2>12. pinned => Honest(ask'[m.request], a.ok)
    <3> SUFFICES ASSUME pinned PROVE Honest(ask'[m.request], a.ok)
      OBVIOUS
    <3>1. ~ask[m.request].met /\ ~ask[m.request].applied
      BY <1>5, <2>2 DEF Unserved
    <3>2. ask'[m.request].met = d /\ ask'[m.request].applied = b /\ ask'[m.request].field = active
      <4>1. ask[m.request] \in Asked
        BY <2>2 DEF Kept, AllTyped, DocTyped
      <4> QED
        BY <2>2, <2>7, <2>10, <3>1, <4>1 DEF d, b, Judged
    <3> QED
      BY <2>6, <2>9, <3>2 DEF Honest
  <2>13. ask[m.request].state \in {"none", "ok", "refused"} => ask'[m.request] = ask[m.request]
    BY <2>2, <2>7, <2>10, <2>11 DEF Kept, AllTyped, DocTyped
  <2> QED
    BY <1>4, <2>2, <2>4, <2>5, <2>6, <2>7, <2>8, <2>12, <2>13
<1> QED
  BY <1>1, <1>3, <1>6, <1>7, HostWires

(* What the embed makes of a message.                                        *)
LEMMA GreetingAsks ==
  ASSUME Kept, Asking, ~pinned, toEmbed # <<>>, Head(toEmbed) = Hello, toEmbed' = Tail(toEmbed),
         SendsAfter(<<Ready>>), UNCHANGED ask
  PROVE  Greeted'
<1>1. Rest(toEmbed', toEmbed) /\ 1 \in Idx(toEmbed) /\ toEmbed[1] = Hello
  BY RestIs DEF Kept, AllTyped, WiresTyped
<1>2. Ungreeted
  BY DEF Asking
<1>3. \A i \in Idx(toHost) : ~Wishes(toHost[i])
  BY <1>1, <1>2 DEF Ungreeted
<1>4. \A i \in Idx(toHost') : ~Wishes(toHost'[i])
  <2>1. <<Ready>> \in Seq(HostWire) /\ \A i \in Idx(<<Ready>>) : <<Ready>>[i].type # "applyReplacement"
    BY DEF HostWire, Spoken, Ready, Idx
  <2>2. PICK k \in {0, 1} : LaterBy(k, toHost', toHost, "applyReplacement")
    BY <2>1, SentQuiet DEF Later
  <2> QED
    BY <1>3, <2>2 DEF LaterBy, Wishes
<1>5. ASSUME NEW i \in Idx(toEmbed'), Replies(toEmbed'[i]) PROVE FALSE
  <2> DEFINE k == i + 1
  <2>1. k \in Idx(toEmbed) /\ 1 < k /\ Replies(toEmbed[k])
    BY <1>1, <1>5 DEF Rest, Idx
  <2> HIDE DEF k
  <2> QED
    BY <1>1, <1>2, <2>1 DEF Ungreeted
<1> QED
  BY <1>4, <1>5 DEF Greeted

LEMMA ResultAsks ==
  ASSUME Kept, Asking, pinned, toEmbed # <<>>, NEW m, m = Head(toEmbed), Replies(m), m.request \in Requests,
         m.ok \in BOOLEAN, toEmbed' = Tail(toEmbed), Later(toHost', toHost, "applyReplacement"),
         ask' = Settled(m.request, IF m.ok THEN "ok" ELSE "refused")
  PROVE  /\ Greeted'
         /\ \A r \in Requests : Candid(ask'[r])
<1> DEFINE q == m.request
<1>1. /\ ask'[q].state = IF ask[q].state = "waiting" THEN IF m.ok THEN "ok" ELSE "refused" ELSE ask[q].state
      /\ ask'[q].met = ask[q].met /\ ask'[q].applied = ask[q].applied /\ ask'[q].field = ask[q].field
      /\ \A r \in Requests : r # q => ask'[r] = ask[r]
  BY SettledStates
<1>2. Rest(toEmbed', toEmbed) /\ 1 \in Idx(toEmbed) /\ toEmbed[1] = m
  BY RestIs DEF Kept, AllTyped, WiresTyped
<1>3. Greeted /\ Told(ask, m)
  BY <1>2 DEF Asking, Greeted
<1>4. \A r \in Requests : Candid(ask'[r])
  <2>1. ask[q].state \in {"waiting", "gaveUp"} /\ Honest(ask[q], m.ok)
    BY <1>3 DEF Told
  <2>2. Honest(ask'[q], m.ok)
    BY <1>1, <2>1 DEF Honest
  <2>3. Candid(ask'[q])
    BY <1>1, <2>1, <2>2 DEF Candid
  <2> QED
    BY <1>1, <2>3 DEF Asking
<1>5. \A i \in Idx(toHost) : Wishes(toHost[i]) => toHost[i].request # q
  BY <1>2, <1>3 DEF Greeted
<1>6. ASSUME NEW i \in Idx(toEmbed'), Replies(toEmbed'[i])
      PROVE  i + 1 \in Idx(toEmbed) /\ toEmbed'[i] = toEmbed[i + 1] /\ toEmbed'[i].request # q
  <2> DEFINE k == i + 1
  <2>1. k \in Idx(toEmbed) /\ k # 1 /\ toEmbed'[i] = toEmbed[k]
    BY <1>2 DEF Rest
  <2> HIDE DEF k
  <2>2. toEmbed[k].request # q
    BY <1>2, <1>3, <1>6, <2>1 DEF Greeted
  <2> QED
    BY <2>1, <2>2 DEF k
<1>7. PICK l \in {0, 1} : LaterBy(l, toHost', toHost, "applyReplacement")
  BY DEF Later
<1>8. \A i \in Idx(toHost') : Wishes(toHost'[i]) =>
        i + l \in Idx(toHost) /\ toHost'[i] = toHost[i + l] /\ toHost'[i].request # q
  BY <1>5, <1>7 DEF LaterBy, Wishes
<1> HIDE DEF q
<1>9. ASSUME NEW i \in Idx(toHost'), Wishes(toHost'[i]) PROVE Due(ask', toHost'[i])
  <2>1. toHost'[i].request \in Requests \ {q} /\ Due(ask, toHost'[i])
    BY <1>3, <1>8, <1>9, WiresTypes DEF Greeted
  <2> QED
    BY <1>1, <2>1 DEF Due
<1>10. ASSUME NEW i \in Idx(toEmbed'), Replies(toEmbed'[i]) PROVE Told(ask', toEmbed'[i])
  <2>1. toEmbed'[i].request \in Requests \ {q} /\ Told(ask, toEmbed'[i])
    BY <1>3, <1>6, <1>10, WiresTypes DEF Greeted
  <2> QED
    BY <1>1, <2>1 DEF Told
<1>11. ASSUME NEW i \in Idx(toHost'), NEW j \in Idx(toHost'), Wishes(toHost'[i]), Wishes(toHost'[j]),
              toHost'[i].request = toHost'[j].request
       PROVE  i = j
  <2> DEFINE k == i + l
             o == j + l
  <2>1. k \in Idx(toHost) /\ toHost'[i] = toHost[k] /\ o \in Idx(toHost) /\ toHost'[j] = toHost[o]
    BY <1>8, <1>11
  <2> HIDE DEF k, o
  <2>2. k = o
    BY <1>3, <1>11, <2>1 DEF Greeted
  <2> QED
    BY <2>2 DEF k, o, Idx
<1>12. ASSUME NEW i \in Idx(toEmbed'), NEW j \in Idx(toEmbed'), Replies(toEmbed'[i]), Replies(toEmbed'[j]),
              toEmbed'[i].request = toEmbed'[j].request
       PROVE  i = j
  <2> DEFINE k == i + 1
             o == j + 1
  <2>1. k \in Idx(toEmbed) /\ o \in Idx(toEmbed) /\ toEmbed'[i] = toEmbed[k] /\ toEmbed'[j] = toEmbed[o]
    BY <1>6, <1>12
  <2> HIDE DEF k, o
  <2>2. k = o
    BY <1>3, <1>12, <2>1 DEF Greeted
  <2> QED
    BY <2>2 DEF k, o, Idx
<1>13. ASSUME NEW i \in Idx(toHost'), NEW j \in Idx(toEmbed'), Wishes(toHost'[i]), Replies(toEmbed'[j])
       PROVE  toHost'[i].request # toEmbed'[j].request
  <2> DEFINE k == i + l
             o == j + 1
  <2>1. k \in Idx(toHost) /\ toHost'[i] = toHost[k] /\ Wishes(toHost[k])
    BY <1>8, <1>13
  <2>2. o \in Idx(toEmbed) /\ toEmbed'[j] = toEmbed[o] /\ Replies(toEmbed[o])
    BY <1>6, <1>13
  <2> HIDE DEF k, o
  <2> QED
    BY <1>3, <2>1, <2>2 DEF Greeted
<1>14. Greeted'
  BY <1>9, <1>10, <1>11, <1>12, <1>13 DEF Greeted
<1> QED
  BY <1>4, <1>14

LEMMA EmbedHearsAsking == ASSUME Kept, Asking, EmbedHears PROVE Asking'
<1> DEFINE m == Head(toEmbed)
<1>1. m \in EmbedWire
  BY Taken DEF EmbedHears, Kept, AllTyped, WiresTyped
<1>2. toEmbed # <<>> /\ toEmbed' = Tail(toEmbed)
  BY DEF EmbedHears
<1>3. ASSUME Milder, pinned' = pinned, Later(toHost', toHost, "applyReplacement") PROVE Asking'
  BY <1>2, <1>3, HeardQuiet, AskingLater
<1>4. CASE m.type = "hello"
  <2>1. pinned' = TRUE /\ SendsAfter(<<Ready>>) /\ UNCHANGED ask
    BY <1>4 DEF EmbedHears
  <2>2. CASE pinned
    <3>1. <<Ready>> \in Seq(HostWire) /\ \A i \in Idx(<<Ready>>) : <<Ready>>[i].type # "applyReplacement"
      BY DEF HostWire, Spoken, Ready, Idx
    <3> QED
      BY <1>3, <2>1, <2>2, <3>1, AskUnchanged, SentQuiet
  <2>3. CASE ~pinned
    <3>1. m = Hello
      BY <1>1, <1>4, EmbedWires
    <3>2. Greeted'
      BY <1>2, <2>1, <2>3, <3>1, GreetingAsks
    <3> QED
      BY <2>1, <3>2 DEF Asking
  <2> QED
    BY <2>2, <2>3 DEF Kept, AllTyped, DocTyped
<1>5. CASE m.type # "hello" /\ ~pinned
  <2>1. UNCHANGED <<pinned, ask, toHost>>
    BY <1>5 DEF EmbedHears
  <2> QED
    BY <1>3, <2>1, AskUnchanged, UnsentQuiet
<1>6. CASE m.type = "fieldConnected" /\ pinned
  <2>1. OnConnected(m) /\ UNCHANGED pinned
    BY <1>6 DEF EmbedHears
  <2> QED
    BY <1>3, <2>1, ResetQuiet DEF OnConnected
<1>7. CASE m.type = "fieldDisconnected" /\ pinned
  <2>1. OnDisconnected(m) /\ UNCHANGED pinned
    BY <1>7 DEF EmbedHears
  <2> QED
    BY <1>3, <2>1, ResetQuiet, AskUnchanged, UnsentQuiet DEF OnDisconnected
<1>8. CASE m.type = "textChanged" /\ pinned
  <2>1. OnChanged(m) /\ UNCHANGED pinned
    BY <1>8 DEF EmbedHears
  <2>2. m.text \in Texts
    BY <1>1, <1>8, EmbedWires
  <2> QED
    BY <1>3, <2>1, <2>2, SyncQuiet, AskUnchanged, UnsentQuiet DEF OnChanged
<1>9. CASE m.type = "replaceResult" /\ pinned
  <2>1. OnResult(m) /\ UNCHANGED pinned
    BY <1>9 DEF EmbedHears
  <2>2. m.text \in Texts /\ m.request \in Requests /\ m.ok \in BOOLEAN /\ Replies(m)
    BY <1>1, <1>9, EmbedWires DEF Replies
  <2>3. CASE m.field = field
    <3>1. ask' = Settled(m.request, IF m.ok THEN "ok" ELSE "refused") /\ Sync(m.text)
      BY <2>1, <2>3 DEF OnResult
    <3>2. Later(toHost', toHost, "applyReplacement")
      BY <2>2, <3>1, SyncQuiet
    <3> QED
      BY <1>2, <1>9, <2>1, <2>2, <3>1, <3>2, ResultAsks DEF Asking
  <2>4. CASE m.field # field
    BY <1>3, <2>1, <2>4, AskUnchanged, UnsentQuiet DEF OnResult
  <2> QED
    BY <2>3, <2>4
<1>10. CASE m.type = "markingClicked" /\ pinned
  <2>1. OnClicked(m) /\ UNCHANGED pinned
    BY <1>10 DEF EmbedHears
  <2> QED
    BY <1>3, <2>1, AskUnchanged, UnsentQuiet DEF OnClicked
<1> QED
  BY <1>1, <1>4, <1>5, <1>6, <1>7, <1>8, <1>9, <1>10, EmbedWires

LEMMA PanelMovesAsking ==
  ASSUME Kept, Asking,
         Select \/ Check \/ Effects \/ Answer \/ Restore \/ SignOut \/ \E u \in Users : SignIn(u)
  PROVE  Asking'
<1>1. UNCHANGED <<toEmbed, pinned>>
  BY DEF Select, Check, Effects, Answer, Restore, SignOut, SignIn, HostRests
<1>2. CASE Select \/ Restore
  <2>1. UNCHANGED <<toHost, ask>>
    BY <1>2 DEF Select, Restore
  <2> QED
    BY <1>1, <2>1, AskUnchanged, UnsentQuiet, EmbedMovesAsking
<1>3. CASE Check
  <2>1. PICK sources \in SUBSET Sources : RunCheck(sources) /\ UNCHANGED ask
    BY <1>3 DEF Check, Sources
  <2> QED
    BY <1>1, <2>1, AskUnchanged, RunCheckQuiet, EmbedMovesAsking
<1>4. CASE Effects
  <2>1. UNCHANGED ask /\ (UNCHANGED toHost \/ RunCheck({"rule"}))
    BY <1>4 DEF Effects
  <2>2. {"rule"} \in SUBSET Sources
    BY DEF Sources
  <2> QED
    BY <1>1, <2>1, <2>2, AskUnchanged, UnsentQuiet, RunCheckQuiet, EmbedMovesAsking
<1>5. CASE Answer
  BY <1>1, <1>5, AskUnchanged, AnswerQuiet, EmbedMovesAsking DEF Answer
<1>6. CASE SignOut \/ \E u \in Users : SignIn(u)
  <2>1. ResetConnection
    BY <1>6 DEF SignOut, SignIn
  <2> QED
    BY <1>1, <2>1, ResetQuiet, EmbedMovesAsking
<1> QED
  BY <1>2, <1>3, <1>4, <1>5, <1>6

LEMMA AskingInit == Init => Asking
<1> SUFFICES ASSUME Init PROVE Asking
  OBVIOUS
<1>1. Idx(toEmbed) = {} /\ Idx(toHost) = {}
  BY EmptySeq DEF Init, Idx
<1>2. \A r \in Requests : ask[r].state = "none" /\ Candid(ask[r])
  BY DEF Init, NoRequest, Candid, Unserved
<1>3. Ungreeted /\ Greeted
  BY <1>1, <1>2 DEF Ungreeted, Greeted
<1> QED
  BY <1>2, <1>3 DEF Asking

LEMMA AskingNext == Kept /\ Owned /\ Asking /\ [Next]_vars => Asking'
<1> SUFFICES ASSUME Kept, Owned, Asking, [Next]_vars PROVE Asking'
  OBVIOUS
<1>1. CASE UNCHANGED vars
  BY <1>1, AskUnchanged, UnsentQuiet, EmbedMovesAsking DEF vars
<1>2. CASE FrameLoads \/ HelloAgain \/ Leave \/ Click \/ \E f \in Fields : Connect(f) \/ Type(f)
  BY <1>2, QuietAsks
<1>3. CASE HostHears \/ EmbedHears
  BY <1>3, HostHearsAsking, EmbedHearsAsking
<1>4. CASE ApplySuggestion \/ ApplyRewrite
  BY <1>4, ApplySuggestionWants, ApplyRewriteWants, WantsAsking
<1>5. CASE Select \/ Check \/ Effects \/ Answer \/ Restore \/ SignOut \/ \E u \in Users : SignIn(u)
  BY <1>5, PanelMovesAsking
<1>6. CASE Reload \/ \E r \in Requests : Timeout(r)
  BY <1>6, ReloadAsking, TimeoutAsking
<1> QED
  BY <1>1, <1>2, <1>3, <1>4, <1>5, <1>6 DEF Next

LEMMA AskingAlways == Spec => [](Kept /\ Owned /\ Asking)
BY KeptInit, KeptNext, OwnedInit, OwnedNext, AskingInit, AskingNext, PTL DEF Spec

(* `ok' is said only where the text was found, of a rich field only of what   *)
(* was put in; a refusal only of what was not, although a request may time    *)
(* out before, and the frame that asked may be gone.                        *)
THEOREM AnswersStayTrue == Spec => []AnswersAreTrue
<1>1. Asking => AnswersAreTrue
  BY DEF Asking, Candid, Honest, AnswersAreTrue
<1> QED
  BY <1>1, AskingAlways, PTL

(* What is put in goes where the panel saw the text it replaces.             *)
LEMMA AppliedByHost ==
  ASSUME Kept, [Next]_vars, NEW r \in Requests, ~ask[r].applied, ask'[r].applied
  PROVE  HostHears /\ Head(toHost).type = "applyReplacement" /\ active = Head(toHost).field
<1>1. ~Milder /\ ask' # ask
  BY DEF Milder
<1>2. ask \in [Requests -> Asked]
  BY DEF Kept, AllTyped, DocTyped
<1>3. CASE UNCHANGED vars
  BY <1>1, <1>3 DEF vars
<1>4. CASE \/ FrameLoads \/ HelloAgain \/ Leave \/ Click \/ Select \/ Check \/ Effects \/ Answer \/ Restore
           \/ \E f \in Fields : Connect(f) \/ Type(f)
  BY <1>1, <1>4 DEF FrameLoads, HelloAgain, Leave, Click, Select, Check, Effects, Answer, Restore, Connect, Type,
                    EmbedRests
<1>5. CASE HostHears
  <2>1. Head(toHost) \in HostWire
    BY <1>5, Taken DEF HostHears, Kept, AllTyped, WiresTyped
  <2> QED
    BY <1>1, <1>5, <2>1, HostWires DEF HostHears
<1>6. CASE EmbedHears
  <2> DEFINE m == Head(toEmbed)
  <2>1. m \in EmbedWire
    BY <1>6, Taken DEF EmbedHears, Kept, AllTyped, WiresTyped
  <2>2. CASE m.type = "replaceResult" /\ pinned
    <3>1. OnResult(m) /\ m.request \in Requests
      BY <1>6, <2>1, <2>2, EmbedWires DEF EmbedHears
    <3>2. ask' = Settled(m.request, IF m.ok THEN "ok" ELSE "refused")
      BY <1>1, <3>1 DEF OnResult
    <3>3. ask'[r].applied = ask[r].applied
      BY <3>1, <3>2, SettledStates
    <3> QED
      BY <3>3
  <2>3. CASE m.type \in {"fieldConnected", "fieldDisconnected"} /\ pinned
    <3>1. OnConnected(m) \/ OnDisconnected(m)
      BY <1>6, <2>3 DEF EmbedHears
    <3> QED
      BY <1>1, <3>1, ResetMilder DEF OnConnected, OnDisconnected
  <2>4. CASE m.type \in {"hello", "textChanged", "markingClicked"} \/ ~pinned
    <3>1. UNCHANGED ask
      BY <1>6, <2>4 DEF EmbedHears, OnChanged, OnClicked
    <3> QED
      BY <1>1, <3>1
  <2> QED
    BY <2>1, <2>2, <2>3, <2>4, EmbedWires
<1>7. CASE ApplySuggestion \/ ApplyRewrite
  <2>1. PICK item \in Offered : Wants(item)
    BY <1>7, ApplySuggestionWants, ApplyRewriteWants
  <2>2. PICK from \in Nat, to \in Nat, insert \in Inserts :
          from <= to /\ to <= Len(buffer) /\ SendReplace(item, from, to, insert)
    BY <2>1 DEF Wants
  <2>3. item \in Finding
    BY <2>1 DEF Wants
  <2> DEFINE said == Slice(buffer, from, to)
             Sent(q) == [type |-> "applyReplacement", request |-> q, field |-> field,
                         from |-> from, to |-> to, insert |-> insert, expected |-> said]
             Waiting == [state |-> "waiting", id |-> item.id, field |-> field, said |-> said, met |-> FALSE, applied |-> FALSE]
  <2>4. PICK x \in Requests : /\ ask[x].state = "none" /\ field \in Fields
                              /\ ask' = [ask EXCEPT ![x] = Waiting]
                              /\ SendsAfter(<<Sent(x)>>) /\ Sent(x) \in HostWire
    BY <2>2, <2>3, SendReplaceIs
  <2>5. ask'[r] = IF r = x THEN Waiting ELSE ask[r]
    BY <1>2, <2>4
  <2> QED
    BY <2>5
<1>8. CASE \E q \in Requests : Timeout(q)
  <2>1. PICK q \in Requests : ask' = [ask EXCEPT ![q].state = "gaveUp"]
    BY <1>8 DEF Timeout
  <2>2. ask'[r].applied = ask[r].applied
    BY <1>2, <2>1 DEF Asked
  <2> QED
    BY <2>2
<1>9. CASE SignOut \/ \E u \in Users : SignIn(u)
  BY <1>1, <1>9, ResetMilder DEF SignOut, SignIn
<1>10. CASE Reload
  BY <1>10 DEF Reload, NoRequest
<1> QED
  BY <1>3, <1>4, <1>5, <1>6, <1>7, <1>8, <1>9, <1>10 DEF Next

LEMMA ShownIsReplaced ==
  ASSUME Kept, Asking, [Next]_vars, NEW r \in Requests, ~ask[r].applied, ask'[r].applied
  PROVE  \E insert \in Inserts : LET f == ask[r].field IN
         \E u \in 0..(Len(page[f]) - Len(ask[r].said)) :
           /\ Slice(page[f], u, u + Len(ask[r].said)) = ask[r].said
           /\ page' = [page EXCEPT ![f] = Replaced(@, u, u + Len(ask[r].said), insert)]
<1> DEFINE m == Head(toHost)
<1>1. HostHears /\ Wishes(m) /\ active = m.field
  BY AppliedByHost DEF Wishes
<1>2. m \in HostWire /\ 1 \in Idx(toHost) /\ m = toHost[1]
  BY <1>1, Taken, RestIs DEF HostHears, Kept, AllTyped, WiresTyped
<1>3. /\ m.request \in Requests /\ active \in Fields /\ m.insert \in Inserts
      /\ m.from \in Nat /\ m.to \in Nat /\ m.from <= m.to /\ m.expected \in Pieces
  BY <1>1, <1>2, HostWires DEF Wishes
<1> DEFINE t == page[active]
<1>4. t \in Texts /\ t \in Pieces /\ Len(t) \in Nat
  BY <1>3, EmptyText, LenProperties DEF Kept, AllTyped, HostTyped, Pieces
<1>5. PICK o \in Outcomes(active, t, m) :
        /\ page' = [page EXCEPT ![active] = o.text]
        /\ ask' = Carried(m, o)
  BY <1>1, HostHearsApply DEF Wishes
<1>6. /\ o.ok => Judged(t, m)
      /\ ~o.ok => o.text = t \/ o.text # Put(t, m)
  <2>1. m.type = "applyReplacement"
    BY <1>1 DEF Wishes
  <2>2. o \in Outcomes(active, t, m)
    BY <1>5
  <2> HIDE DEF m, t
  <2> QED
    BY <1>2, <1>3, <1>4, <2>1, <2>2, OutcomesAre
<1> DEFINE b == (o.ok \/ o.text # t) /\ o.text = Put(t, m)
<1>7. m.request = r /\ ask[r].state # "none" /\ b
  <2>1. /\ \A q \in Requests : q # m.request \/ ask[q].state = "none" => ask'[q] = ask[q]
        /\ ask[m.request].state # "none" => ask'[m.request].applied = (ask[m.request].applied \/ b)
    BY <1>1, <1>2, <1>5, CarriedIs DEF Wishes
  <2> HIDE DEF b, m
  <2> QED
    BY <2>1
<1>8. o.text = Put(t, m) /\ m.to <= Len(t) /\ Slice(t, m.from, m.to) = m.expected
  BY <1>6, <1>7 DEF Judged
<1>9. ask[r].field = active /\ ask[r].said = m.expected
  <2>1. pinned
    BY <1>7 DEF Asking, Ungreeted
  <2> QED
    BY <1>1, <1>2, <1>7, <2>1 DEF Asking, Greeted, Due
<1>10. Len(m.expected) = m.to - m.from
  <2>1. Len(Slice(t, m.from, m.to)) = IF m.from < m.to THEN m.to - m.from ELSE 0
    <3> HIDE DEF t, m
    <3> QED
      BY <1>3, <1>4, <1>8, SliceIs
  <2> HIDE DEF t, m
  <2> QED
    BY <1>3, <1>8, <2>1
<1> DEFINE u == m.from
           n == Len(m.expected)
<1>11. u \in 0..(Len(t) - n) /\ u + n = m.to
  <2>1. n = m.to - u
    BY <1>10
  <2> HIDE DEF t, n
  <2> QED
    BY <1>3, <1>4, <1>8, <2>1
<1>12. page' = [page EXCEPT ![active] = Replaced(@, u, u + n, m.insert)]
  BY <1>3, <1>5, <1>8, <1>11 DEF Put, Kept, AllTyped, HostTyped
<1>13. Slice(page[active], u, u + n) = m.expected
  BY <1>8, <1>11
<1> HIDE DEF m, t, u, n
<1>14. PICK f, said : f = ask[r].field /\ said = ask[r].said
  OBVIOUS
<1>15. f = active /\ said = m.expected /\ Len(said) = n
  BY <1>9, <1>14 DEF n
<1>16. /\ u \in 0..(Len(page[f]) - Len(said)) /\ Slice(page[f], u, u + Len(said)) = said
       /\ page' = [page EXCEPT ![f] = Replaced(@, u, u + Len(said), m.insert)]
  BY <1>11, <1>12, <1>13, <1>15 DEF t
<1> QED
  BY <1>3, <1>14, <1>16

(* A request that is honoured changes one place of its field, which holds     *)
(* what the panel showed when it was made.                                 *)
THEOREM OnlyShownTextIsReplaced == Spec => OnlyWhatWasShown
<1>1. Kept /\ Asking /\ [Next]_vars =>
        [\A r \in Requests : ~ask[r].applied /\ ask'[r].applied =>
           \E insert \in Inserts : LET f == ask[r].field IN
           \E u \in 0..(Len(page[f]) - Len(ask[r].said)) :
             /\ Slice(page[f], u, u + Len(ask[r].said)) = ask[r].said
             /\ page' = [page EXCEPT ![f] = Replaced(@, u, u + Len(ask[r].said), insert)]]_vars
  BY ShownIsReplaced
<1> QED
  BY <1>1, AskingAlways, PTL DEF Spec, OnlyWhatWasShown

-----------------------------------------------------------------------------
(* The copy in step.  What the embed makes of its copy of the field once it  *)
(* has heard all that is under way is what the host has.                     *)

View == [pinned : BOOLEAN, field : Fields \cup {None}, text : Texts]
View0 == [pinned |-> pinned, field |-> field, text |-> buffer]

\* What a message makes of it.
Heard(s, m) ==
  IF m.type = "hello" THEN [s EXCEPT !.pinned = TRUE]
  ELSE IF ~s.pinned THEN s
  ELSE IF m.type = "fieldConnected" THEN [s EXCEPT !.field = m.field, !.text = m.text]
  ELSE IF m.type = "fieldDisconnected" /\ m.field = s.field THEN [s EXCEPT !.field = None, !.text = <<>>]
  ELSE IF m.type \in {"textChanged", "replaceResult"} /\ m.field = s.field THEN [s EXCEPT !.text = m.text]
  ELSE s

\* What a queue of messages makes of it.
Leads(q, s, e) ==
  \E S \in [0..Len(q) -> View] :
    S[0] = s /\ S[Len(q)] = e /\ \A i \in Idx(q) : S[i] = Heard(S[i - 1], q[i])

LEMMA HeardIsView ==
  ASSUME NEW s \in View, NEW m \in EmbedWire
  PROVE  Heard(s, m) \in View
BY EmbedWires, EmptyText DEF Heard, View

LEMMA LeadsNowhere ==
  ASSUME NEW s \in View
  PROVE  Leads(<<>>, s, s)
<1> DEFINE S == [i \in 0..0 |-> s]
<1>1. Len(<<>>) = 0 /\ Idx(<<>>) = {}
  BY EmptySeq DEF Idx
<1>2. S \in [0..0 -> View] /\ S[0] = s
  OBVIOUS
<1> QED
  BY <1>1, <1>2 DEF Leads

LEMMA LeadsAreViews ==
  ASSUME NEW q \in Seq(EmbedWire), NEW s, NEW e, Leads(q, s, e)
  PROVE  s \in View /\ e \in View
BY LenProperties DEF Leads

LEMMA LeadsNowhereElse ==
  ASSUME NEW s, NEW e, Leads(<<>>, s, e)
  PROVE  e = s
BY EmptySeq DEF Leads

LEMMA LeadsOn ==
  ASSUME NEW q \in Seq(EmbedWire), NEW s, NEW e, Leads(q, s, e), NEW m \in EmbedWire
  PROVE  Leads(q \o <<m>>, s, Heard(e, m))
<1> DEFINE n == Len(q)
           new == q \o <<m>>
<1>1. PICK S \in [0..n -> View] : S[0] = s /\ S[n] = e /\ \A i \in Idx(q) : S[i] = Heard(S[i - 1], q[i])
  BY DEF Leads
<1>2. /\ n \in Nat /\ Len(new) = n + 1 /\ new[n + 1] = m
      /\ \A i \in 1..n : new[i] = q[i]
  <2>1. <<m>> \in Seq(EmbedWire) /\ Len(<<m>>) = 1 /\ <<m>>[1] = m
    OBVIOUS
  <2>2. /\ Len(q) \in Nat /\ Len(new) = Len(q) + 1
        /\ \A i \in 1..(Len(q) + 1) : new[i] = IF i <= Len(q) THEN q[i] ELSE <<m>>[i - Len(q)]
    BY <2>1, ConcatProperties, LenProperties
  <2> QED
    BY <2>1, <2>2
<1> DEFINE T == [i \in 0..(n + 1) |-> IF i <= n THEN S[i] ELSE Heard(e, m)]
<1>3. e \in View /\ Heard(e, m) \in View
  BY <1>1, <1>2, HeardIsView
<1> HIDE DEF n, new
<1>4. T \in [0..(n + 1) -> View]
  BY <1>1, <1>2, <1>3
<1>5. T[0] = s /\ T[n + 1] = Heard(e, m)
  BY <1>1, <1>2
<1>6. ASSUME NEW i \in 1..(n + 1) PROVE T[i] = Heard(T[i - 1], new[i])
  <2>1. CASE i <= n
    <3>1. T[i] = S[i] /\ T[i - 1] = S[i - 1] /\ i \in 1..n /\ new[i] = q[i]
      BY <1>2, <2>1
    <3> QED
      BY <1>1, <3>1 DEF Idx, n
  <2>2. CASE i = n + 1
    <3>1. T[i] = Heard(e, m) /\ T[i - 1] = S[n] /\ new[i] = m
      BY <1>2, <2>2
    <3> QED
      BY <1>1, <3>1
  <2> QED
    BY <1>2, <2>1, <2>2
<1> HIDE DEF T
<1> QED
  BY <1>2, <1>4, <1>5, <1>6 DEF Leads, Idx, new

LEMMA LeadsFromNext ==
  ASSUME NEW q \in Seq(EmbedWire), q # <<>>, NEW s, NEW e, Leads(q, s, e)
  PROVE  Leads(Tail(q), Heard(s, Head(q)), e)
<1> DEFINE n == Len(q)
           new == Tail(q)
<1>1. PICK S \in [0..n -> View] : S[0] = s /\ S[n] = e /\ \A i \in Idx(q) : S[i] = Heard(S[i - 1], q[i])
  BY DEF Leads
<1>2. n \in Nat /\ n >= 1 /\ Len(new) = n - 1 /\ Head(q) = q[1] /\ \A i \in 1..(n - 1) : new[i] = q[i + 1]
  BY LenProperties, HeadTailProperties, EmptySeq
<1> DEFINE T == [i \in 0..(n - 1) |-> S[i + 1]]
<1> HIDE DEF n, new
<1>3. T \in [0..(n - 1) -> View]
  BY <1>1, <1>2
<1>4. T[0] = Heard(s, Head(q)) /\ T[n - 1] = e
  <2>1. T[0] = S[1] /\ T[n - 1] = S[n] /\ 1 \in Idx(q)
    BY <1>2 DEF Idx, n
  <2>2. S[1] = Heard(S[1 - 1], q[1])
    BY <1>1, <2>1
  <2> QED
    BY <1>1, <1>2, <2>1, <2>2
<1>5. ASSUME NEW i \in 1..(n - 1) PROVE T[i] = Heard(T[i - 1], new[i])
  <2> DEFINE k == i + 1
  <2>1. T[i] = S[k] /\ T[i - 1] = S[k - 1] /\ new[i] = q[k] /\ k \in Idx(q)
    BY <1>2 DEF Idx, n
  <2> QED
    BY <1>1, <2>1
<1> HIDE DEF T
<1> QED
  BY <1>2, <1>3, <1>4, <1>5 DEF Leads, Idx, new

\* Nothing but a connection connects.
LEMMA LeadsToNoOther ==
  ASSUME NEW q \in Seq(EmbedWire), NEW s, NEW e, Leads(q, s, e),
         \A i \in Idx(q) : q[i].type # "fieldConnected"
  PROVE  e.field \in {s.field, None}
<1> DEFINE n == Len(q)
<1>1. PICK S \in [0..n -> View] : S[0] = s /\ S[n] = e /\ \A i \in Idx(q) : S[i] = Heard(S[i - 1], q[i])
  BY DEF Leads
<1>2. n \in Nat
  BY LenProperties
<1> HIDE DEF n
<1> DEFINE others == {i \in 0..n : S[i].field \notin {s.field, None}}
<1>3. ASSUME others # {} PROVE FALSE
  <2>1. others \in SUBSET Nat
    BY <1>2
  <2>2. PICK i \in others : \A j \in others : i <= j
    <3> HIDE DEF others
    <3> QED
      BY <1>3, <2>1, Smallest
  <2>3. i \in 0..n /\ i # 0
    BY <1>1
  <2>4. i \in 1..n /\ i - 1 \in 0..n
    BY <1>2, <2>3
  <2>5. i - 1 \notin others
    <3> HIDE DEF others
    <3> QED
      BY <2>2, <2>4
  <2>6. S[i - 1].field \in {s.field, None} /\ S[i - 1] \in View
    BY <1>1, <2>4, <2>5
  <2>7. S[i] = Heard(S[i - 1], q[i]) /\ q[i].type # "fieldConnected"
    BY <1>1, <2>4 DEF Idx, n
  <2>8. S[i].field \in {S[i - 1].field, None}
    BY <2>6, <2>7 DEF Heard, View
  <2> QED
    BY <2>6, <2>8
<1> QED
  BY <1>1, <1>2, <1>3

\* Nothing but a greeting introduces the host.
LEMMA LeadsToNoHost ==
  ASSUME NEW q \in Seq(EmbedWire), NEW s, NEW e, Leads(q, s, e), ~s.pinned,
         \A i \in Idx(q) : q[i] # Hello
  PROVE  ~e.pinned
<1> DEFINE n == Len(q)
<1>1. PICK S \in [0..n -> View] : S[0] = s /\ S[n] = e /\ \A i \in Idx(q) : S[i] = Heard(S[i - 1], q[i])
  BY DEF Leads
<1>2. n \in Nat /\ \A i \in 1..n : q[i] \in EmbedWire
  BY LenProperties, ElementOfSeq
<1> HIDE DEF n
<1> DEFINE others == {i \in 0..n : S[i].pinned}
<1>3. ASSUME others # {} PROVE FALSE
  <2>1. others \in SUBSET Nat
    BY <1>2
  <2>2. PICK i \in others : \A j \in others : i <= j
    <3> HIDE DEF others
    <3> QED
      BY <1>3, <2>1, Smallest
  <2>3. i \in 0..n /\ i # 0
    BY <1>1
  <2>4. i \in 1..n /\ i - 1 \in 0..n
    BY <1>2, <2>3
  <2>5. i - 1 \notin others
    <3> HIDE DEF others
    <3> QED
      BY <2>2, <2>4
  <2>6. ~S[i - 1].pinned
    BY <2>4, <2>5
  <2>7. S[i] = Heard(S[i - 1], q[i]) /\ q[i].type # "hello"
    BY <1>1, <1>2, <2>4, EmbedWires DEF Idx, n
  <2>8. S[i] = S[i - 1]
    BY <2>6, <2>7 DEF Heard
  <2> QED
    BY <2>2, <2>6, <2>8
<1> QED
  BY <1>1, <1>2, <1>3

\* A host that has heard `ready' has been heard, unless the frame reloads; one whose
\* greeting is still under way has no answer to an earlier one.
Greets(q) == \E i \in Idx(q) : q[i] = Hello
Introduced ==
  /\ active # None => ready
  /\ ~loading /\ (ready \/ \E i \in Idx(toHost) : toHost[i].type = "ready") => pinned
  /\ ~pinned /\ Greets(toEmbed) => ~ready /\ \A i \in Idx(toHost) : toHost[i].type # "ready"
  /\ active = None => marks = {}

LEMMA PostedGreets ==
  ASSUME Kept, NEW ms \in Seq(EmbedWire), Posts(ms), \A i \in Idx(ms) : ms[i].type # "hello"
  PROVE  Greets(toEmbed') => Greets(toEmbed)
<1>1. \A i \in Idx(ms) : ms[i] # Hello
  BY DEF Hello
<1>2. Holds(toEmbed', toEmbed, Hello)
  BY <1>1, HostMessages, AddedQuiet DEF Posts, Kept, AllTyped, WiresTyped
<1> QED
  BY <1>2 DEF Holds, Greets

LEMMA PostedOneGreets ==
  ASSUME Kept, NEW m \in EmbedWire, Posts(<<m>>), m.type # "hello"
  PROVE  Greets(toEmbed') => Greets(toEmbed)
<1>1. <<m>> \in Seq(EmbedWire) /\ \A i \in Idx(<<m>>) : <<m>>[i] = m
  BY DEF Idx
<1> QED
  BY <1>1, PostedGreets

LEMMA AnsweringGreets ==
  ASSUME Kept, NEW f \in Fields, NEW m, m.request \in Requests, NEW o,
         o.ok \in BOOLEAN, o.text \in Texts, o.seen \in Texts, Posts(Answering(f, m, o))
  PROVE  Greets(toEmbed') => Greets(toEmbed)
<1>1. Answering(f, m, o) \in Seq(EmbedWire)
  BY AnsweringTyped DEF Kept, AllTyped
<1>2. PICK p \in Idx(Answering(f, m, o)) :
           /\ Answering(f, m, o)[p] = ResultMsg(m.request, f, o.ok, o.text)
           /\ \A i \in Idx(Answering(f, m, o)) : i # p => Answering(f, m, o)[i].type = "textChanged"
  BY AnsweringAsks
<1>3. ResultMsg(m.request, f, o.ok, o.text).type = "replaceResult"
  BY DEF ResultMsg
<1>4. \A i \in Idx(Answering(f, m, o)) : Answering(f, m, o)[i].type # "hello"
  BY <1>2, <1>3
<1> QED
  BY <1>1, <1>4, PostedGreets

\* What the user and the timers do in the panel leaves the copy alone.
LEMMA PanelMoves ==
  ASSUME Kept,
         \/ Select \/ ApplySuggestion \/ ApplyRewrite \/ Check \/ Effects \/ Answer \/ Restore \/ SignOut
         \/ (\E u \in Users : SignIn(u)) \/ (\E r \in Requests : Timeout(r))
  PROVE  UNCHANGED <<hostVars, toEmbed, pinned, field, buffer>> /\ Later(toHost', toHost, "ready")
<1>1. UNCHANGED <<hostVars, toEmbed, pinned, field, buffer>>
  BY DEF Select, ApplySuggestion, ApplyRewrite, Check, Effects, Answer, Restore, SignOut, SignIn, Timeout, HostRests,
         Opened, docVars
<1>2. CASE Select \/ Restore \/ \E r \in Requests : Timeout(r)
  BY <1>1, <1>2, UnsentQuiet DEF Select, Restore, Timeout
<1>3. CASE Check
  <2>1. PICK sources \in SUBSET Sources : RunCheck(sources)
    BY <1>3 DEF Check, Sources
  <2> QED
    BY <1>1, <2>1, RunCheckQuiet
<1>4. CASE Effects
  <2>1. UNCHANGED toHost \/ RunCheck({"rule"})
    BY <1>4 DEF Effects
  <2>2. {"rule"} \in SUBSET Sources
    BY DEF Sources
  <2> QED
    BY <1>1, <2>1, <2>2, UnsentQuiet, RunCheckQuiet
<1>5. CASE Answer
  BY <1>1, <1>5, AnswerQuiet
<1>6. CASE SignOut \/ \E u \in Users : SignIn(u)
  BY <1>1, <1>6, ResetQuiet DEF SignOut, SignIn
<1>7. CASE ApplySuggestion \/ ApplyRewrite
  <2>1. PICK item \in Offered : Wants(item)
    BY <1>7, ApplySuggestionWants, ApplyRewriteWants
  <2>2. PICK from \in Nat, to \in Nat, insert \in Inserts :
          from <= to /\ to <= Len(buffer) /\ SendReplace(item, from, to, insert)
    BY <2>1 DEF Wants
  <2>3. item \in Finding
    BY <2>1 DEF Wants
  <2> DEFINE said == Slice(buffer, from, to)
             Sent(q) == [type |-> "applyReplacement", request |-> q, field |-> field,
                         from |-> from, to |-> to, insert |-> insert, expected |-> said]
             Waiting == [state |-> "waiting", id |-> item.id, field |-> field, said |-> said, met |-> FALSE, applied |-> FALSE]
  <2>4. PICK r \in Requests : /\ ask[r].state = "none" /\ field \in Fields
                              /\ ask' = [ask EXCEPT ![r] = Waiting]
                              /\ SendsAfter(<<Sent(r)>>) /\ Sent(r) \in HostWire
    BY <2>2, <2>3, SendReplaceIs
  <2>5. <<Sent(r)>> \in Seq(HostWire) /\ \A i \in Idx(<<Sent(r)>>) : <<Sent(r)>>[i].type # "ready"
    BY <2>4 DEF Idx
  <2> HIDE DEF Sent
  <2> QED
    BY <1>1, <2>4, <2>5, SentQuiet
<1> QED
  BY <1>2, <1>3, <1>4, <1>5, <1>6, <1>7

LEMMA IntroducedLater ==
  ASSUME Kept, Introduced, Later(toHost', toHost, "ready"), UNCHANGED <<loading, ready, active, marks, pinned>>,
         Greets(toEmbed') => Greets(toEmbed)
  PROVE  Introduced'
<1>1. PICK k \in {0, 1} : LaterBy(k, toHost', toHost, "ready")
  BY DEF Later
<1>2. \A i \in Idx(toHost') : toHost'[i].type = "ready" => i + k \in Idx(toHost) /\ toHost[i + k].type = "ready"
  BY <1>1 DEF LaterBy
<1> QED
  BY <1>2 DEF Introduced

LEMMA HostHearsIntroduced == ASSUME Kept, Introduced, HostHears PROVE Introduced'
<1> DEFINE m == Head(toHost)
<1>1. m \in HostWire /\ UNCHANGED pinned /\ 1 \in Idx(toHost) /\ m = toHost[1]
  BY Taken, RestIs DEF HostHears, Kept, AllTyped, WiresTyped
<1>2. Later(toHost', toHost, "ready")
  BY LaterTail DEF HostHears, Kept, AllTyped, WiresTyped
<1>3. CASE m.type = "ready"
  <2>1. ready' = TRUE /\ UNCHANGED <<loading, active, marks, toEmbed>>
    BY <1>3 DEF HostHears
  <2>2. (~loading => pinned) /\ ~(~pinned /\ Greets(toEmbed))
    BY <1>1, <1>3 DEF Introduced
  <2> QED
    BY <1>1, <2>1, <2>2 DEF Introduced
<1>4. CASE m.type = "findings"
  <2>1. marks' = Marked(m.field, m.spans) /\ UNCHANGED <<loading, ready, active, toEmbed>>
    BY <1>4 DEF HostHears
  <2>2. m.field # None
    BY <1>1, <1>4, HostWires, NoneIsNoField
  <2>3. active = None => marks' = marks
    BY <2>1, <2>2 DEF Marked
  <2>4. PICK k \in {0, 1} : LaterBy(k, toHost', toHost, "ready")
    BY <1>2 DEF Later
  <2>5. \A i \in Idx(toHost') : toHost'[i].type = "ready" => i + k \in Idx(toHost) /\ toHost[i + k].type = "ready"
    BY <2>4 DEF LaterBy
  <2> QED
    BY <1>1, <2>1, <2>3, <2>5 DEF Introduced
<1>5. CASE m.type = "applyReplacement"
  <2>1. UNCHANGED <<loading, ready, active, marks>>
    BY <1>5 DEF HostHears, hostVars
  <2>2. m.field \in Fields /\ m.request \in Requests
    BY <1>1, <1>5, HostWires
  <2>3. CASE active # m.field
    <3> DEFINE a == ResultMsg(m.request, m.field, FALSE, IF active = None THEN page[m.field] ELSE <<>>)
    <3>1. Posts(<<a>>)
      BY <1>5, <2>3 DEF HostHears
    <3>2. a \in EmbedWire /\ a.type # "hello"
      <4>1. a \in EmbedWire
        BY <2>2, HostMessages, EmptyText DEF Kept, AllTyped, HostTyped
      <4> QED
        BY <4>1 DEF ResultMsg
    <3> HIDE DEF a, m
    <3>3. Greets(toEmbed') => Greets(toEmbed)
      BY <3>1, <3>2, PostedOneGreets
    <3> QED
      BY <1>1, <1>2, <2>1, <3>3, IntroducedLater
  <2>4. CASE active = m.field
    <3>1. PICK o \in Outcomes(active, page[active], m) : o.text \in Texts /\ Posts(Answering(active, m, o))
      BY <1>5, <2>4, HostHearsApply
    <3>2. o.ok \in BOOLEAN /\ o.seen \in Texts
      BY <1>1, <1>5, <2>2, <2>4, <3>1, OutcomesAre DEF Kept, AllTyped, HostTyped
    <3>3. active \in Fields
      BY <2>2, <2>4
    <3> HIDE DEF m
    <3>4. Greets(toEmbed') => Greets(toEmbed)
      BY <2>2, <3>1, <3>2, <3>3, AnsweringGreets
    <3> QED
      BY <1>1, <1>2, <2>1, <3>4, IntroducedLater
  <2> QED
    BY <2>3, <2>4
<1> QED
  BY <1>1, <1>3, <1>4, <1>5, HostWires

LEMMA EmbedHearsIntroduced == ASSUME Kept, Introduced, EmbedHears PROVE Introduced'
<1> DEFINE m == Head(toEmbed)
<1>1. m \in EmbedWire
  BY Taken DEF EmbedHears, Kept, AllTyped, WiresTyped
<1>2. UNCHANGED <<loading, ready, active, marks>> /\ (Greets(toEmbed') => Greets(toEmbed))
  <2>1. UNCHANGED <<loading, ready, active, marks>>
    BY DEF EmbedHears, hostVars
  <2> QED
    BY <2>1, HeardQuiet DEF EmbedHears, Greets
<1>3. CASE m.type = "hello"
  <2>1. pinned' = TRUE
    BY <1>3 DEF EmbedHears
  <2> QED
    BY <1>2, <2>1 DEF Introduced
<1>4. CASE m.type # "hello" /\ ~pinned
  BY <1>2, <1>4, UnsentQuiet, IntroducedLater DEF EmbedHears
<1>5. CASE m.type \in {"fieldConnected", "fieldDisconnected"} /\ pinned
  <2>1. UNCHANGED pinned /\ (OnConnected(m) \/ OnDisconnected(m))
    BY <1>5 DEF EmbedHears
  <2>2. Later(toHost', toHost, "ready")
    BY <2>1, ResetQuiet, UnsentQuiet DEF OnConnected, OnDisconnected
  <2> QED
    BY <1>2, <2>1, <2>2, IntroducedLater
<1>6. CASE m.type \in {"textChanged", "replaceResult"} /\ pinned
  <2>1. UNCHANGED pinned /\ (OnChanged(m) \/ OnResult(m)) /\ m.text \in Texts
    BY <1>1, <1>6, EmbedWires DEF EmbedHears
  <2>2. Later(toHost', toHost, "ready")
    BY <2>1, SyncQuiet, UnsentQuiet DEF OnChanged, OnResult
  <2> QED
    BY <1>2, <2>1, <2>2, IntroducedLater
<1>7. CASE m.type = "markingClicked" /\ pinned
  <2>1. UNCHANGED pinned /\ OnClicked(m)
    BY <1>7 DEF EmbedHears
  <2> QED
    BY <1>2, <2>1, UnsentQuiet, IntroducedLater DEF OnClicked
<1> QED
  BY <1>1, <1>3, <1>4, <1>5, <1>6, <1>7, EmbedWires

LEMMA IntroducedInit == Init => Introduced
<1> SUFFICES ASSUME Init PROVE Introduced
  OBVIOUS
<1>1. Idx(toHost) = {} /\ ~Greets(toEmbed) /\ marks = {}
  BY EmptySeq DEF Init, Idx, Greets
<1>2. (active # None => ready) /\ (~loading => pinned) /\ (ready => pinned)
  BY NoneIsNoField DEF Init
<1> QED
  BY <1>1, <1>2 DEF Introduced

LEMMA IntroducedNext == Kept /\ Introduced /\ [Next]_vars => Introduced'
<1> SUFFICES ASSUME Kept, Introduced, [Next]_vars PROVE Introduced'
  OBVIOUS
<1>1. CASE UNCHANGED vars
  BY <1>1, UnsentQuiet, IntroducedLater DEF vars, hostVars
<1>2. CASE FrameLoads \/ HelloAgain
  <2>1. Idx(toHost') = {} /\ ~ready'
    BY <1>2, EmptySeq DEF FrameLoads, HelloAgain, Idx, hostVars
  <2>2. (active' = None => marks' = {}) /\ (active' # None => ready')
    BY <1>2 DEF FrameLoads, HelloAgain, Introduced, hostVars
  <2> QED
    BY <2>1, <2>2 DEF Introduced
<1>3. CASE Click \/ \E f \in Fields : Type(f)
  <2>1. UNCHANGED <<toHost, loading, ready, active, marks, pinned>>
    BY <1>3 DEF Click, Type, EmbedRests, hostVars
  <2>2. Greets(toEmbed') => Greets(toEmbed)
    <3>1. CASE Click
      <4>1. PICK mark \in marks : Posts(<<ClickedMsg(active, mark.id)>>)
        BY <3>1 DEF Click
      <4>2. ClickedMsg(active, mark.id) \in EmbedWire
        BY <3>1, HostMessages DEF Kept, AllTyped, HostTyped, Click, Mark
      <4>3. ClickedMsg(active, mark.id).type = "markingClicked"
        BY DEF ClickedMsg
      <4> QED
        BY <4>1, <4>2, <4>3, PostedOneGreets
    <3>2. ASSUME NEW f \in Fields, Type(f) PROVE Greets(toEmbed') => Greets(toEmbed)
      <4>1. PICK t \in Fitting(Edits(page[f])) : Posts(Changes(f, t))
        BY <3>2 DEF Type
      <4>2. t \in Texts
        BY <4>1, EmptyText, EditsAre, FittingAre DEF Kept, AllTyped, HostTyped
      <4>3. Changes(f, t) \in Seq(EmbedWire)
        BY <4>2, ChangesTyped DEF Kept, AllTyped
      <4>4. \A i \in Idx(Changes(f, t)) : Changes(f, t)[i].type # "hello"
        BY DEF Changes, ChangedMsg, Idx
      <4> QED
        BY <4>1, <4>3, <4>4, PostedGreets
    <3> QED
      BY <1>3, <3>1, <3>2
  <2> QED
    BY <2>1, <2>2, UnsentQuiet, IntroducedLater
<1>4. CASE Leave \/ \E f \in Fields : Connect(f)
  <2>1. UNCHANGED <<toHost, loading, ready, pinned>> /\ marks' = {} /\ (active' # None => ready)
    BY <1>4 DEF Leave, Connect, EmbedRests
  <2>2. Greets(toEmbed') => Greets(toEmbed)
    <3>1. CASE Leave
      <4>1. DisconnectedMsg(active) \in EmbedWire
        BY <3>1, HostMessages DEF Leave, Kept, AllTyped, HostTyped
      <4>2. DisconnectedMsg(active).type = "fieldDisconnected"
        BY DEF DisconnectedMsg
      <4> QED
        BY <3>1, <4>1, <4>2, PostedOneGreets DEF Leave
    <3>2. ASSUME NEW f \in Fields, Connect(f) PROVE Greets(toEmbed') => Greets(toEmbed)
      <4>1. ConnectedMsg(f, page[f]) \in EmbedWire
        BY HostMessages DEF Kept, AllTyped, HostTyped
      <4>2. ConnectedMsg(f, page[f]).type = "fieldConnected"
        BY DEF ConnectedMsg
      <4> QED
        BY <3>2, <4>1, <4>2, PostedOneGreets DEF Connect
    <3> QED
      BY <1>4, <3>1, <3>2
  <2> QED
    BY <2>1, <2>2 DEF Introduced
<1>5. CASE HostHears \/ EmbedHears
  BY <1>5, HostHearsIntroduced, EmbedHearsIntroduced
<1>6. CASE \/ Select \/ ApplySuggestion \/ ApplyRewrite \/ Check \/ Effects \/ Answer \/ Restore \/ SignOut
           \/ (\E u \in Users : SignIn(u)) \/ (\E r \in Requests : Timeout(r))
  BY <1>6, PanelMoves, IntroducedLater DEF hostVars
<1>7. CASE Reload
  BY <1>7, EmptySeq DEF Reload, Introduced, Greets, Idx
<1> QED
  BY <1>1, <1>2, <1>3, <1>4, <1>5, <1>6, <1>7 DEF Next

Arrives(e) ==
  /\ e.pinned \/ e.field = None
  /\ pinned \/ Greets(toEmbed) => e.pinned
  /\ loading => e.field \in {None, active}
  /\ ~loading => e.field = active \/ forgotten
  /\ ~loading /\ active # None => e.pinned /\ e.field = active /\ e.text = page[active]
InLine == \E e \in View : Leads(toEmbed, View0, e) /\ Arrives(e)

LEMMA PostedLeads ==
  ASSUME Kept, UNCHANGED <<pinned, field, buffer>>, NEW e, Leads(toEmbed, View0, e), NEW m \in EmbedWire, Posts(<<m>>)
  PROVE  Leads(toEmbed', View0', Heard(e, m)) /\ Heard(e, m) \in View
<1>1. toEmbed \in Seq(EmbedWire)
  BY DEF Kept, AllTyped, WiresTyped
<1>2. View0' = View0
  BY DEF View0
<1>3. Leads(toEmbed', View0, Heard(e, m))
  BY <1>1, LeadsOn DEF Posts
<1>4. e \in View
  BY <1>1, LeadsAreViews
<1> QED
  BY <1>2, <1>3, <1>4, HeardIsView

\* A message of the host that changes a text, if it is about the field.
Written(e, f, t) == IF e.pinned /\ e.field = f THEN [e EXCEPT !.text = t] ELSE e

LEMMA AnsweredLeads ==
  ASSUME Kept, UNCHANGED <<pinned, field, buffer>>, NEW e, Leads(toEmbed, View0, e),
         NEW f \in Fields, NEW m, m.request \in Requests,
         NEW o, o.ok \in BOOLEAN, o.text \in Texts, o.seen \in Texts,
         Posts(Answering(f, m, o))
  PROVE  /\ Leads(toEmbed', View0', Written(e, f, o.text)) /\ Written(e, f, o.text) \in View
         /\ Greets(toEmbed') => Greets(toEmbed)
<1> DEFINE a == ResultMsg(m.request, f, o.ok, o.text)
           c == ChangedMsg(f, o.text)
           d == ChangedMsg(f, o.seen)
           w == Written(e, f, o.text)
           v == Written(e, f, o.seen)
<1>1. toEmbed \in Seq(EmbedWire) /\ e \in View
  BY LeadsAreViews DEF Kept, AllTyped, WiresTyped
<1>2. a \in EmbedWire /\ c \in EmbedWire /\ d \in EmbedWire
  BY HostMessages
<1>3. Heard(e, a) = w /\ Heard(w, c) = w /\ Heard(e, d) = v /\ Heard(v, a) = w
  <2>1. Heard(e, a) = w
    BY <1>1 DEF Heard, ResultMsg, Written, View
  <2>2. Heard(w, c) = w
    BY <1>1 DEF Heard, ChangedMsg, Written, View
  <2>3. Heard(e, d) = v
    BY <1>1 DEF Heard, ChangedMsg, Written, View
  <2>4. Heard(v, a) = w
    BY <1>1 DEF Heard, ResultMsg, Written, View
  <2> QED
    BY <2>1, <2>2, <2>3, <2>4
<1>4. w \in View /\ v \in View
  BY <1>1 DEF Written, View
<1>5. Answering(f, m, o) \in {<<a>>, <<a, c>>, <<d, a>>}
  BY AnsweringIs
<1>6. Greets(toEmbed') => Greets(toEmbed)
  BY AnsweringGreets
<1> HIDE DEF a, c, d, w, v
<1>7. ASSUME NEW x \in EmbedWire, NEW y \in EmbedWire, NEW z, Leads(toEmbed \o <<x>>, View0, z)
      PROVE  Leads(toEmbed \o <<x, y>>, View0, Heard(z, y))
  <2>1. <<x>> \in Seq(EmbedWire) /\ <<y>> \in Seq(EmbedWire)
    OBVIOUS
  <2>2. toEmbed \o <<x>> \in Seq(EmbedWire)
    BY <1>1, <2>1, Posted
  <2>3. Leads((toEmbed \o <<x>>) \o <<y>>, View0, Heard(z, y))
    BY <1>7, <2>2, LeadsOn
  <2>4. (toEmbed \o <<x>>) \o <<y>> = toEmbed \o (<<x>> \o <<y>>)
    BY <1>1, <2>1, ConcatAssociative
  <2> QED
    BY <2>3, <2>4, PairIs
<1>8. Leads(toEmbed \o <<a>>, View0, w) /\ Leads(toEmbed \o <<d>>, View0, v)
  BY <1>1, <1>2, <1>3, LeadsOn
<1>9. Leads(toEmbed \o <<a, c>>, View0, w) /\ Leads(toEmbed \o <<d, a>>, View0, w)
  BY <1>2, <1>3, <1>7, <1>8
<1>10. Leads(toEmbed', View0, w)
  BY <1>5, <1>8, <1>9 DEF Posts
<1>11. View0' = View0
  BY DEF View0
<1> QED
  BY <1>4, <1>6, <1>10, <1>11 DEF w

\* A step of the host that posts a message.
LEMMA ArrivesPosted ==
  ASSUME Kept, UNCHANGED <<pinned, field, buffer>>, NEW e \in View, Leads(toEmbed, View0, e),
         NEW m \in EmbedWire, Posts(<<m>>)
  PROVE  /\ Leads(toEmbed', View0', Heard(e, m)) /\ Heard(e, m) \in View
         /\ m.type # "hello" => (Greets(toEmbed') => Greets(toEmbed))
<1>1. <<m>> \in Seq(EmbedWire) /\ \A i \in Idx(<<m>>) : <<m>>[i] = m
  BY DEF Idx
<1> QED
  BY <1>1, PostedLeads, PostedGreets

LEMMA GreetingInLine == ASSUME Kept, Introduced, InLine, FrameLoads \/ HelloAgain PROVE InLine'
<1>1. PICK e \in View : Leads(toEmbed, View0, e) /\ Arrives(e)
  BY DEF InLine
<1>2. Posts(<<Hello>>) /\ UNCHANGED <<pinned, field, buffer, page>>
  BY DEF FrameLoads, HelloAgain, EmbedRests, docVars, hostVars
<1>3. Leads(toEmbed', View0', Heard(e, Hello)) /\ Heard(e, Hello) \in View
  BY <1>1, <1>2, HostMessages, ArrivesPosted
<1>4. Heard(e, Hello) = [e EXCEPT !.pinned = TRUE]
  BY DEF Heard, Hello
<1>5. Heard(e, Hello).pinned /\ Heard(e, Hello).field = e.field
  BY <1>1, <1>4 DEF View
<1>6. CASE FrameLoads
  <2>1. loading /\ ~loading' /\ active' = None /\ forgotten' = (active # None /\ pinned)
    BY <1>6 DEF FrameLoads
  <2>2. e.field = None \/ forgotten'
    <3>1. CASE active = None \/ pinned
      BY <1>1, <2>1, <3>1 DEF Arrives
    <3>2. CASE active # None /\ ~pinned
      <4>1. ~Greets(toEmbed)
        BY <3>2 DEF Introduced
      <4>2. ~e.pinned
        BY <1>1, <3>2, <4>1, LeadsToNoHost DEF Greets, View0, Kept, AllTyped, WiresTyped
      <4> QED
        BY <1>1, <4>2 DEF Arrives
    <3> QED
      BY <3>1, <3>2
  <2> QED
    BY <1>1, <1>3, <1>5, <2>1, <2>2 DEF Arrives, InLine
<1>7. CASE HelloAgain
  <2>1. active = None /\ UNCHANGED <<loading, active, forgotten>>
    BY <1>7 DEF HelloAgain, Introduced, hostVars
  <2> QED
    BY <1>1, <1>3, <1>5, <2>1 DEF Arrives, InLine
<1> QED
  BY <1>6, <1>7

LEMMA ConnectInLine == ASSUME Kept, Introduced, InLine, NEW f \in Fields, Connect(f) PROVE InLine'
<1>1. PICK e \in View : Leads(toEmbed, View0, e) /\ Arrives(e)
  BY DEF InLine
<1> DEFINE m == ConnectedMsg(f, page[f])
<1>2. /\ Posts(<<m>>) /\ UNCHANGED <<pinned, field, buffer, page, loading>>
      /\ active' = f /\ ready /\ forgotten' = FALSE
  BY DEF Connect, EmbedRests, docVars
<1>3. m \in EmbedWire /\ m.type = "fieldConnected" /\ m.field = f /\ m.text = page[f]
  BY HostMessages DEF Kept, AllTyped, HostTyped, ConnectedMsg
<1> HIDE DEF m
<1>4. Leads(toEmbed', View0', Heard(e, m)) /\ Heard(e, m) \in View /\ (Greets(toEmbed') => Greets(toEmbed))
  BY <1>1, <1>2, <1>3, ArrivesPosted
<1>5. CASE e.pinned
  <2>1. Heard(e, m).pinned /\ Heard(e, m).field = f /\ Heard(e, m).text = page[f]
    BY <1>3, <1>5 DEF Heard, View
  <2> QED
    BY <1>2, <1>4, <2>1 DEF Arrives, InLine
<1>6. CASE ~e.pinned
  <2>1. Heard(e, m) = e /\ e.field = None
    BY <1>1, <1>3, <1>6 DEF Heard, Arrives
  <2>2. loading /\ ~pinned
    BY <1>1, <1>2, <1>6 DEF Arrives, Introduced, Kept, AllTyped, HostTyped
  <2> QED
    BY <1>1, <1>2, <1>4, <1>6, <2>1, <2>2 DEF Arrives, InLine
<1> QED
  BY <1>5, <1>6 DEF View

LEMMA LeaveInLine == ASSUME Kept, Introduced, InLine, Leave PROVE InLine'
<1>1. PICK e \in View : Leads(toEmbed, View0, e) /\ Arrives(e)
  BY DEF InLine
<1> DEFINE m == DisconnectedMsg(active)
<1>2. /\ Posts(<<m>>) /\ UNCHANGED <<pinned, field, buffer, page, loading, forgotten>>
      /\ active' = None /\ active \in Fields
  BY DEF Leave, EmbedRests, docVars, Kept, AllTyped, HostTyped
<1>3. m \in EmbedWire /\ m.type = "fieldDisconnected" /\ m.field = active
  BY <1>2, HostMessages DEF DisconnectedMsg
<1> HIDE DEF m
<1>4. Leads(toEmbed', View0', Heard(e, m)) /\ Heard(e, m) \in View /\ (Greets(toEmbed') => Greets(toEmbed))
  BY <1>1, <1>2, <1>3, ArrivesPosted
<1>5. CASE e.pinned /\ e.field = active
  <2>1. Heard(e, m).pinned /\ Heard(e, m).field = None
    BY <1>3, <1>5 DEF Heard, View
  <2> QED
    BY <1>2, <1>4, <2>1 DEF Arrives, InLine
<1>6. CASE ~(e.pinned /\ e.field = active)
  <2>1. Heard(e, m) = e
    BY <1>3, <1>6 DEF Heard
  <2>2. loading /\ e.field = None
    BY <1>1, <1>2, <1>6, NoneIsNoField DEF Arrives, Kept, AllTyped, HostTyped
  <2> QED
    BY <1>1, <1>2, <1>4, <2>1, <2>2 DEF Arrives, InLine
<1> QED
  BY <1>5, <1>6

LEMMA ClickInLine == ASSUME Kept, InLine, Click PROVE InLine'
<1>1. PICK e \in View : Leads(toEmbed, View0, e) /\ Arrives(e)
  BY DEF InLine
<1>2. PICK mark \in marks : Posts(<<ClickedMsg(active, mark.id)>>)
  BY DEF Click
<1>3. UNCHANGED <<pinned, field, buffer, page, loading, active, forgotten>>
  BY DEF Click, EmbedRests, docVars, hostVars
<1> DEFINE m == ClickedMsg(active, mark.id)
<1>4. m \in EmbedWire /\ m.type = "markingClicked"
  BY HostMessages DEF Click, Kept, AllTyped, HostTyped, Mark, ClickedMsg
<1>5. Posts(<<m>>)
  BY <1>2
<1> HIDE DEF m
<1>6. Leads(toEmbed', View0', Heard(e, m)) /\ (Greets(toEmbed') => Greets(toEmbed)) /\ Heard(e, m) = e
  BY <1>1, <1>3, <1>4, <1>5, ArrivesPosted DEF Heard
<1> QED
  BY <1>1, <1>3, <1>6 DEF Arrives, InLine

LEMMA TypeInLine == ASSUME Kept, InLine, NEW f \in Fields, Type(f) PROVE InLine'
<1>1. PICK e \in View : Leads(toEmbed, View0, e) /\ Arrives(e)
  BY DEF InLine
<1>2. PICK t \in Fitting(Edits(page[f])) : page' = [page EXCEPT ![f] = t] /\ Posts(Changes(f, t))
  BY DEF Type
<1>3. t \in Texts
  BY <1>2, EmptyText, EditsAre, FittingAre DEF Kept, AllTyped, HostTyped
<1>4. /\ UNCHANGED <<pinned, field, buffer, loading, active, forgotten>>
      /\ page'[f] = t /\ \A g \in Fields : g # f => page'[g] = page[g]
  BY <1>2, <1>3 DEF Type, EmbedRests, docVars, Kept, AllTyped, HostTyped
<1>5. CASE active = f /\ page[f] # t
  <2> DEFINE m == ChangedMsg(f, t)
  <2>1. Posts(<<m>>)
    BY <1>2, <1>5 DEF Changes
  <2>2. m \in EmbedWire /\ m.type = "textChanged" /\ m.field = f /\ m.text = t
    BY <1>3, HostMessages DEF ChangedMsg
  <2> HIDE DEF m
  <2>3. Leads(toEmbed', View0', Heard(e, m)) /\ (Greets(toEmbed') => Greets(toEmbed)) /\ Heard(e, m) \in View
    BY <1>1, <1>4, <2>1, <2>2, ArrivesPosted
  <2>4. /\ Heard(e, m).pinned = e.pinned /\ Heard(e, m).field = e.field
        /\ e.pinned /\ e.field = f => Heard(e, m).text = t
    BY <2>2 DEF Heard, View
  <2> QED
    BY <1>1, <1>4, <1>5, <2>3, <2>4 DEF Arrives, InLine
<1>6. CASE ~(active = f /\ page[f] # t)
  <2>1. toEmbed' = toEmbed
    <3>1. toEmbed' = toEmbed \o <<>>
      BY <1>2, <1>6 DEF Changes, Posts
    <3> QED
      BY <3>1, ConcatEmptySeq DEF Kept, AllTyped, WiresTyped
  <2>2. Leads(toEmbed', View0', e)
    BY <1>1, <1>4, <2>1 DEF View0
  <2>3. active # None => page'[active] = page[active]
    BY <1>4, <1>6 DEF Kept, AllTyped, HostTyped
  <2> QED
    BY <1>1, <1>4, <2>1, <2>2, <2>3 DEF Arrives, InLine
<1> QED
  BY <1>5, <1>6

LEMMA HostHearsInLine == ASSUME Kept, InLine, HostHears PROVE InLine'
<1> DEFINE m == Head(toHost)
<1>1. PICK e \in View : Leads(toEmbed, View0, e) /\ Arrives(e)
  BY DEF InLine
<1>2. m \in HostWire /\ UNCHANGED <<pinned, field, buffer>>
  BY Taken DEF HostHears, docVars, Kept, AllTyped, WiresTyped
<1>3. CASE m.type \in {"ready", "findings"}
  <2>1. UNCHANGED <<loading, active, forgotten, page, toEmbed>>
    BY <1>3 DEF HostHears
  <2>2. Leads(toEmbed', View0', e)
    BY <1>1, <1>2, <2>1 DEF View0
  <2> QED
    BY <1>1, <1>2, <2>1, <2>2 DEF Arrives, InLine
<1>4. CASE m.type = "applyReplacement" /\ active # m.field
  <2> DEFINE a == ResultMsg(m.request, m.field, FALSE, IF active = None THEN page[m.field] ELSE <<>>)
  <2>1. Posts(<<a>>) /\ UNCHANGED <<loading, active, forgotten, page>>
    BY <1>4 DEF HostHears, hostVars
  <2>2. a \in EmbedWire
    BY <1>2, <1>4, HostWires, HostMessages, EmptyText DEF Kept, AllTyped, HostTyped
  <2>3. a.type = "replaceResult" /\ a.field = m.field
    BY DEF ResultMsg
  <2> HIDE DEF a
  <2>4. Leads(toEmbed', View0', Heard(e, a)) /\ (Greets(toEmbed') => Greets(toEmbed)) /\ Heard(e, a) \in View
    BY <1>1, <1>2, <2>1, <2>2, <2>3, ArrivesPosted
  <2>5. /\ Heard(e, a).pinned = e.pinned /\ Heard(e, a).field = e.field
        /\ e.field = active => Heard(e, a).text = e.text
    BY <1>4, <2>3 DEF Heard, View
  <2> QED
    BY <1>1, <1>2, <2>1, <2>4, <2>5 DEF Arrives, InLine
<1>5. CASE m.type = "applyReplacement" /\ active = m.field
  <2>1. PICK o \in Outcomes(active, page[active], m) :
           /\ o.text \in Texts
           /\ page' = [page EXCEPT ![active] = o.text]
           /\ Posts(Answering(active, m, o))
           /\ UNCHANGED <<loading, active, forgotten>>
    BY <1>5, HostHearsApply
  <2>2. active \in Fields /\ m.request \in Requests
    BY <1>2, <1>5, HostWires
  <2>3. o.ok \in BOOLEAN /\ o.seen \in Texts
    BY <1>2, <1>5, <2>1, <2>2, OutcomesAre DEF Kept, AllTyped, HostTyped
  <2> DEFINE w == Written(e, active, o.text)
  <2>4. Leads(toEmbed', View0', w) /\ w \in View /\ (Greets(toEmbed') => Greets(toEmbed))
    <3> HIDE DEF m
    <3> QED
      BY <1>1, <1>2, <2>1, <2>2, <2>3, AnsweredLeads
  <2>5. w.pinned = e.pinned /\ w.field = e.field /\ (e.pinned /\ e.field = active => w.text = o.text)
    BY DEF Written, View
  <2>6. page'[active] = o.text
    BY <2>1, <2>2 DEF Kept, AllTyped, HostTyped
  <2> HIDE DEF w
  <2> QED
    BY <1>1, <1>2, <2>1, <2>4, <2>5, <2>6 DEF Arrives, InLine
<1> QED
  BY <1>2, <1>3, <1>4, <1>5, HostWires

\* The embed hears its messages in the order they were posted.
LEMMA HeardNow ==
  ASSUME Kept, Owned, EmbedHears
  PROVE  /\ View0' = Heard(View0, Head(toEmbed))
         /\ pinned' = (pinned \/ Head(toEmbed) = Hello)
<1> DEFINE m == Head(toEmbed)
<1>1. m \in EmbedWire
  BY Taken DEF EmbedHears, Kept, AllTyped, WiresTyped
<1>2. View0 \in View
  BY DEF View0, View, Kept, AllTyped, DocTyped
<1>3. CASE m.type = "hello"
  <2>1. pinned' = TRUE /\ UNCHANGED <<field, buffer>> /\ m = Hello
    BY <1>1, <1>3, EmbedWires DEF EmbedHears, docVars
  <2> QED
    BY <1>3, <2>1 DEF View0, Heard
<1>4. ASSUME m.type # "hello" PROVE m # Hello
  BY <1>4 DEF Hello
<1>5. CASE m.type # "hello" /\ ~pinned
  <2>1. UNCHANGED <<pinned, field, buffer>>
    BY <1>5 DEF EmbedHears, docVars
  <2> QED
    BY <1>4, <1>5, <2>1 DEF View0, Heard, Kept, AllTyped, DocTyped
<1>6. ASSUME pinned, UNCHANGED pinned, m.type # "hello" PROVE pinned' = (pinned \/ m = Hello)
  BY <1>4, <1>6 DEF Kept, AllTyped, DocTyped
<1>7. CASE m.type = "fieldConnected" /\ pinned
  <2>1. UNCHANGED pinned /\ field' = m.field /\ buffer' = m.text
    BY <1>7 DEF EmbedHears, OnConnected
  <2> QED
    BY <1>6, <1>7, <2>1 DEF View0, Heard
<1>8. CASE m.type = "fieldDisconnected" /\ pinned
  <2>1. UNCHANGED pinned /\ OnDisconnected(m)
    BY <1>8 DEF EmbedHears
  <2>2. CASE m.field = field
    <3>1. field' = None /\ buffer' = <<>>
      BY <2>1, <2>2 DEF OnDisconnected
    <3> QED
      BY <1>6, <1>8, <2>1, <2>2, <3>1 DEF View0, Heard
  <2>3. CASE m.field # field
    <3>1. UNCHANGED <<field, buffer>>
      BY <2>1, <2>3 DEF OnDisconnected, docVars
    <3> QED
      BY <1>6, <1>8, <2>1, <2>3, <3>1 DEF View0, Heard
  <2> QED
    BY <2>2, <2>3
<1>9. CASE m.type \in {"textChanged", "replaceResult"} /\ pinned
  <2>1. UNCHANGED <<pinned, field>> /\ (OnChanged(m) \/ OnResult(m))
    BY <1>9 DEF EmbedHears, OnChanged, OnResult
  <2>2. CASE m.field = field
    <3>1. Sync(m.text)
      BY <2>1, <2>2 DEF OnChanged, OnResult
    <3>2. buffer' = m.text
      BY <3>1 DEF Sync
    <3> QED
      BY <1>6, <1>9, <2>1, <2>2, <3>2 DEF View0, Heard
  <2>3. CASE m.field # field
    <3>1. UNCHANGED buffer
      BY <2>1, <2>3 DEF OnChanged, OnResult
    <3> QED
      BY <1>6, <1>9, <2>1, <2>3, <3>1 DEF View0, Heard
  <2> QED
    BY <2>2, <2>3
<1>10. CASE m.type = "markingClicked" /\ pinned
  <2>1. UNCHANGED <<pinned, field, buffer>>
    BY <1>10 DEF EmbedHears, OnClicked
  <2> QED
    BY <1>6, <1>10, <2>1 DEF View0, Heard
<1> QED
  BY <1>1, <1>3, <1>5, <1>7, <1>8, <1>9, <1>10, EmbedWires

LEMMA EmbedHearsInLine == ASSUME Kept, Owned, InLine, EmbedHears PROVE InLine'
<1>1. PICK e \in View : Leads(toEmbed, View0, e) /\ Arrives(e)
  BY DEF InLine
<1>2. /\ toEmbed \in Seq(EmbedWire) /\ toEmbed # <<>> /\ toEmbed' = Tail(toEmbed)
      /\ UNCHANGED <<loading, active, forgotten, page>>
  BY DEF EmbedHears, hostVars, Kept, AllTyped, WiresTyped
<1>3. Leads(toEmbed', View0', e)
  BY <1>1, <1>2, HeardNow, LeadsFromNext
<1>4. Rest(toEmbed', toEmbed) /\ 1 \in Idx(toEmbed) /\ Head(toEmbed) = toEmbed[1]
  BY <1>2, RestIs
<1>5. Greets(toEmbed') => Greets(toEmbed)
  BY <1>4 DEF Rest, Greets
<1>6. pinned' => pinned \/ Greets(toEmbed)
  BY <1>4, HeardNow DEF Greets
<1> QED
  BY <1>1, <1>2, <1>3, <1>5, <1>6 DEF Arrives, InLine

LEMMA InLineInit == Init => InLine
<1> SUFFICES ASSUME Init PROVE InLine
  OBVIOUS
<1>1. View0 \in View
  BY KeptInit DEF View0, View, Kept, AllTyped, DocTyped
<1>2. Leads(toEmbed, View0, View0)
  BY <1>1, LeadsNowhere DEF Init
<1>3. Idx(toEmbed) = {}
  BY EmptySeq DEF Init, Idx
<1>4. Arrives(View0)
  BY <1>3 DEF Init, View0, Arrives, Greets
<1> QED
  BY <1>1, <1>2, <1>4 DEF InLine

LEMMA ReloadInLine == ASSUME Kept, Reload PROVE InLine'
<1>1. /\ loading' = TRUE /\ pinned' = FALSE /\ field' = None /\ buffer' = <<>> /\ toEmbed' = <<>>
  BY DEF Reload
<1>2. View0' \in View
  BY <1>1, EmptyText DEF View0, View
<1>3. Leads(toEmbed', View0', View0')
  BY <1>1, <1>2, LeadsNowhere
<1>4. Idx(toEmbed') = {}
  BY <1>1, EmptySeq DEF Idx
<1>5. View0'.pinned = FALSE /\ View0'.field = None
  BY <1>1 DEF View0
<1>6. Arrives(View0)'
  BY <1>1, <1>4, <1>5 DEF Arrives, Greets
<1> QED
  BY <1>2, <1>3, <1>6 DEF InLine

LEMMA InLineNext == Kept /\ Owned /\ Introduced /\ InLine /\ [Next]_vars => InLine'
<1> SUFFICES ASSUME Kept, Owned, Introduced, InLine, [Next]_vars PROVE InLine'
  OBVIOUS
<1>1. ASSUME UNCHANGED <<hostVars, toEmbed, pinned, field, buffer>> PROVE InLine'
  BY <1>1 DEF InLine, Leads, Arrives, Greets, View0, hostVars
<1>2. CASE UNCHANGED vars
  BY <1>1, <1>2 DEF vars, docVars
<1>3. CASE FrameLoads \/ HelloAgain \/ Leave \/ Click \/ \E f \in Fields : Connect(f) \/ Type(f)
  BY <1>3, GreetingInLine, LeaveInLine, ClickInLine, ConnectInLine, TypeInLine
<1>4. CASE HostHears \/ EmbedHears
  BY <1>4, HostHearsInLine, EmbedHearsInLine
<1>5. CASE \/ Select \/ ApplySuggestion \/ ApplyRewrite \/ Check \/ Effects \/ Answer \/ Restore \/ SignOut
           \/ (\E u \in Users : SignIn(u)) \/ (\E r \in Requests : Timeout(r))
  BY <1>1, <1>5, PanelMoves
<1>6. CASE Reload
  BY <1>6, ReloadInLine
<1> QED
  BY <1>2, <1>3, <1>4, <1>5, <1>6 DEF Next

\* With no connection under way the embed has the host's field, or none.
LEMMA FieldIsActive ==
  ASSUME Kept, InLine, ~loading, active # None, \A i \in Idx(toEmbed) : toEmbed[i].type # "fieldConnected"
  PROVE  field = active
<1>1. PICK e \in View : Leads(toEmbed, View0, e) /\ Arrives(e)
  BY DEF InLine
<1>2. e.field \in {View0.field, None}
  BY <1>1, LeadsToNoOther DEF Kept, AllTyped, WiresTyped
<1> QED
  BY <1>1, <1>2 DEF Arrives, View0

-----------------------------------------------------------------------------
(* What is marked.  The last word about a field, among the messages to the   *)
(* host, shows the embed's findings, or none; and so does the field when     *)
(* there is no word about it.                                                *)

Spans(its) == {[id |-> i.id, from |-> i.from, to |-> i.to] : i \in its}
About(m, f) == m.type = "findings" /\ m.field = f
Word(q, i, f) == About(q[i], f) /\ \A j \in Idx(q) : j > i => ~About(q[j], f)
Silent(q, f) == \A i \in Idx(q) : ~About(q[i], f)
Unconnected(q) == \A i \in Idx(q) : q[i].type # "fieldConnected"

\* The words of a queue are words of another.
SameWord(new, old, i, f) == \E k \in Idx(old) : Word(old, k, f) /\ old[k] = new[i]
SameWords(new, old) ==
  \A f \in Fields : /\ \A i \in Idx(new) : Word(new, i, f) => SameWord(new, old, i, f)
                    /\ Silent(new, f) => Silent(old, f)
\* One more was said, about a field.
NewWord(new, old, f, spans) ==
  \A g \in Fields : /\ \A i \in Idx(new) : Word(new, i, g) =>
                         IF g = f THEN new[i].spans = spans ELSE SameWord(new, old, i, g)
                    /\ Silent(new, g) => g # f /\ Silent(old, g)
\* The first one was heard.
LessWord(new, old, f) ==
  \A g \in Fields : /\ \A i \in Idx(new) : Word(new, i, g) => SameWord(new, old, i, g)
                    /\ Silent(new, g) => IF g = f THEN Word(old, 1, g) ELSE Silent(old, g)

LEMMA SameWordsSame ==
  ASSUME NEW q
  PROVE  SameWords(q, q)
BY DEF SameWords, SameWord

LEMMA SameWordsAdded ==
  ASSUME NEW S, NEW q \in Seq(S), NEW ms \in Seq(S), NEW new, new = q \o ms,
         \A i \in Idx(ms) : ms[i].type # "findings"
  PROVE  SameWords(new, q)
<1>1. /\ Len(q) \in Nat /\ Len(ms) \in Nat /\ Len(new) = Len(q) + Len(ms)
      /\ \A j \in 1..Len(q) : new[j] = q[j]
      /\ \A j \in Idx(new) : j > Len(q) => j - Len(q) \in Idx(ms) /\ new[j] = ms[j - Len(q)]
  BY ConcatAt
<1>2. ASSUME NEW f, NEW i \in Idx(new), Word(new, i, f) PROVE SameWord(new, q, i, f)
  <2>1. ~(i > Len(q))
    BY <1>1, <1>2 DEF Word, About
  <2>2. i \in Idx(q) /\ q[i] = new[i]
    BY <1>1, <2>1 DEF Idx
  <2>3. \A j \in Idx(q) : j \in Idx(new) /\ new[j] = q[j]
    BY <1>1 DEF Idx
  <2> QED
    BY <1>2, <2>2, <2>3 DEF Word, SameWord
<1>3. ASSUME NEW f, Silent(new, f) PROVE Silent(q, f)
  <2>1. \A j \in Idx(q) : j \in Idx(new) /\ new[j] = q[j]
    BY <1>1 DEF Idx
  <2> QED
    BY <1>3, <2>1 DEF Silent
<1> QED
  BY <1>2, <1>3 DEF SameWords

LEMMA NewWordAdded ==
  ASSUME NEW S, NEW q \in Seq(S), NEW m \in S, NEW new, new = q \o <<m>>, NEW f, About(m, f)
  PROVE  NewWord(new, q, f, m.spans)
<1> DEFINE n == Len(q)
<1>1. /\ n \in Nat /\ Len(new) = n + 1 /\ new[n + 1] = m
      /\ \A j \in 1..n : new[j] = q[j]
  <2>1. <<m>> \in Seq(S) /\ Len(<<m>>) = 1 /\ <<m>>[1] = m
    OBVIOUS
  <2>2. /\ Len(q) \in Nat /\ Len(new) = Len(q) + 1
        /\ \A i \in 1..(Len(q) + 1) : new[i] = IF i <= Len(q) THEN q[i] ELSE <<m>>[i - Len(q)]
    BY <2>1, ConcatProperties, LenProperties
  <2> QED
    BY <2>1, <2>2
<1> HIDE DEF n
<1>2. n + 1 \in Idx(new) /\ \A j \in Idx(new) : j = n + 1 \/ (j \in Idx(q) /\ n + 1 > j)
  BY <1>1 DEF Idx, n
<1>3. \A j \in Idx(q) : j \in Idx(new) /\ new[j] = q[j]
  BY <1>1 DEF Idx, n
<1>4. ASSUME NEW g, NEW i \in Idx(new), Word(new, i, g)
      PROVE  IF g = f THEN new[i].spans = m.spans ELSE SameWord(new, q, i, g)
  <2>1. CASE g = f
    <3>1. i = n + 1
      BY <1>1, <1>2, <1>4, <2>1 DEF Word
    <3> QED
      BY <1>1, <2>1, <3>1
  <2>2. CASE g # f
    <3>1. i \in Idx(q)
      BY <1>1, <1>2, <1>4, <2>2 DEF Word, About
    <3> QED
      BY <1>3, <1>4, <2>2, <3>1 DEF Word, SameWord
  <2> QED
    BY <2>1, <2>2
<1>5. ASSUME NEW g, Silent(new, g) PROVE g # f /\ Silent(q, g)
  BY <1>1, <1>2, <1>3, <1>5 DEF Silent
<1> QED
  BY <1>4, <1>5 DEF NewWord

LEMMA WordsTaken ==
  ASSUME NEW S, NEW q \in Seq(S), q # <<>>, NEW new, new = Tail(q)
  PROVE  /\ q[1].type # "findings" => SameWords(new, q)
         /\ \A f : About(q[1], f) => LessWord(new, q, f)
<1>1. Len(q) \in Nat /\ Len(q) >= 1 /\ Len(new) = Len(q) - 1 /\ \A i \in 1..Len(new) : new[i] = q[i + 1]
  BY LenProperties, HeadTailProperties, EmptySeq
<1>2. \A i \in Idx(new) : i + 1 \in Idx(q) /\ q[i + 1] = new[i]
  BY <1>1 DEF Idx
<1>3. \A j \in Idx(q) : j = 1 \/ (j > 1 /\ j - 1 \in Idx(new) /\ new[j - 1] = q[j])
  BY <1>1 DEF Idx
<1>4. ASSUME NEW g, NEW i \in Idx(new), Word(new, i, g) PROVE SameWord(new, q, i, g)
  <2>1. ASSUME NEW j \in Idx(q), j > i + 1 PROVE ~About(q[j], g)
    <3>1. i \in Nat /\ i >= 1 /\ j \in Nat
      BY DEF Idx
    <3>2. j # 1 /\ j - 1 > i
      BY <2>1, <3>1
    <3>3. j - 1 \in Idx(new) /\ new[j - 1] = q[j]
      BY <1>3, <3>2
    <3> QED
      BY <1>4, <3>2, <3>3 DEF Word
  <2> DEFINE k == i + 1
  <2>2. k \in Idx(q) /\ q[k] = new[i] /\ \A j \in Idx(q) : j > k => ~About(q[j], g)
    BY <1>2, <2>1
  <2> HIDE DEF k
  <2> QED
    BY <1>4, <2>2 DEF Word, SameWord
<1>5. ASSUME NEW g, Silent(new, g) PROVE \A j \in Idx(q) : j > 1 => ~About(q[j], g)
  <2> SUFFICES ASSUME NEW j \in Idx(q), j > 1 PROVE ~About(q[j], g)
    OBVIOUS
  <2> DEFINE k == j - 1
  <2>1. j # 1
    OBVIOUS
  <2>2. k \in Idx(new) /\ new[k] = q[j]
    BY <1>3, <2>1
  <2> HIDE DEF k
  <2> QED
    BY <1>5, <2>2 DEF Silent
<1>6. ASSUME NEW g, Silent(new, g), ~About(q[1], g) PROVE Silent(q, g)
  <2>1. \A j \in Idx(q) : j = 1 \/ ~About(q[j], g)
    BY <1>3, <1>5, <1>6
  <2> QED
    BY <1>6, <2>1 DEF Silent
<1>7. \A g : Silent(new, g) /\ About(q[1], g) => Word(q, 1, g)
  BY <1>5 DEF Word
<1>8. q[1].type # "findings" => SameWords(new, q)
  BY <1>4, <1>6 DEF SameWords, About
<1>9. ASSUME NEW f, About(q[1], f) PROVE LessWord(new, q, f)
  <2>1. \A g : g # f => ~About(q[1], g)
    BY <1>9 DEF About
  <2> QED
    BY <1>4, <1>6, <1>7, <1>9, <2>1 DEF LessWord
<1> QED
  BY <1>8, <1>9

\* What the last words may show, and must once no connection is under way.
Worded ==
  ~loading =>
    /\ \A f \in Fields : \A i \in Idx(toHost) : Word(toHost, i, f) =>
         toHost[i].spans = {} \/ (f = field /\ toHost[i].spans = Spans(items))
    /\ active # None /\ Silent(toHost, active) => marks = {} \/ (field = active /\ marks = Spans(items))
    /\ active # None /\ Unconnected(toEmbed) =>
         /\ \A i \in Idx(toHost) : Word(toHost, i, active) => toHost[i].spans = Spans(items)
         /\ Silent(toHost, active) => marks = Spans(items)

LEMMA NoSpans == Spans({}) = {}
BY DEF Spans

\* Nothing new is said or marked.
LEMMA WordedSame ==
  ASSUME Kept, Worded, SameWords(toHost', toHost), UNCHANGED <<loading, active, marks, field, items>>,
         ~loading /\ active # None /\ Unconnected(toEmbed') => Unconnected(toEmbed)
  PROVE  Worded'
<1> SUFFICES ASSUME ~loading PROVE Worded'
  BY DEF Worded
<1>1. active \in Fields \cup {None}
  BY DEF Kept, AllTyped, HostTyped
<1>2. /\ \A f \in Fields : \A i \in Idx(toHost') : Word(toHost', i, f) => SameWord(toHost', toHost, i, f)
      /\ \A f \in Fields : Silent(toHost', f) => Silent(toHost, f)
  BY DEF SameWords
<1>3. ASSUME NEW f \in Fields, NEW i \in Idx(toHost'), Word(toHost', i, f)
      PROVE  toHost'[i].spans = {} \/ (f = field /\ toHost'[i].spans = Spans(items))
  <2>1. PICK k \in Idx(toHost) : Word(toHost, k, f) /\ toHost[k] = toHost'[i]
    BY <1>2, <1>3 DEF SameWord
  <2> QED
    BY <2>1 DEF Worded
<1>4. ASSUME active # None, Silent(toHost', active) PROVE marks = {} \/ (field = active /\ marks = Spans(items))
  BY <1>1, <1>2, <1>4 DEF Worded
<1>5. ASSUME active # None, Unconnected(toEmbed')
      PROVE  /\ \A i \in Idx(toHost') : Word(toHost', i, active) => toHost'[i].spans = Spans(items)
             /\ Silent(toHost', active) => marks = Spans(items)
  <2>1. Unconnected(toEmbed) /\ active \in Fields
    BY <1>1, <1>5
  <2>2. ASSUME NEW i \in Idx(toHost'), Word(toHost', i, active) PROVE toHost'[i].spans = Spans(items)
    <3>1. PICK k \in Idx(toHost) : Word(toHost, k, active) /\ toHost[k] = toHost'[i]
      BY <1>2, <2>1, <2>2 DEF SameWord
    <3> QED
      BY <1>5, <2>1, <3>1 DEF Worded
  <2>3. Silent(toHost', active) => marks = Spans(items)
    BY <1>2, <1>5, <2>1 DEF Worded
  <2> QED
    BY <2>2, <2>3
<1>6. Spans(items)' = Spans(items)
  BY DEF Spans
<1> QED
  BY <1>3, <1>4, <1>5, <1>6 DEF Worded

\* The embed says what it tracks in its field.
LEMMA SpokenWords ==
  ASSUME Kept, NEW its \in SUBSET Finding, SendsAfter(Says(field, its))
  PROVE  IF field = None THEN toHost' = toHost ELSE NewWord(toHost', toHost, field, Spans(its))
<1>1. toHost \in Seq(HostWire) /\ Says(field, its) \in Seq(HostWire)
  BY SaysTyped DEF Kept, AllTyped, WiresTyped, DocTyped
<1>2. CASE field = None
  BY <1>1, <1>2, ConcatEmptySeq DEF SendsAfter, Says
<1>3. CASE field # None
  <2> DEFINE m == FindingsMsg(field, its)
  <2>1. toHost' = toHost \o <<m>> /\ About(m, field) /\ m.spans = Spans(its)
    BY <1>3 DEF SendsAfter, Says, FindingsMsg, About, Spans
  <2>2. m \in HostWire
    <3>1. Says(field, its) = <<m>>
      BY <1>3 DEF Says
    <3> HIDE DEF m
    <3>2. Len(<<m>>) = 1 /\ <<m>>[1] = m /\ <<m>> \in Seq(HostWire)
      BY <1>1, <3>1
    <3> QED
      BY <3>2, ElementOfSeq
  <2> HIDE DEF m
  <2>3. NewWord(toHost', toHost, field, m.spans)
    BY <1>1, <2>1, <2>2, NewWordAdded
  <2> QED
    BY <1>3, <2>1, <2>3
<1> QED
  BY <1>2, <1>3

LEMMA WordedSpoken ==
  ASSUME Kept, Worded, items' \in SUBSET Finding, SendsAfter(Says(field, items')),
         UNCHANGED <<loading, active, marks, field>>,
         ~loading /\ active # None /\ Unconnected(toEmbed') => field = active
  PROVE  Worded'
<1> SUFFICES ASSUME ~loading PROVE Worded'
  BY DEF Worded
<1>1. active \in Fields \cup {None}
  BY DEF Kept, AllTyped, HostTyped
<1>2. IF field = None THEN toHost' = toHost ELSE NewWord(toHost', toHost, field, Spans(items'))
  BY SpokenWords
<1>3. ASSUME NEW f \in Fields, NEW i \in Idx(toHost'), Word(toHost', i, f)
      PROVE  toHost'[i].spans = {} \/ (f = field /\ toHost'[i].spans = Spans(items'))
  <2>1. CASE f = field
    BY <1>2, <1>3, <2>1, NoneIsNoField DEF NewWord
  <2>2. CASE f # field
    <3>1. SameWord(toHost', toHost, i, f)
      BY <1>2, <1>3, <2>2, SameWordsSame DEF NewWord, SameWords
    <3>2. PICK k \in Idx(toHost) : Word(toHost, k, f) /\ toHost[k] = toHost'[i]
      BY <3>1 DEF SameWord
    <3> QED
      BY <2>2, <3>2 DEF Worded
  <2> QED
    BY <2>1, <2>2
<1>4. ASSUME active # None, Silent(toHost', active) PROVE marks = {} /\ active # field
  <2>1. Silent(toHost, active) /\ active # field
    BY <1>1, <1>2, <1>4 DEF NewWord
  <2> QED
    BY <1>4, <2>1 DEF Worded
<1>5. ASSUME active # None, Unconnected(toEmbed')
      PROVE  /\ \A i \in Idx(toHost') : Word(toHost', i, active) => toHost'[i].spans = Spans(items')
             /\ ~Silent(toHost', active)
  <2>1. field = active /\ active \in Fields
    BY <1>1, <1>5
  <2> QED
    BY <1>2, <1>5, <2>1 DEF NewWord
<1>6. (Spans(items))' = Spans(items')
  BY DEF Spans
<1> QED
  BY <1>3, <1>4, <1>5, <1>6 DEF Worded

\* The embed takes leave of its field, or forgets what it found there.
LEMMA WordedReset ==
  ASSUME Kept, Worded, items' = {}, SendsAfter(Says(field, {})), UNCHANGED <<loading, active, marks>>
  PROVE  Worded'
<1> SUFFICES ASSUME ~loading PROVE Worded'
  BY DEF Worded
<1>1. active \in Fields \cup {None}
  BY DEF Kept, AllTyped, HostTyped
<1>2. IF field = None THEN toHost' = toHost ELSE NewWord(toHost', toHost, field, {})
  BY SpokenWords, NoSpans
<1>3. ASSUME NEW f \in Fields, NEW i \in Idx(toHost'), Word(toHost', i, f)
      PROVE  toHost'[i].spans = {}
  <2>1. CASE f = field
    BY <1>2, <1>3, <2>1, NoneIsNoField DEF NewWord
  <2>2. CASE f # field
    <3>1. SameWord(toHost', toHost, i, f)
      BY <1>2, <1>3, <2>2, SameWordsSame DEF NewWord, SameWords
    <3>2. PICK k \in Idx(toHost) : Word(toHost, k, f) /\ toHost[k] = toHost'[i]
      BY <3>1 DEF SameWord
    <3> QED
      BY <2>2, <3>2 DEF Worded
  <2> QED
    BY <2>1, <2>2
<1>4. ASSUME active # None, Silent(toHost', active) PROVE marks = {}
  <2>1. Silent(toHost, active) /\ active # field
    BY <1>1, <1>2, <1>4 DEF NewWord
  <2> QED
    BY <1>4, <2>1 DEF Worded
<1>5. (Spans(items))' = {}
  BY DEF Spans
<1> QED
  BY <1>1, <1>3, <1>4, <1>5 DEF Worded

\* Connections under way stay under way until they are heard.
LEMMA UnconnectedPosted ==
  ASSUME Kept, NEW ms \in Seq(EmbedWire), Posts(ms)
  PROVE  Unconnected(toEmbed') => Unconnected(toEmbed)
<1>1. toEmbed \in Seq(EmbedWire)
  BY DEF Kept, AllTyped, WiresTyped
<1> DEFINE q == toEmbed
           new == q \o ms
<1>2. \A i \in Idx(q) : i \in Idx(new) /\ new[i] = q[i]
  <2>1. /\ Len(q) \in Nat /\ Len(ms) \in Nat /\ Len(new) = Len(q) + Len(ms)
        /\ \A i \in 1..(Len(q) + Len(ms)) : new[i] = IF i <= Len(q) THEN q[i] ELSE ms[i - Len(q)]
    BY <1>1, ConcatProperties, LenProperties
  <2> HIDE DEF new, q
  <2> QED
    BY <2>1 DEF Idx
<1>3. toEmbed' = new
  BY DEF Posts
<1> HIDE DEF new
<1> QED
  BY <1>2, <1>3 DEF Unconnected

LEMMA UnconnectedTaken ==
  ASSUME Kept, toEmbed # <<>>, toEmbed' = Tail(toEmbed), Head(toEmbed).type # "fieldConnected"
  PROVE  Unconnected(toEmbed') => Unconnected(toEmbed)
<1>1. /\ Len(toEmbed) \in Nat /\ Head(toEmbed) = toEmbed[1] /\ Len(toEmbed') = Len(toEmbed) - 1
      /\ \A i \in 1..Len(toEmbed') : toEmbed'[i] = toEmbed[i + 1]
  BY LenProperties, HeadTailProperties, EmptySeq DEF Kept, AllTyped, WiresTyped
<1> SUFFICES ASSUME Unconnected(toEmbed'), NEW j \in Idx(toEmbed), j # 1 PROVE toEmbed[j].type # "fieldConnected"
  BY <1>1 DEF Unconnected
<1> DEFINE k == j - 1
<1>2. k \in Idx(toEmbed') /\ toEmbed[k + 1] = toEmbed'[k] /\ k + 1 = j
  BY <1>1 DEF Idx
<1> HIDE DEF k
<1> QED
  BY <1>2 DEF Unconnected

LEMMA SyncWorded ==
  ASSUME Kept, Owned, Worded, field # None, NEW t \in Texts, Sync(t),
         UNCHANGED <<loading, active, marks, field, publishing>>,
         ~loading /\ active # None /\ Unconnected(toEmbed') => Unconnected(toEmbed) /\ field = active
  PROVE  Worded'
<1>1. CASE t = buffer \/ ~publishing
  <2>1. toHost' = toHost
    BY <1>1 DEF Sync
  <2>2. items' = items
    <3>1. CASE t = buffer
      BY <3>1 DEF Sync
    <3>2. CASE ~publishing
      <4>1. items = {} /\ \A item \in items' : \E i \in items : i.user = item.user
        BY <3>2, SyncKeeps DEF Owned, Kept
      <4> QED
        BY <4>1
    <3> QED
      BY <1>1, <3>1, <3>2
  <2> QED
    BY <2>1, <2>2, SameWordsSame, WordedSame
<1>2. CASE t # buffer /\ publishing
  <2>1. SendsAfter(Says(field, items')) /\ items' \in SUBSET Finding
    BY <1>2, SyncKeeps DEF Sync, Kept
  <2> QED
    BY <2>1, WordedSpoken
<1> QED
  BY <1>1, <1>2

LEMMA EmbedHearsWorded ==
  ASSUME Kept, Owned, Introduced, Worded, EmbedHears,
         ~loading /\ active # None /\ Unconnected(toEmbed') => field' = active
  PROVE  Worded'
<1> DEFINE m == Head(toEmbed)
<1>1. m \in EmbedWire
  BY Taken DEF EmbedHears, Kept, AllTyped, WiresTyped
<1>2. toEmbed # <<>> /\ toEmbed' = Tail(toEmbed) /\ UNCHANGED <<loading, active, marks>>
  BY DEF EmbedHears, hostVars
<1>3. m.type # "fieldConnected" => (Unconnected(toEmbed') => Unconnected(toEmbed))
  BY <1>2, UnconnectedTaken
<1>4. toHost \in Seq(HostWire)
  BY DEF Kept, AllTyped, WiresTyped
<1>5. CASE m.type = "hello"
  <2>1. SendsAfter(<<Ready>>) /\ UNCHANGED <<field, items>>
    BY <1>5 DEF EmbedHears, docVars
  <2>2. <<Ready>> \in Seq(HostWire) /\ \A i \in Idx(<<Ready>>) : <<Ready>>[i].type # "findings"
    BY DEF HostWire, Spoken, Ready, Idx
  <2>3. SameWords(toHost', toHost)
    BY <1>4, <2>1, <2>2, SameWordsAdded DEF SendsAfter
  <2> QED
    BY <1>2, <1>3, <1>5, <2>1, <2>3, WordedSame
<1>6. CASE m.type # "hello" /\ ~pinned
  <2>1. UNCHANGED <<toHost, field, items>>
    BY <1>6 DEF EmbedHears, docVars
  <2>2. ~loading => active = None
    BY <1>6 DEF Introduced
  <2> QED
    BY <1>2, <2>1, <2>2, SameWordsSame, WordedSame
<1>7. CASE m.type \in {"fieldConnected", "fieldDisconnected"} /\ pinned
  <2>1. OnConnected(m) \/ OnDisconnected(m)
    BY <1>7 DEF EmbedHears
  <2>2. CASE ResetConnection
    BY <1>2, <2>2, WordedReset DEF ResetConnection
  <2>3. CASE ~ResetConnection
    <3>1. UNCHANGED <<toHost, field, items>> /\ m.type # "fieldConnected"
      BY <1>7, <2>1, <2>3 DEF OnConnected, OnDisconnected, EmbedHears, docVars
    <3> QED
      BY <1>2, <1>3, <3>1, SameWordsSame, WordedSame
  <2> QED
    BY <2>2, <2>3
<1>8. CASE m.type \in {"textChanged", "replaceResult"} /\ pinned
  <2>1. m.text \in Texts /\ m.field \in Fields
    BY <1>1, <1>8, EmbedWires
  <2>2. UNCHANGED <<field, publishing>> /\ (OnChanged(m) \/ OnResult(m))
    BY <1>8 DEF EmbedHears, OnChanged, OnResult
  <2>3. CASE m.field = field
    <3>1. Sync(m.text) /\ field # None
      BY <2>1, <2>2, <2>3, NoneIsNoField DEF OnChanged, OnResult
    <3> QED
      BY <1>2, <1>3, <1>8, <2>1, <2>2, <3>1, SyncWorded
  <2>4. CASE m.field # field
    <3>1. UNCHANGED <<toHost, items>>
      BY <2>2, <2>4 DEF OnChanged, OnResult
    <3> QED
      BY <1>2, <1>3, <1>8, <2>2, <3>1, SameWordsSame, WordedSame
  <2> QED
    BY <2>3, <2>4
<1>9. CASE m.type = "markingClicked" /\ pinned
  <2>1. UNCHANGED <<toHost, field, items>>
    BY <1>9 DEF EmbedHears, OnClicked
  <2> QED
    BY <1>2, <1>3, <1>9, <2>1, SameWordsSame, WordedSame
<1> QED
  BY <1>1, <1>5, <1>6, <1>7, <1>8, <1>9, EmbedWires

\* The host marks what it is told of its field.
LEMMA MarkedWorded ==
  ASSUME Kept, Worded, NEW f \in Fields, NEW spans, LessWord(toHost', toHost, f),
         toHost[1].spans = spans,
         1 \in Idx(toHost), marks' = Marked(f, spans),
         UNCHANGED <<loading, active, field, items, toEmbed>>
  PROVE  Worded'
<1> SUFFICES ASSUME ~loading PROVE Worded'
  BY DEF Worded
<1>1. active \in Fields \cup {None}
  BY DEF Kept, AllTyped, HostTyped
<1>2. /\ \A g \in Fields : \A i \in Idx(toHost') : Word(toHost', i, g) => SameWord(toHost', toHost, i, g)
      /\ \A g \in Fields : Silent(toHost', g) => IF g = f THEN Word(toHost, 1, g) ELSE Silent(toHost, g)
  BY DEF LessWord
<1>3. ASSUME NEW g \in Fields, NEW i \in Idx(toHost'), Word(toHost', i, g)
      PROVE  toHost'[i].spans = {} \/ (g = field /\ toHost'[i].spans = Spans(items))
  <2>1. PICK k \in Idx(toHost) : Word(toHost, k, g) /\ toHost[k] = toHost'[i]
    BY <1>2, <1>3 DEF SameWord
  <2> QED
    BY <2>1 DEF Worded
<1>4. ASSUME active # None, Silent(toHost', active) PROVE marks' = {} \/ (field = active /\ marks' = Spans(items))
  <2>1. CASE active = f
    <3>1. Word(toHost, 1, f) /\ marks' = toHost[1].spans
      BY <1>1, <1>2, <1>4, <2>1 DEF Marked
    <3> QED
      BY <2>1, <3>1 DEF Worded
  <2>2. CASE active # f
    <3>1. Silent(toHost, active) /\ marks' = marks
      BY <1>1, <1>2, <1>4, <2>2 DEF Marked
    <3> QED
      BY <1>4, <3>1 DEF Worded
  <2> QED
    BY <2>1, <2>2
<1>5. ASSUME active # None, Unconnected(toEmbed)
      PROVE  /\ \A i \in Idx(toHost') : Word(toHost', i, active) => toHost'[i].spans = Spans(items)
             /\ Silent(toHost', active) => marks' = Spans(items)
  <2>1. active \in Fields
    BY <1>1, <1>5
  <2>2. ASSUME NEW i \in Idx(toHost'), Word(toHost', i, active) PROVE toHost'[i].spans = Spans(items)
    <3>1. PICK k \in Idx(toHost) : Word(toHost, k, active) /\ toHost[k] = toHost'[i]
      BY <1>2, <2>1, <2>2 DEF SameWord
    <3> QED
      BY <1>5, <3>1 DEF Worded
  <2>3. ASSUME Silent(toHost', active) PROVE marks' = Spans(items)
    <3>1. CASE active = f
      <4>1. Word(toHost, 1, f) /\ marks' = toHost[1].spans
        BY <1>2, <2>1, <2>3, <3>1 DEF Marked
      <4> QED
        BY <1>5, <3>1, <4>1 DEF Worded
    <3>2. CASE active # f
      <4>1. Silent(toHost, active) /\ marks' = marks
        BY <1>2, <2>1, <2>3, <3>2 DEF Marked
      <4> QED
        BY <1>5, <4>1 DEF Worded
    <3> QED
      BY <3>1, <3>2
  <2> QED
    BY <2>2, <2>3
<1>6. Spans(items)' = Spans(items)
  BY DEF Spans
<1> QED
  BY <1>3, <1>4, <1>5, <1>6 DEF Worded

LEMMA HostHearsWorded == ASSUME Kept, Worded, HostHears PROVE Worded'
<1> DEFINE m == Head(toHost)
<1>1. /\ toHost \in Seq(HostWire) /\ m \in HostWire /\ 1 \in Idx(toHost) /\ m = toHost[1]
      /\ toHost # <<>> /\ toHost' = Tail(toHost) /\ UNCHANGED <<field, items>>
  BY Taken, RestIs DEF HostHears, docVars, Kept, AllTyped, WiresTyped
<1>2. /\ m.type # "findings" => SameWords(toHost', toHost)
      /\ \A f : About(m, f) => LessWord(toHost', toHost, f)
  BY <1>1, WordsTaken
<1>3. CASE m.type = "ready"
  <2>1. UNCHANGED <<loading, active, marks, toEmbed>>
    BY <1>3 DEF HostHears
  <2> QED
    BY <1>1, <1>2, <1>3, <2>1, WordedSame
<1>4. CASE m.type = "findings"
  <2>1. marks' = Marked(m.field, m.spans) /\ UNCHANGED <<loading, active, toEmbed>>
    BY <1>4 DEF HostHears
  <2>2. m.field \in Fields /\ LessWord(toHost', toHost, m.field)
    BY <1>1, <1>2, <1>4, HostWires DEF About
  <2> QED
    BY <1>1, <2>1, <2>2, MarkedWorded
<1>5. CASE m.type = "applyReplacement"
  <2>1. UNCHANGED <<loading, active, marks>>
    BY <1>5 DEF HostHears, hostVars
  <2>2. PICK ms \in Seq(EmbedWire) : Posts(ms)
    <3>1. m.request \in Requests /\ m.field \in Fields
      BY <1>1, <1>5, HostWires
    <3>2. CASE active # m.field
      <4>1. page[m.field] \in Texts
        BY <3>1 DEF Kept, AllTyped, HostTyped
      <4> DEFINE answer == ResultMsg(m.request, m.field, FALSE, IF active = None THEN page[m.field] ELSE <<>>)
      <4>2. answer \in EmbedWire
        BY <3>1, <4>1, EmptyText, HostMessages
      <4>3. Posts(<<answer>>)
        BY <1>5, <3>2 DEF HostHears
      <4>4. <<answer>> \in Seq(EmbedWire)
        <5> HIDE DEF answer
        <5> QED
          BY <4>2
      <4> QED
        BY <4>3, <4>4
    <3>3. CASE active = m.field
      <4>1. PICK o \in Outcomes(active, page[active], m) : o.text \in Texts /\ Posts(Answering(active, m, o))
        BY <1>5, <3>3, HostHearsApply
      <4>2. active \in Fields /\ page[active] \in Texts
        BY <3>1, <3>3 DEF Kept, AllTyped, HostTyped
      <4>3. o.ok \in BOOLEAN /\ o.seen \in Texts
        BY <1>1, <1>5, <4>1, <4>2, OutcomesAre
      <4> QED
        BY <3>1, <3>3, <4>1, <4>3, AnsweringTyped DEF Kept, AllTyped
    <3> QED
      BY <3>2, <3>3
  <2>3. Unconnected(toEmbed') => Unconnected(toEmbed)
    BY <2>2, UnconnectedPosted
  <2> QED
    BY <1>1, <1>2, <1>5, <2>1, <2>3, WordedSame
<1> QED
  BY <1>1, <1>3, <1>4, <1>5, HostWires

\* With no connection under way the embed has the host's field.
Met == ~loading /\ active # None /\ Unconnected(toEmbed) => field = active

LEMMA LineMeets == Kept /\ InLine => Met
BY FieldIsActive DEF Met, Unconnected

LEMMA WordedInit == Init => Worded
<1> SUFFICES ASSUME Init PROVE Worded
  OBVIOUS
<1>1. Idx(toHost) = {} /\ marks = {} /\ items = {} /\ field = active
  BY EmptySeq DEF Init, Idx
<1> QED
  BY <1>1, NoSpans DEF Worded

LEMMA HostMovesWorded ==
  ASSUME Kept, Worded, FrameLoads \/ HelloAgain \/ Leave \/ Click \/ (\E f \in Fields : Connect(f) \/ Type(f))
  PROVE  Worded'
<1>1. UNCHANGED <<field, items>>
  BY DEF FrameLoads, HelloAgain, Leave, Click, Connect, Type, EmbedRests, docVars
<1>2. CASE FrameLoads
  <2>1. active' = None /\ Idx(toHost') = {}
    BY <1>2, EmptySeq DEF FrameLoads, Idx
  <2> QED
    BY <2>1 DEF Worded
<1>3. CASE Leave
  <2>1. active' = None /\ toHost' = toHost /\ loading' = loading
    BY <1>3 DEF Leave
  <2>2. Spans(items)' = Spans(items)
    BY <1>1 DEF Spans
  <2> QED
    BY <1>1, <2>1, <2>2 DEF Worded
<1>4. ASSUME NEW f \in Fields, Connect(f) PROVE Worded'
  <2>1. /\ marks' = {} /\ toHost' = toHost /\ loading' = loading
        /\ toEmbed' = toEmbed \o <<ConnectedMsg(f, page[f])>>
    BY <1>4 DEF Connect, Posts
  <2>2. ~Unconnected(toEmbed')
    <3> DEFINE n == Len(toEmbed) + 1
               m == ConnectedMsg(f, page[f])
    <3>1. m \in EmbedWire /\ m.type = "fieldConnected"
      BY HostMessages DEF ConnectedMsg, Kept, AllTyped, HostTyped
    <3> HIDE DEF m
    <3>2. n \in Idx(toEmbed') /\ toEmbed'[n] = m
      <4>1. <<m>> \in Seq(EmbedWire) /\ Len(<<m>>) = 1 /\ <<m>>[1] = m
        BY <3>1
      <4>2. toEmbed' = toEmbed \o <<m>>
        BY <2>1 DEF m
      <4>3. /\ Len(toEmbed) \in Nat /\ Len(toEmbed') = Len(toEmbed) + 1
            /\ \A i \in 1..(Len(toEmbed) + 1) :
                 toEmbed'[i] = IF i <= Len(toEmbed) THEN toEmbed[i] ELSE <<m>>[i - Len(toEmbed)]
        BY <4>1, <4>2, ConcatProperties, LenProperties DEF Kept, AllTyped, WiresTyped
      <4> QED
        BY <4>1, <4>3 DEF Idx
    <3> HIDE DEF n
    <3> QED
      BY <3>1, <3>2 DEF Unconnected
  <2>3. Spans(items)' = Spans(items)
    BY <1>1 DEF Spans
  <2> QED
    BY <1>1, <2>1, <2>2, <2>3 DEF Worded
<1>5. ASSUME HelloAgain \/ Click \/ \E f \in Fields : Type(f) PROVE Worded'
  <2>1. UNCHANGED <<loading, active, marks, toHost>>
    BY <1>5 DEF HelloAgain, Click, Type, hostVars
  <2>2. PICK ms \in Seq(EmbedWire) : Posts(ms)
    <3>1. CASE HelloAgain
      <4>1. <<Hello>> \in Seq(EmbedWire)
        BY HostMessages
      <4> QED
        BY <3>1, <4>1 DEF HelloAgain
    <3>2. CASE Click
      <4>1. PICK mark \in marks : Posts(<<ClickedMsg(active, mark.id)>>)
        BY <3>2 DEF Click
      <4>2. <<ClickedMsg(active, mark.id)>> \in Seq(EmbedWire)
        BY <3>2, <4>1, HostMessages DEF Kept, AllTyped, HostTyped, Click, Mark
      <4> QED
        BY <4>1, <4>2
    <3>3. ASSUME NEW f \in Fields, Type(f) PROVE \E ms \in Seq(EmbedWire) : Posts(ms)
      <4>1. PICK t \in Fitting(Edits(page[f])) : Posts(Changes(f, t))
        BY <3>3 DEF Type
      <4>2. t \in Texts
        BY <4>1, EmptyText, EditsAre, FittingAre DEF Kept, AllTyped, HostTyped
      <4> QED
        BY <4>1, <4>2, ChangesTyped DEF Kept, AllTyped
    <3> QED
      BY <1>5, <3>1, <3>2, <3>3
  <2>3. Unconnected(toEmbed') => Unconnected(toEmbed)
    BY <2>2, UnconnectedPosted
  <2> QED
    BY <1>1, <2>1, <2>3, SameWordsSame, WordedSame
<1> QED
  BY <1>2, <1>3, <1>4, <1>5

\* A replacement is asked for: nothing is said of findings.
LEMMA WantsWorded == ASSUME Kept, Worded, NEW item \in Offered, Wants(item) PROVE Worded'
<1>1. PICK from \in Nat, to \in Nat, insert \in Inserts :
        from <= to /\ to <= Len(buffer) /\ SendReplace(item, from, to, insert)
  BY DEF Wants
<1>2. item \in Finding
  BY DEF Wants
<1> DEFINE said == Slice(buffer, from, to)
           Sent(q) == [type |-> "applyReplacement", request |-> q, field |-> field,
                       from |-> from, to |-> to, insert |-> insert, expected |-> said]
           Waiting == [state |-> "waiting", id |-> item.id, field |-> field, said |-> said, met |-> FALSE, applied |-> FALSE]
<1>3. PICK r \in Requests : /\ ask[r].state = "none" /\ field \in Fields
                            /\ ask' = [ask EXCEPT ![r] = Waiting]
                            /\ SendsAfter(<<Sent(r)>>) /\ Sent(r) \in HostWire
  BY <1>1, <1>2, SendReplaceIs
<1>4. <<Sent(r)>> \in Seq(HostWire) /\ \A i \in Idx(<<Sent(r)>>) : <<Sent(r)>>[i].type # "findings"
  BY <1>3 DEF Idx
<1> HIDE DEF Sent
<1>5. SameWords(toHost', toHost)
  BY <1>3, <1>4, SameWordsAdded DEF SendsAfter, Kept, AllTyped, WiresTyped
<1>6. UNCHANGED <<loading, active, marks, toEmbed, field, items>>
  BY DEF Wants, HostRests, hostVars, Opened
<1> QED
  BY <1>5, <1>6, WordedSame

LEMMA RunCheckWorded ==
  ASSUME Kept, Worded, Met, NEW sources \in SUBSET Sources, RunCheck(sources),
         UNCHANGED <<loading, active, marks, toEmbed, field>>
  PROVE  Worded'
<1>1. CASE buffer = <<>>
  <2>1. SendsAfter(Says(field, items')) /\ items' \in SUBSET Finding
    BY <1>1, RunCheckKeeps DEF RunCheck, Merge
  <2> QED
    BY <2>1, WordedSpoken DEF Met
<1>2. CASE buffer # <<>>
  <2>1. UNCHANGED <<items, toHost>>
    BY <1>2 DEF RunCheck
  <2> QED
    BY <2>1, SameWordsSame, WordedSame
<1> QED
  BY <1>1, <1>2

LEMMA AnswerWorded == ASSUME Kept, Worded, Met, Answer PROVE Worded'
<1>1. UNCHANGED <<loading, active, marks, toEmbed, field>>
  BY DEF Answer, HostRests, hostVars
<1>2. items' \in SUBSET Finding /\ (SendsAfter(Says(field, items')) \/ UNCHANGED <<items, toHost>>)
  BY AnswerKeeps DEF Answer, Merge, Kept, AllTyped, DocTyped
<1>3. CASE SendsAfter(Says(field, items'))
  BY <1>1, <1>2, <1>3, WordedSpoken DEF Met
<1>4. CASE UNCHANGED <<items, toHost>>
  BY <1>1, <1>4, SameWordsSame, WordedSame
<1> QED
  BY <1>2, <1>3, <1>4

LEMMA PanelMovesWorded ==
  ASSUME Kept, Worded, Met,
         \/ Select \/ ApplySuggestion \/ ApplyRewrite \/ Check \/ Effects \/ Answer \/ Restore \/ SignOut
         \/ (\E u \in Users : SignIn(u)) \/ (\E r \in Requests : Timeout(r))
  PROVE  Worded'
<1>1. UNCHANGED <<loading, active, marks, toEmbed, field>>
  BY PanelMoves DEF hostVars
<1>2. CASE Select \/ Restore \/ \E r \in Requests : Timeout(r)
  <2>1. UNCHANGED <<items, toHost>>
    BY <1>2 DEF Select, Restore, Timeout, docVars
  <2> QED
    BY <1>1, <2>1, SameWordsSame, WordedSame
<1>3. CASE ApplySuggestion \/ ApplyRewrite
  <2>1. PICK item \in Offered : Wants(item)
    BY <1>3, ApplySuggestionWants, ApplyRewriteWants
  <2> QED
    BY <2>1, WantsWorded
<1>4. CASE Check
  <2>1. PICK sources \in SUBSET Sources : RunCheck(sources)
    BY <1>4 DEF Check, Sources
  <2> QED
    BY <1>1, <2>1, RunCheckWorded
<1>5. CASE Effects
  <2>1. CASE RunCheck({"rule"})
    <3>1. {"rule"} \in SUBSET Sources
      BY DEF Sources
    <3> QED
      BY <1>1, <2>1, <3>1, RunCheckWorded
  <2>2. CASE UNCHANGED <<items, toHost>>
    BY <1>1, <2>2, SameWordsSame, WordedSame
  <2> QED
    BY <1>5, <2>1, <2>2 DEF Effects
<1>6. CASE Answer
  BY <1>6, AnswerWorded
<1>7. CASE SignOut \/ \E u \in Users : SignIn(u)
  <2>1. ResetConnection
    BY <1>7 DEF SignOut, SignIn
  <2> QED
    BY <1>1, <2>1, WordedReset DEF ResetConnection
<1> QED
  BY <1>2, <1>3, <1>4, <1>5, <1>6, <1>7

LEMMA WordedNext == Kept /\ Owned /\ Introduced /\ Worded /\ Met /\ Met' /\ [Next]_vars => Worded'
<1> SUFFICES ASSUME Kept, Owned, Introduced, Worded, Met, Met', [Next]_vars PROVE Worded'
  OBVIOUS
<1>1. CASE UNCHANGED vars
  BY <1>1, SameWordsSame, WordedSame DEF vars, hostVars, docVars
<1>2. CASE FrameLoads \/ HelloAgain \/ Leave \/ Click \/ \E f \in Fields : Connect(f) \/ Type(f)
  BY <1>2, HostMovesWorded
<1>3. CASE HostHears
  BY <1>3, HostHearsWorded
<1>4. CASE EmbedHears
  <2>1. UNCHANGED <<loading, active>>
    BY <1>4 DEF EmbedHears, hostVars
  <2>2. ~loading /\ active # None /\ Unconnected(toEmbed') => field' = active
    BY <2>1 DEF Met, Unconnected
  <2> QED
    BY <1>4, <2>2, EmbedHearsWorded
<1>5. CASE \/ Select \/ ApplySuggestion \/ ApplyRewrite \/ Check \/ Effects \/ Answer \/ Restore \/ SignOut
           \/ (\E u \in Users : SignIn(u)) \/ (\E r \in Requests : Timeout(r))
  BY <1>5, PanelMovesWorded
<1>6. CASE Reload
  BY <1>6 DEF Reload, Worded
<1> QED
  BY <1>1, <1>2, <1>3, <1>4, <1>5, <1>6 DEF Next

\* Nothing under way: what the embed has and what the host shows are the same.
LEMMA QuietInStep == Kept /\ Introduced /\ InLine /\ Worded => InStep
<1> SUFFICES ASSUME Kept, Introduced, InLine, Worded PROVE InStep
  OBVIOUS
<1>1. \A item \in items : Fits(item)
  BY DEF Kept, Standing, Stands, Fits
<1>2. ASSUME Quiet
      PROVE  /\ field = active \/ forgotten
             /\ active = None => marks = {}
             /\ active # None => buffer = page[active] /\ marks = Spans(items)
  <2>1. PICK e \in View : Leads(toEmbed, View0, e) /\ Arrives(e)
    BY DEF InLine
  <2>2. e = View0 /\ ~loading
    BY <1>2, <2>1, LeadsNowhereElse DEF Quiet
  <2>3. field = active \/ forgotten
    BY <2>1, <2>2 DEF Arrives, View0
  <2>4. active # None => buffer = page[active]
    BY <2>1, <2>2 DEF Arrives, View0
  <2>5. Idx(toHost) = {} /\ Idx(toEmbed) = {}
    BY <1>2, EmptySeq DEF Quiet, Idx
  <2>6. Silent(toHost, active) /\ Unconnected(toEmbed)
    BY <2>5 DEF Silent, Unconnected
  <2>7. active # None => marks = Spans(items)
    BY <2>2, <2>6 DEF Worded
  <2> QED
    BY <2>3, <2>4, <2>7 DEF Introduced
<1> QED
  BY <1>1, <1>2 DEF InStep, Spans

(* Findings stand over their text always, and whenever nothing is under way     *)
(* host and embed agree on the field, its text and its marks.               *)
THEOREM StaysInStep == Spec => []InStep
<1>1. Kept /\ InLine => Met
  BY LineMeets
<1> QED
  BY <1>1, KeptInit, KeptNext, OwnedInit, OwnedNext, IntroducedInit, IntroducedNext, InLineInit, InLineNext,
     WordedInit, WordedNext, QuietInStep, PTL DEF Spec

=============================================================================
