----------------------- MODULE ExtensionPorts_proofs -----------------------
(***************************************************************************)
(* What scripts, ports and worker have in common while something is under  *)
(* way, for any windows, tabs, ports, fields and texts.                    *)
(*                                                                         *)
(* FieldSide is the invariant: what may stand on the ports of the scripts, *)
(* and how the session of a script, the field the worker has and the words *)
(* between them hang together.  It says nothing of one state of the        *)
(* extension: it is stated of any ports, scripts and windows, and each     *)
(* lemma XKeeps shows that it outlives one kind of change, XStep.  What a  *)
(* port hears, a script says or the worker forgets is a change of a kind   *)
(* or two of them in turn, and Extension_proofs puts them together.        *)
(***************************************************************************)
EXTENDS Extension, SequenceTheorems, WellFoundedInduction, TLAPS

Idx(s) == 1..Len(s)
Connects(m) == m.type = "fieldConnected"
Tells(m) == m.type \in {"textChanged", "fieldDisconnected"}
Texted(m) == m.type \in {"fieldConnected", "textChanged"}
Overrides(m) == m.type \in {"fieldConnected", "fieldDisconnected", "closed"}

WindowStates == [field : FieldState \cup {None}, panelReady : BOOLEAN]
HoldsIn(ws, w, t) == ws[w].field # None /\ ws[w].field.tab = t

\* The field the worker has for the session that speaks on port p, if any.
Now(ws, cap, fps, p) ==
  IF cap[p] # None /\ fps[cap[p].tab] = p /\ HoldsIn(ws, cap[p].window, cap[p].tab)
    THEN ws[cap[p].window].field.id ELSE None

Typed(ps, sc, ws, cap, fps, con, drop) ==
  /\ ps \in [FieldPorts -> PortWire \cup {None}] /\ sc \in [Tabs -> Scout]
  /\ ws \in [Windows -> WindowStates]
  /\ cap \in [FieldPorts -> [tab : Tabs, window : Windows] \cup {None}]
  /\ fps \in [Tabs -> FieldPorts \cup {None}]
  /\ con \in [Fields -> Servers \cup {None}] /\ drop \subseteq Fields

(* A port speaks of its opening first, and once.                            *)
Shape(x, c) ==
  IF c # None THEN c.tab = x.of /\ \A i \in Idx(x.up) : x.up[i].type # "open"
  ELSE /\ x.live <=> x.up # <<>>
       /\ \A i \in Idx(x.up) : x.up[i].type = "open" <=> i = 1
PortsShaped(ps, cap) ==
  \A p \in FieldPorts :
    /\ ps[p] = None => cap[p] = None /\ \A e \in FieldPorts : e > p => ps[e] = None
    /\ ps[p] # None => Shape(ps[p], cap[p])
PortsInOrder(ps, cap) ==
  \A p, e \in FieldPorts :
    cap[p] # None /\ ps[e] # None /\ e < p /\ ps[e].of = ps[p].of => cap[e] # None \/ ~ps[e].live
Registered(ps, cap, fps) ==
  \A t \in Tabs : fps[t] # None =>
    cap[fps[t]] # None /\ cap[fps[t]].tab = t /\ ps[fps[t]].live

(* A script speaks on the last port of its tab, which is registered as soon  *)
(* as it is open, and has no session without one.                           *)
OwnPort(ps, s, cap, fps, t) ==
  LET p == s.port
  IN  /\ p = None => s.session = None
      /\ p # None =>
           /\ ps[p] # None /\ ps[p].of = t
           /\ \A i \in Idx(ps[p].up) : ps[p].up[i].type # "closed"
           /\ \A e \in FieldPorts : ps[e] # None /\ ps[e].of = t => e <= p
           /\ ps[p].live /\ cap[p] # None => fps[t] = p
OwnPorts(ps, sc, cap, fps) == \A t \in Tabs : OwnPort(ps, sc[t], cap, fps, t)

Housed(ws, cap, fps) ==
  \A w \in Windows : ws[w].field # None =>
    LET t == ws[w].field.tab
    IN  fps[t] # None /\ cap[fps[t]] = [tab |-> t, window |-> w]

(* A text or an end is said of the field that was connected last.           *)
Speech(ms, now) ==
  \A j \in Idx(ms) : Tells(ms[j]) =>
    /\ now # None /\ now # ms[j].id => \E k \in 1..(j - 1) : Connects(ms[k])
    /\ \A i \in 1..(j - 1) : Connects(ms[i]) /\ ms[i].id # ms[j].id =>
         \E k \in (i + 1)..(j - 1) : Connects(ms[k])
Spoken(ps, ws, cap, fps) ==
  \A p \in FieldPorts : ps[p] # None => Speech(ps[p].up, Now(ws, cap, fps, p))

(* The session of a script is the last that its port tells of, or the one    *)
(* the worker has, or about to hear that it was detached.                   *)
Detaches(x) ==
  {g \in Fields : \E i \in Idx(x.down) : x.down[i].type = "detach" /\ x.down[i].id = g}
Session(ms, detached, now, f) ==
  \/ \E i \in Idx(ms) : /\ Connects(ms[i]) /\ ms[i].id = f
                        /\ \A k \in Idx(ms) : k > i => ~Connects(ms[k])
  \/ /\ \A k \in Idx(ms) : ~Connects(ms[k])
     /\ now = f \/ (now = None /\ f \in detached)
Sessions(ps, sc, ws, cap, fps) ==
  \A t \in Tabs :
    LET p == sc[t].port
    IN  sc[t].session # None /\ ps[p].live =>
          Session(ps[p].up, Detaches(ps[p]), Now(ws, cap, fps, p), sc[t].session)

(* What was typed is the last text the port tells of, or the worker has it.  *)
Typing(ms, now, f, known, text) ==
  \/ \E i \in Idx(ms) : /\ Texted(ms[i]) /\ ms[i].text = text
                        /\ \A k \in Idx(ms) : k > i => ~Texted(ms[k])
  \/ (\A k \in Idx(ms) : ~Texted(ms[k])) /\ (now = f => known = text)
Typings(ps, sc, ws, cap, fps) ==
  \A t \in Tabs :
    LET p == sc[t].port
    IN  sc[t].session # None /\ ps[p].live =>
          Typing(ps[p].up, Now(ws, cap, fps, p), sc[t].session,
                 ws[cap[p].window].field.text, sc[t].text)

(* A field the worker has, or is about to hear of, is the session of its     *)
(* script, or will be replaced, or was dropped at a change of the server.    *)
Followed(ms, s, drop, p, i, g) ==
  \/ \E k \in Idx(ms) : k > i /\ Overrides(ms[k])
  \/ g \in drop
  \/ s.port = p /\ s.session = g
AllFollowed(ps, sc, ws, cap, fps, drop) ==
  /\ \A p \in FieldPorts : ps[p] # None /\ (cap[p] = None \/ fps[ps[p].of] = p) =>
       \A i \in Idx(ps[p].up) : Connects(ps[p].up[i]) =>
         Followed(ps[p].up, sc[ps[p].of], drop, p, i, ps[p].up[i].id)
  /\ \A w \in Windows : ws[w].field # None =>
       LET t == ws[w].field.tab
       IN  Followed(ps[fps[t]].up, sc[t], drop, fps[t], 0, ws[w].field.id)

(* A field is connected once: nobody speaks of it before, and nobody holds   *)
(* it or connects it again after its script was told to detach.             *)
Unconnected(ps, g) ==
  \A q \in FieldPorts : ps[q] # None =>
    \A j \in Idx(ps[q].up) : Connects(ps[q].up[j]) => ps[q].up[j].id # g
Unheld(ws, g) == \A w \in Windows : ws[w].field # None => ws[w].field.id # g
OneWindow(ws, con) ==
  \A w \in Windows : ws[w].field # None =>
    /\ con[ws[w].field.id] # None
    /\ \A v \in Windows : ws[v].field # None /\ ws[v].field.id = ws[w].field.id => v = w
OneGreeting(ps, ws, con) ==
  \A p \in FieldPorts : ps[p] # None =>
    \A i \in Idx(ps[p].up) : Connects(ps[p].up[i]) =>
      /\ con[ps[p].up[i].id] # None /\ Unheld(ws, ps[p].up[i].id)
      /\ \A q \in FieldPorts : ps[q] # None =>
           \A j \in Idx(ps[q].up) :
             Connects(ps[q].up[j]) /\ ps[q].up[j].id = ps[p].up[i].id => q = p /\ j = i
Farewells(ps, sc, con) ==
  \A p \in FieldPorts : ps[p] # None =>
    \A i \in Idx(ps[p].up) : ps[p].up[i].type = "fieldDisconnected" =>
      con[ps[p].up[i].id] # None /\ sc[ps[p].of].session # ps[p].up[i].id
Detached(ps, ws, con) ==
  \A p \in FieldPorts : ps[p] # None =>
    \A g \in Detaches(ps[p]) : con[g] # None /\ Unheld(ws, g) /\ Unconnected(ps, g)
Consented(sc, con) == \A t \in Tabs : sc[t].session # None => con[sc[t].session] # None
Names(ps, sc, ws, con) ==
  OneWindow(ws, con) /\ OneGreeting(ps, ws, con) /\ Farewells(ps, sc, con)
  /\ Detached(ps, ws, con) /\ Consented(sc, con)

FieldSide(ps, sc, ws, cap, fps, con, drop) ==
  /\ Typed(ps, sc, ws, cap, fps, con, drop)
  /\ PortsShaped(ps, cap) /\ PortsInOrder(ps, cap) /\ Registered(ps, cap, fps)
  /\ OwnPorts(ps, sc, cap, fps) /\ Housed(ws, cap, fps)
  /\ Spoken(ps, ws, cap, fps) /\ Sessions(ps, sc, ws, cap, fps) /\ Typings(ps, sc, ws, cap, fps)
  /\ AllFollowed(ps, sc, ws, cap, fps, drop) /\ Names(ps, sc, ws, con)

FieldsSound == FieldSide(ports, scout, windows, captured, fieldPorts, consent, dropped)

-----------------------------------------------------------------------------
(* Sequences, and the first port that is free.                              *)
LEMMA AppendFacts ==
  ASSUME NEW S, NEW s \in Seq(S), NEW m \in S
  PROVE  /\ Append(s, m) \in Seq(S) /\ Len(s) \in Nat /\ Len(Append(s, m)) = Len(s) + 1
         /\ \A i \in 1..Len(s) : Append(s, m)[i] = s[i]
         /\ Append(s, m)[Len(s) + 1] = m
         /\ s \o <<m>> = Append(s, m)
BY AppendProperties, AppendIsConcat

LEMMA TailFacts ==
  ASSUME NEW S, NEW s \in Seq(S), s # <<>>
  PROVE  /\ Tail(s) \in Seq(S) /\ Len(s) \in Nat /\ Len(s) > 0 /\ Len(Tail(s)) = Len(s) - 1
         /\ \A i \in 1..(Len(s) - 1) : Tail(s)[i] = s[i + 1]
         /\ Head(s) = s[1] /\ s[1] \in S
<1>1. Len(s) \in Nat /\ Len(s) > 0
  BY EmptySeq
<1>2. /\ Tail(s) \in Seq(S) /\ Len(Tail(s)) = Len(s) - 1
      /\ \A i \in 1..Len(Tail(s)) : Tail(s)[i] = s[i + 1]
  BY HeadTailProperties
<1>3. Head(s) = s[1] /\ s[1] \in S
  BY <1>1, ElementOfSeq
<1> QED BY <1>1, <1>2, <1>3

LEMMA SmallestNat ==
  ASSUME NEW T \in SUBSET Nat, T # {}
  PROVE  Min(T) \in T /\ \A x \in T : Min(T) <= x
<1>1. PICK x \in T : \A y \in T : <<y, x>> \notin OpToRel(<, Nat)
  BY NatLessThanWellFounded, WFMin
<1>2. x \in Nat /\ \A y \in T : y \in Nat /\ ~(y < x)
  BY <1>1 DEF OpToRel
<1>3. x \in T /\ \A y \in T : x <= y
  BY <1>2
<1> QED BY <1>3 DEF Min

LEMMA NextIsFree ==
  ASSUME NEW X \in SUBSET Nat, NEW f, DOMAIN f = X, Fresh(f) # {}
  PROVE  Next1(f) \in X /\ f[Next1(f)] = None /\ \A x \in X : x < Next1(f) => f[x] # None
<1>1. Fresh(f) \in SUBSET Nat
  BY DEF Fresh
<1>2. Min(Fresh(f)) \in Fresh(f) /\ \A x \in Fresh(f) : Min(Fresh(f)) <= x
  BY <1>1, SmallestNat
<1> QED BY <1>1, <1>2 DEF Fresh, Next1

-----------------------------------------------------------------------------
(* What is said on a port.                                                  *)
LEMMA SaysFacts ==
  ASSUME NEW m \in FieldSays
  PROVE  /\ m.type \in {"open", "closed", "fieldConnected", "textChanged", "fieldDisconnected"}
         /\ Connects(m) \/ Tells(m) => m.id \in Fields
         /\ Texted(m) => m.text \in Texts
         /\ m.type = "open" => m.window \in Windows
BY DEF FieldSays, Connects, Tells, Texted

LEMMA WireFacts ==
  ASSUME NEW x \in PortWire
  PROVE  /\ x.of \in Tabs /\ x.live \in BOOLEAN
         /\ x.up \in Seq(FieldSays) /\ x.down \in Seq(FieldIsTold)
         /\ Len(x.up) \in Nat /\ Len(x.down) \in Nat
         /\ \A i \in Idx(x.up) : x.up[i] \in FieldSays
<1>1. /\ x.of \in Tabs /\ x.live \in BOOLEAN
      /\ x.up \in Seq(FieldSays) /\ x.down \in Seq(FieldIsTold)
  BY DEF PortWire
<1>2. Len(x.up) \in Nat /\ Len(x.down) \in Nat
  BY <1>1
<1>3. \A i \in Idx(x.up) : x.up[i] \in FieldSays
  BY <1>1, ElementOfSeq DEF Idx
<1> QED BY <1>1, <1>2, <1>3

\* Something is added to what a port has to say.
MayTell(ms, now, m) ==
  Tells(m) => /\ now # None /\ now # m.id => \E k \in Idx(ms) : Connects(ms[k])
              /\ \A i \in Idx(ms) : Connects(ms[i]) /\ ms[i].id # m.id =>
                   \E k \in (i + 1)..Len(ms) : Connects(ms[k])
LEMMA SpeechGrows ==
  ASSUME NEW ms \in Seq(FieldSays), NEW m \in FieldSays, NEW now, Speech(ms, now),
         MayTell(ms, now, m)
  PROVE  Speech(Append(ms, m), now)
<1> DEFINE n == Append(ms, m)
<1>1. /\ Len(ms) \in Nat /\ Len(n) = Len(ms) + 1 /\ n[Len(ms) + 1] = m
      /\ \A i \in 1..Len(ms) : n[i] = ms[i]
  BY AppendFacts
<1> HIDE DEF n
<1> SUFFICES ASSUME NEW j \in Idx(n), Tells(n[j])
             PROVE  /\ now # None /\ now # n[j].id => \E k \in 1..(j - 1) : Connects(n[k])
                    /\ \A i \in 1..(j - 1) : Connects(n[i]) /\ n[i].id # n[j].id =>
                         \E k \in (i + 1)..(j - 1) : Connects(n[k])
  BY DEF Speech, n
<1>2. CASE j = Len(ms) + 1
  BY <1>1, <1>2 DEF Idx, MayTell
<1>3. CASE j # Len(ms) + 1
  <2>1. j \in Idx(ms) /\ n[j] = ms[j] /\ \A k \in 1..(j - 1) : n[k] = ms[k]
    BY <1>1, <1>3 DEF Idx
  <2> QED BY <2>1 DEF Speech, Idx
<1> QED BY <1>2, <1>3

LEMMA SessionGrows ==
  ASSUME NEW ms \in Seq(FieldSays), NEW m \in FieldSays, NEW detached, NEW now, NEW f,
         \/ Session(ms, detached, now, f) /\ ~Connects(m)
         \/ Connects(m) /\ m.id = f
  PROVE  Session(Append(ms, m), detached, now, f)
<1> DEFINE n == Append(ms, m)
<1>1. /\ Len(ms) \in Nat /\ Len(n) = Len(ms) + 1 /\ n[Len(ms) + 1] = m
      /\ \A i \in 1..Len(ms) : n[i] = ms[i]
  BY AppendFacts
<1> HIDE DEF n
<1>2. Session(n, detached, now, f)
  BY <1>1 DEF Session, Idx
<1> QED BY <1>2 DEF n

LEMMA TypingGrows ==
  ASSUME NEW ms \in Seq(FieldSays), NEW m \in FieldSays, NEW now, NEW f, NEW known, NEW text,
         Texted(m), m.text = text
  PROVE  Typing(Append(ms, m), now, f, known, text)
<1> DEFINE n == Append(ms, m)
<1>1. /\ Len(ms) \in Nat /\ Len(n) = Len(ms) + 1 /\ n[Len(ms) + 1] = m
      /\ \A i \in 1..Len(ms) : n[i] = ms[i]
  BY AppendFacts
<1> HIDE DEF n
<1>2. Typing(n, now, f, known, text)
  BY <1>1 DEF Typing, Idx
<1> QED BY <1>2 DEF n

LEMMA TypingWeaker ==
  ASSUME NEW ms, NEW now, NEW f, NEW known, NEW now2, NEW known2, NEW text,
         Typing(ms, now, f, known, text), now2 = f => now = f /\ known2 = known
  PROVE  Typing(ms, now2, f, known2, text)
BY DEF Typing

LEMMA FollowedGrows ==
  ASSUME NEW ms \in Seq(FieldSays), NEW m \in FieldSays, NEW s, NEW s2, NEW drop, NEW drop2,
         NEW p, NEW i \in 0..Len(ms), NEW g,
         \/ Overrides(m)
         \/ /\ Followed(ms, s, drop, p, i, g) /\ drop \subseteq drop2
            /\ s.port = p /\ s.session = g => s2.port = p /\ s2.session = g
  PROVE  Followed(Append(ms, m), s2, drop2, p, i, g)
<1> DEFINE n == Append(ms, m)
<1>1. /\ Len(ms) \in Nat /\ Len(n) = Len(ms) + 1 /\ n[Len(ms) + 1] = m
      /\ \A k \in 1..Len(ms) : n[k] = ms[k]
  BY AppendFacts
<1> HIDE DEF n
<1>2. CASE Overrides(m)
  <2>1. Len(ms) + 1 \in Idx(n) /\ Len(ms) + 1 > i
    BY <1>1 DEF Idx
  <2>2. Followed(n, s2, drop2, p, i, g)
    BY <1>1, <1>2, <2>1 DEF Followed
  <2> QED BY <2>2 DEF n
<1>3. CASE Followed(ms, s, drop, p, i, g) /\ drop \subseteq drop2
           /\ (s.port = p /\ s.session = g => s2.port = p /\ s2.session = g)
  <2>1. Followed(n, s2, drop2, p, i, g)
    BY <1>1, <1>3 DEF Followed, Idx
  <2> QED BY <2>1 DEF n
<1> QED BY <1>2, <1>3

\* The worker hears the first of it.
LEMMA SpeechShrinks ==
  ASSUME NEW ms \in Seq(FieldSays), ms # <<>>, NEW now, NEW now2, Speech(ms, now),
         now2 # None => \/ now2 = now /\ ~Connects(ms[1])
                        \/ Connects(ms[1]) /\ now2 = ms[1].id
  PROVE  Speech(Tail(ms), now2)
<1> DEFINE n == Tail(ms)
<1>1. /\ Len(ms) \in Nat /\ Len(ms) > 0 /\ Len(n) = Len(ms) - 1
      /\ \A i \in 1..(Len(ms) - 1) : n[i] = ms[i + 1]
  BY TailFacts
<1> HIDE DEF n
<1> SUFFICES ASSUME NEW j \in Idx(n), Tells(n[j])
             PROVE  /\ now2 # None /\ now2 # n[j].id => \E k \in 1..(j - 1) : Connects(n[k])
                    /\ \A i \in 1..(j - 1) : Connects(n[i]) /\ n[i].id # n[j].id =>
                         \E k \in (i + 1)..(j - 1) : Connects(n[k])
  BY DEF Speech, n
<1>2. /\ j \in Nat /\ j + 1 \in Idx(ms) /\ n[j] = ms[j + 1] /\ 1 \in 1..j
      /\ \A k \in 2..j : k - 1 \in 1..(j - 1) /\ n[k - 1] = ms[k]
      /\ \A k \in 1..(j - 1) : k + 1 \in 2..j /\ n[k] = ms[k + 1]
  BY <1>1 DEF Idx
<1>3. /\ now # None /\ now # ms[j + 1].id => \E k \in 1..j : Connects(ms[k])
      /\ \A i \in 1..j : Connects(ms[i]) /\ ms[i].id # ms[j + 1].id =>
           \E k \in (i + 1)..j : Connects(ms[k])
  BY <1>2 DEF Speech
<1>4. ASSUME now2 # None, now2 # n[j].id PROVE \E k \in 1..(j - 1) : Connects(n[k])
  <2>1. CASE now2 = now /\ ~Connects(ms[1])
    <3>1. PICK k \in 1..j : Connects(ms[k])
      BY <1>2, <1>3, <1>4, <2>1
    <3>2. k \in 2..j
      BY <2>1, <3>1, <1>2
    <3> QED BY <1>2, <3>1, <3>2
  <2>2. CASE Connects(ms[1]) /\ now2 = ms[1].id
    <3>1. PICK k \in 2..j : Connects(ms[k])
      BY <1>2, <1>3, <1>4, <2>2
    <3> QED BY <1>2, <3>1
  <2> QED BY <1>4, <2>1, <2>2
<1>5. ASSUME NEW i \in 1..(j - 1), Connects(n[i]), n[i].id # n[j].id
      PROVE  \E k \in (i + 1)..(j - 1) : Connects(n[k])
  <2>1. i + 1 \in 1..j /\ n[i] = ms[i + 1]
    BY <1>2
  <2>2. PICK k \in (i + 2)..j : Connects(ms[k])
    BY <1>2, <1>3, <1>5, <2>1
  <2>3. k - 1 \in (i + 1)..(j - 1) /\ n[k - 1] = ms[k]
    BY <1>2, <2>1
  <2> QED BY <2>2, <2>3
<1> QED BY <1>4, <1>5

LEMMA SessionShrinks ==
  ASSUME NEW ms \in Seq(FieldSays), ms # <<>>, NEW detached, NEW now, NEW now2, NEW f,
         Session(ms, detached, now, f),
         \/ now2 = now /\ ~Connects(ms[1])
         \/ Connects(ms[1]) /\ now2 = ms[1].id
  PROVE  Session(Tail(ms), detached, now2, f)
<1> DEFINE n == Tail(ms)
<1>1. /\ Len(ms) \in Nat /\ Len(ms) > 0 /\ Len(n) = Len(ms) - 1
      /\ \A i \in 1..(Len(ms) - 1) : n[i] = ms[i + 1]
  BY TailFacts
<1> HIDE DEF n
<1>2. /\ \A i \in Idx(n) : i + 1 \in Idx(ms) /\ i + 1 > 1 /\ n[i] = ms[i + 1]
      /\ \A i \in Idx(ms) : i # 1 => i - 1 \in Idx(n) /\ n[i - 1] = ms[i]
      /\ 1 \in Idx(ms)
  BY <1>1 DEF Idx
<1>3. CASE \E i \in Idx(ms) : /\ Connects(ms[i]) /\ ms[i].id = f
                              /\ \A k \in Idx(ms) : k > i => ~Connects(ms[k])
  <2>1. PICK i \in Idx(ms) : /\ Connects(ms[i]) /\ ms[i].id = f
                             /\ \A k \in Idx(ms) : k > i => ~Connects(ms[k])
    BY <1>3
  <2>2. i \in Nat /\ Idx(n) \subseteq Nat
    BY DEF Idx
  <2>3. CASE i = 1
    <3>1. \A k \in Idx(n) : ~Connects(n[k])
      BY <1>2, <2>1, <2>2, <2>3
    <3>2. Session(n, detached, now2, f)
      BY <2>1, <2>3, <3>1 DEF Session
    <3> QED BY <3>2 DEF n
  <2>4. CASE i # 1
    <3>1. i - 1 \in Idx(n) /\ n[i - 1] = ms[i]
      BY <1>2, <2>4
    <3>2. \A k \in Idx(n) : k > i - 1 => ~Connects(n[k])
      BY <1>2, <2>1, <2>2
    <3>3. Session(n, detached, now2, f)
      BY <2>1, <3>1, <3>2 DEF Session
    <3> QED BY <3>3 DEF n
  <2> QED BY <2>3, <2>4
<1>4. CASE /\ \A k \in Idx(ms) : ~Connects(ms[k])
           /\ now = f \/ (now = None /\ f \in detached)
  <2>1. Session(n, detached, now2, f)
    BY <1>2, <1>4 DEF Session
  <2> QED BY <2>1 DEF n
<1> QED BY <1>3, <1>4 DEF Session

LEMMA TypingShrinks ==
  ASSUME NEW ms \in Seq(FieldSays), ms # <<>>, NEW now, NEW f, NEW known, NEW now2, NEW known2,
         NEW text, Typing(ms, now, f, known, text),
         IF Texted(ms[1]) THEN now2 = f => known2 = ms[1].text
         ELSE now2 = f => now = f /\ known2 = known
  PROVE  Typing(Tail(ms), now2, f, known2, text)
<1> DEFINE n == Tail(ms)
<1>1. /\ Len(ms) \in Nat /\ Len(ms) > 0 /\ Len(n) = Len(ms) - 1
      /\ \A i \in 1..(Len(ms) - 1) : n[i] = ms[i + 1]
  BY TailFacts
<1> HIDE DEF n
<1>2. /\ \A i \in Idx(n) : i + 1 \in Idx(ms) /\ i + 1 > 1 /\ n[i] = ms[i + 1]
      /\ \A i \in Idx(ms) : i # 1 => i - 1 \in Idx(n) /\ n[i - 1] = ms[i]
      /\ 1 \in Idx(ms)
  BY <1>1 DEF Idx
<1>3. CASE \E i \in Idx(ms) : /\ Texted(ms[i]) /\ ms[i].text = text
                              /\ \A k \in Idx(ms) : k > i => ~Texted(ms[k])
  <2>1. PICK i \in Idx(ms) : /\ Texted(ms[i]) /\ ms[i].text = text
                             /\ \A k \in Idx(ms) : k > i => ~Texted(ms[k])
    BY <1>3
  <2>2. i \in Nat /\ Idx(n) \subseteq Nat
    BY DEF Idx
  <2>3. CASE i = 1
    <3>1. \A k \in Idx(n) : ~Texted(n[k])
      BY <1>2, <2>1, <2>2, <2>3
    <3>2. Typing(n, now2, f, known2, text)
      BY <2>1, <2>3, <3>1 DEF Typing
    <3> QED BY <3>2 DEF n
  <2>4. CASE i # 1
    <3>1. i - 1 \in Idx(n) /\ n[i - 1] = ms[i]
      BY <1>2, <2>4
    <3>2. \A k \in Idx(n) : k > i - 1 => ~Texted(n[k])
      BY <1>2, <2>1, <2>2
    <3>3. Typing(n, now2, f, known2, text)
      BY <2>1, <3>1, <3>2 DEF Typing
    <3> QED BY <3>3 DEF n
  <2> QED BY <2>3, <2>4
<1>4. CASE (\A k \in Idx(ms) : ~Texted(ms[k])) /\ (now = f => known = text)
  <2>1. Typing(n, now2, f, known2, text)
    BY <1>2, <1>4 DEF Typing
  <2> QED BY <2>1 DEF n
<1> QED BY <1>3, <1>4 DEF Typing

LEMMA FollowedShrinks ==
  ASSUME NEW ms \in Seq(FieldSays), ms # <<>>, NEW s, NEW drop, NEW p, NEW i \in Nat, NEW g,
         \/ Followed(ms, s, drop, p, i + 1, g)
         \/ Followed(ms, s, drop, p, i, g) /\ i = 0 /\ ~Overrides(ms[1])
  PROVE  Followed(Tail(ms), s, drop, p, i, g)
<1> DEFINE n == Tail(ms)
<1>1. /\ Len(ms) \in Nat /\ Len(ms) > 0 /\ Len(n) = Len(ms) - 1
      /\ \A k \in 1..(Len(ms) - 1) : n[k] = ms[k + 1]
  BY TailFacts
<1> HIDE DEF n
<1>2. \A k \in Idx(ms) : k > i + 1 \/ (i = 0 /\ k # 1) => k - 1 \in Idx(n) /\ k - 1 > i /\ n[k - 1] = ms[k]
  BY <1>1 DEF Idx
<1>3. Followed(n, s, drop, p, i, g)
  <2>1. CASE \E k \in Idx(ms) : (k > i + 1 \/ (i = 0 /\ k # 1)) /\ Overrides(ms[k])
    BY <1>2, <2>1 DEF Followed
  <2>2. CASE g \in drop \/ (s.port = p /\ s.session = g)
    BY <2>2 DEF Followed
  <2> QED BY <2>1, <2>2 DEF Followed
<1> QED BY <1>3 DEF n

-----------------------------------------------------------------------------
(* What the invariant says of the parts.                                    *)
Parts(ps, sc, ws, cap, fps) ==
  /\ FieldPorts \subseteq Nat
  /\ None \notin Tabs /\ None \notin Windows /\ None \notin FieldPorts /\ None \notin Fields
  /\ \A p \in FieldPorts : ps[p] # None =>
       /\ ps[p] \in PortWire /\ ps[p].of \in Tabs /\ ps[p].live \in BOOLEAN
       /\ ps[p].up \in Seq(FieldSays) /\ Len(ps[p].up) \in Nat
       /\ ps[p].down \in Seq(FieldIsTold)
       /\ \A i \in Idx(ps[p].up) : ps[p].up[i] \in FieldSays
  /\ \A t \in Tabs : /\ sc[t].port \in FieldPorts \cup {None}
                     /\ sc[t].session \in Fields \cup {None} /\ sc[t].text \in Texts
  /\ \A w \in Windows : ws[w].field # None =>
       ws[w].field.tab \in Tabs /\ ws[w].field.id \in Fields /\ ws[w].field.text \in Texts
  /\ \A p \in FieldPorts : cap[p] # None => cap[p].tab \in Tabs /\ cap[p].window \in Windows
  /\ \A t \in Tabs : fps[t] \in FieldPorts \cup {None}

LEMMA TypedFacts ==
  ASSUME NEW ps, NEW sc, NEW ws, NEW cap, NEW fps, NEW con, NEW drop,
         Typed(ps, sc, ws, cap, fps, con, drop)
  PROVE  Parts(ps, sc, ws, cap, fps)
<1>1. /\ FieldPorts \subseteq Nat
      /\ None \notin Tabs /\ None \notin Windows /\ None \notin FieldPorts /\ None \notin Fields
  BY BoundsAssumption, SetsAssumption
<1>2. ASSUME NEW p \in FieldPorts, ps[p] # None
      PROVE  /\ ps[p] \in PortWire /\ ps[p].of \in Tabs /\ ps[p].live \in BOOLEAN
             /\ ps[p].up \in Seq(FieldSays) /\ Len(ps[p].up) \in Nat
             /\ ps[p].down \in Seq(FieldIsTold)
             /\ \A i \in Idx(ps[p].up) : ps[p].up[i] \in FieldSays
  <2>1. ps[p] \in PortWire
    BY <1>2 DEF Typed
  <2> QED BY <2>1, WireFacts
<1>3. ASSUME NEW t \in Tabs
      PROVE  /\ sc[t].port \in FieldPorts \cup {None}
             /\ sc[t].session \in Fields \cup {None} /\ sc[t].text \in Texts
  BY DEF Typed, Scout
<1>4. ASSUME NEW w \in Windows, ws[w].field # None
      PROVE  ws[w].field.tab \in Tabs /\ ws[w].field.id \in Fields /\ ws[w].field.text \in Texts
  BY <1>4 DEF Typed, WindowStates, FieldState
<1>5. ASSUME NEW p \in FieldPorts, cap[p] # None
      PROVE  cap[p].tab \in Tabs /\ cap[p].window \in Windows
  BY <1>5 DEF Typed
<1>6. \A t \in Tabs : fps[t] \in FieldPorts \cup {None}
  BY DEF Typed
<1> QED BY <1>1, <1>2, <1>3, <1>4, <1>5, <1>6 DEF Parts

Roles(ps, sc, ws, cap, fps) ==
  /\ \A p \in FieldPorts : cap[p] # None => ps[p] # None /\ ps[p].of = cap[p].tab
  /\ \A t \in Tabs : fps[t] # None =>
       /\ fps[t] \in FieldPorts /\ ps[fps[t]] # None /\ ps[fps[t]].of = t
       /\ ps[fps[t]].live /\ cap[fps[t]] # None /\ cap[fps[t]].tab = t
  /\ \A w \in Windows : ws[w].field # None =>
       /\ fps[ws[w].field.tab] # None
       /\ cap[fps[ws[w].field.tab]] = [tab |-> ws[w].field.tab, window |-> w]
       /\ Now(ws, cap, fps, fps[ws[w].field.tab]) = ws[w].field.id
  /\ \A t \in Tabs : sc[t].port # None =>
       sc[t].port \in FieldPorts /\ ps[sc[t].port] # None /\ ps[sc[t].port].of = t
  /\ \A t \in Tabs : sc[t].session # None => sc[t].port # None
  /\ \A p \in FieldPorts : Now(ws, cap, fps, p) # None =>
       /\ cap[p] # None /\ fps[cap[p].tab] = p /\ HoldsIn(ws, cap[p].window, cap[p].tab)
       /\ Now(ws, cap, fps, p) = ws[cap[p].window].field.id

LEMMA SideFacts ==
  ASSUME NEW ps, NEW sc, NEW ws, NEW cap, NEW fps, NEW con, NEW drop,
         FieldSide(ps, sc, ws, cap, fps, con, drop)
  PROVE  Roles(ps, sc, ws, cap, fps)
<1> USE DEF FieldSide
<1>0. Parts(ps, sc, ws, cap, fps)
  BY TypedFacts
<1>1. \A p \in FieldPorts : cap[p] # None => ps[p] # None /\ ps[p].of = cap[p].tab
  BY DEF PortsShaped, Shape
<1>2. ASSUME NEW t \in Tabs, fps[t] # None
      PROVE  /\ fps[t] \in FieldPorts /\ ps[fps[t]] # None /\ ps[fps[t]].of = t
             /\ ps[fps[t]].live /\ cap[fps[t]] # None /\ cap[fps[t]].tab = t
  <2>1. fps[t] \in FieldPorts
    BY <1>0, <1>2 DEF Parts
  <2> QED BY <1>1, <1>2, <2>1 DEF Registered
<1>3. ASSUME NEW w \in Windows, ws[w].field # None
      PROVE  /\ fps[ws[w].field.tab] # None
             /\ cap[fps[ws[w].field.tab]] = [tab |-> ws[w].field.tab, window |-> w]
             /\ Now(ws, cap, fps, fps[ws[w].field.tab]) = ws[w].field.id
  <2>1. /\ fps[ws[w].field.tab] # None
        /\ cap[fps[ws[w].field.tab]] = [tab |-> ws[w].field.tab, window |-> w]
    BY <1>3 DEF Housed
  <2>2. cap[fps[ws[w].field.tab]] # None
    BY <1>2, <1>0, <1>3, <2>1 DEF Parts
  <2> QED BY <1>3, <2>1, <2>2 DEF Now, HoldsIn
<1>4. \A t \in Tabs : sc[t].port # None =>
        sc[t].port \in FieldPorts /\ ps[sc[t].port] # None /\ ps[sc[t].port].of = t
  BY <1>0 DEF Parts, OwnPorts, OwnPort
<1>5. \A t \in Tabs : sc[t].session # None => sc[t].port # None
  BY DEF OwnPorts, OwnPort
<1>6. \A p \in FieldPorts : Now(ws, cap, fps, p) # None =>
        /\ cap[p] # None /\ fps[cap[p].tab] = p /\ HoldsIn(ws, cap[p].window, cap[p].tab)
        /\ Now(ws, cap, fps, p) = ws[cap[p].window].field.id
  BY DEF Now
<1> QED BY <1>1, <1>2, <1>3, <1>4, <1>5, <1>6 DEF Roles

LEMMA GreetedOnce ==
  ASSUME NEW ps, NEW ws, NEW con, OneGreeting(ps, ws, con),
         NEW p \in FieldPorts, ps[p] # None, NEW i \in 1..Len(ps[p].up), Connects(ps[p].up[i]),
         NEW q \in FieldPorts, ps[q] # None, NEW j \in 1..Len(ps[q].up), Connects(ps[q].up[j]),
         ps[q].up[j].id = ps[p].up[i].id
  PROVE  q = p /\ j = i
BY DEF OneGreeting, Idx

-----------------------------------------------------------------------------
(* A script opens a port.                                                   *)
OpenStep(ps, sc, t, p, ps2, sc2) ==
  /\ sc[t].port = None /\ ps[p] = None /\ \A e \in FieldPorts : e < p => ps[e] # None
  /\ ps2[p] # None /\ ps2[p].of = t /\ ps2[p].live = TRUE
  /\ Len(ps2[p].up) = 1 /\ ps2[p].up[1].type = "open" /\ Len(ps2[p].down) = 0
  /\ \A e \in FieldPorts : e # p => ps2[e] = ps[e]
  /\ sc2[t].port = p /\ sc2[t].session = None
  /\ \A u \in Tabs : u # t => sc2[u] = sc[u]
LEMMA OpenKeeps ==
  ASSUME NEW ps, NEW sc, NEW ws, NEW cap, NEW fps, NEW con, NEW drop,
         FieldSide(ps, sc, ws, cap, fps, con, drop),
         NEW t \in Tabs, NEW p \in FieldPorts,
         NEW ps2, NEW sc2, Typed(ps2, sc2, ws, cap, fps, con, drop),
         OpenStep(ps, sc, t, p, ps2, sc2)
  PROVE  FieldSide(ps2, sc2, ws, cap, fps, con, drop)
<1> USE DEF Idx, OpenStep
<1>0. /\ cap[p] = None /\ ps2[p].up # <<>>
      /\ \A e \in FieldPorts : e > p => ps[e] = None
  BY DEF FieldSide, PortsShaped
<1>t. /\ FieldPorts \subseteq Nat
      /\ None \notin Tabs /\ None \notin FieldPorts /\ None \notin Fields
      /\ \A e \in FieldPorts : ps[e] # None => ps[e].of \in Tabs
      /\ \A e \in FieldPorts : cap[e] # None => ps[e] # None /\ ps[e].of = cap[e].tab
      /\ \A u \in Tabs : fps[u] # None =>
           fps[u] \in FieldPorts /\ fps[u] # p /\ ps[fps[u]] # None /\ ps[fps[u]].of = u
      /\ \A u \in Tabs : sc[u].port # None =>
           sc[u].port \in FieldPorts /\ sc[u].port # p /\ ps[sc[u].port].of = u
      /\ \A w \in Windows : ws[w].field # None =>
           ws[w].field.tab \in Tabs /\ fps[ws[w].field.tab] # None
      /\ Now(ws, cap, fps, p) = None
  <2>1. Parts(ps, sc, ws, cap, fps)
    BY TypedFacts DEF FieldSide
  <2>2. Roles(ps, sc, ws, cap, fps)
    BY SideFacts
  <2>3. Now(ws, cap, fps, p) = None
    BY <1>0 DEF Now
  <2>4. \A u \in Tabs : fps[u] # None =>
          fps[u] \in FieldPorts /\ fps[u] # p /\ ps[fps[u]] # None /\ ps[fps[u]].of = u
    BY <1>0, <2>2 DEF Roles
  <2>5. \A u \in Tabs : sc[u].port # None =>
          sc[u].port \in FieldPorts /\ sc[u].port # p /\ ps[sc[u].port].of = u
    BY <1>0, <2>2 DEF Roles
  <2>6. /\ \A e \in FieldPorts : cap[e] # None => ps[e] # None /\ ps[e].of = cap[e].tab
        /\ \A w \in Windows : ws[w].field # None => fps[ws[w].field.tab] # None
    BY <2>2, Zenon DEF Roles
  <2>7. /\ FieldPorts \subseteq Nat
        /\ None \notin Tabs /\ None \notin FieldPorts /\ None \notin Fields
        /\ \A e \in FieldPorts : ps[e] # None => ps[e].of \in Tabs
        /\ \A w \in Windows : ws[w].field # None => ws[w].field.tab \in Tabs
    BY <2>1 DEF Parts
  <2> QED BY <2>3, <2>4, <2>5, <2>6, <2>7
<1>r. Parts(ps, sc, ws, cap, fps) /\ Roles(ps, sc, ws, cap, fps)
  BY TypedFacts, SideFacts DEF FieldSide
<1> USE DEF FieldSide
<1>1. PortsShaped(ps2, cap)
  <2>1. Shape(ps2[p], cap[p])
    BY <1>0 DEF Shape
  <2> QED BY <1>0, <2>1 DEF PortsShaped
<1>2. PortsInOrder(ps2, cap)
  BY <1>0, <1>t DEF PortsInOrder
<1>3. Registered(ps2, cap, fps)
  BY <1>0, <1>t DEF Registered
<1>4. OwnPorts(ps2, sc2, cap, fps)
  <2> SUFFICES ASSUME NEW u \in Tabs PROVE OwnPort(ps2, sc2[u], cap, fps, u)
    BY DEF OwnPorts
  <2>1. CASE u = t
    <3>1. \A e \in FieldPorts : ps2[e] # None => e <= p
      BY <1>0, <1>t
    <3> QED BY <1>0, <1>t, <2>1, <3>1 DEF OwnPort
  <2>2. CASE u # t
    <3>1. OwnPort(ps, sc[u], cap, fps, u) /\ sc2[u] = sc[u]
      BY <2>2 DEF OwnPorts
    <3>2. CASE sc[u].port = None
      BY <3>1, <3>2 DEF OwnPort
    <3>3. CASE sc[u].port # None
      <4>1. sc[u].port \in FieldPorts /\ sc[u].port # p /\ ps2[sc[u].port] = ps[sc[u].port]
        BY <1>t, <3>3
      <4>2. \A e \in FieldPorts : ps2[e] # None /\ ps2[e].of = u => ps[e] # None /\ ps[e].of = u
        BY <2>2
      <4> QED BY <3>1, <3>3, <4>1, <4>2 DEF OwnPort
    <3> QED BY <3>2, <3>3
  <2> QED BY <2>1, <2>2
<1>5. Spoken(ps2, ws, cap, fps)
  <2> SUFFICES ASSUME NEW e \in FieldPorts, ps2[e] # None
               PROVE  Speech(ps2[e].up, Now(ws, cap, fps, e))
    BY DEF Spoken
  <2>1. CASE e = p
    <3>1. \A j \in Idx(ps2[p].up) : ~Tells(ps2[p].up[j])
      BY DEF Tells
    <3> QED BY <2>1, <3>1 DEF Speech
  <2> QED BY <2>1 DEF Spoken
<1>6. Sessions(ps2, sc2, ws, cap, fps) /\ Typings(ps2, sc2, ws, cap, fps)
  <2> SUFFICES ASSUME NEW u \in Tabs, sc2[u].session # None
               PROVE  sc2[u] = sc[u] /\ ps2[sc[u].port] = ps[sc[u].port]
    BY DEF Sessions, Typings
  <2>1. u # t /\ sc2[u] = sc[u]
    OBVIOUS
  <2>2. sc[u].port # None
    BY <1>r, <2>1 DEF Roles
  <2> QED BY <1>t, <2>1, <2>2
<1>7. AllFollowed(ps2, sc2, ws, cap, fps, drop)
  <2>1. ASSUME NEW e \in FieldPorts, NEW i, NEW g, ps[e] # None,
               Followed(ps[e].up, sc[ps[e].of], drop, e, i, g)
        PROVE  Followed(ps2[e].up, sc2[ps2[e].of], drop, e, i, g)
    <3>1. e # p /\ ps2[e] = ps[e] /\ ps[e].of \in Tabs
      BY <1>t, <2>1
    <3>2. sc[ps[e].of].port = e => ps[e].of # t
      BY <1>t
    <3> QED BY <2>1, <3>1, <3>2 DEF Followed
  <2>2. ASSUME NEW e \in FieldPorts, ps2[e] # None, cap[e] = None \/ fps[ps2[e].of] = e,
               NEW i \in Idx(ps2[e].up), Connects(ps2[e].up[i])
        PROVE  Followed(ps2[e].up, sc2[ps2[e].of], drop, e, i, ps2[e].up[i].id)
    <3>1. e # p
      BY <2>2 DEF Connects
    <3>2. Followed(ps[e].up, sc[ps[e].of], drop, e, i, ps[e].up[i].id)
      BY <2>2, <3>1 DEF AllFollowed
    <3> QED BY <2>1, <2>2, <3>1, <3>2
  <2>3. ASSUME NEW w \in Windows, ws[w].field # None
        PROVE  LET u == ws[w].field.tab
               IN  Followed(ps2[fps[u]].up, sc2[u], drop, fps[u], 0, ws[w].field.id)
    <3> DEFINE u == ws[w].field.tab
    <3>1. u \in Tabs /\ fps[u] \in FieldPorts /\ fps[u] # p /\ ps[fps[u]] # None /\ ps[fps[u]].of = u
      BY <1>t, <2>3
    <3>2. Followed(ps[fps[u]].up, sc[u], drop, fps[u], 0, ws[w].field.id)
      BY <2>3 DEF AllFollowed
    <3> HIDE DEF u
    <3>3. Followed(ps2[fps[u]].up, sc2[u], drop, fps[u], 0, ws[w].field.id)
      BY <2>1, <3>1, <3>2
    <3> QED BY <3>3 DEF u
  <2> QED BY <2>2, <2>3 DEF AllFollowed
<1>8. Names(ps2, sc2, ws, con)
  <2>0. \A e \in FieldPorts : \A i \in Idx(ps2[e].up) : Connects(ps2[e].up[i]) => e # p /\ ps2[e] = ps[e]
    BY DEF Connects
  <2>1. OneWindow(ws, con) /\ OneGreeting(ps2, ws, con)
    <3> HIDE DEF OpenStep
    <3>1. OneWindow(ws, con) /\ OneGreeting(ps, ws, con)
      BY DEF Names
    <3>2. ASSUME NEW e \in FieldPorts, ps2[e] # None, NEW i \in Idx(ps2[e].up), Connects(ps2[e].up[i])
          PROVE  /\ con[ps2[e].up[i].id] # None /\ Unheld(ws, ps2[e].up[i].id)
                 /\ \A q \in FieldPorts : ps2[q] # None =>
                      \A j \in Idx(ps2[q].up) :
                        Connects(ps2[q].up[j]) /\ ps2[q].up[j].id = ps2[e].up[i].id => q = e /\ j = i
      <4>1. ps2[e] = ps[e]
        BY <2>0, <3>2
      <4> QED BY <2>0, <3>1, <3>2, <4>1 DEF OneGreeting
    <3> QED BY <3>1, <3>2 DEF OneGreeting
  <2>2. Farewells(ps2, sc2, con)
    <3> SUFFICES ASSUME NEW e \in FieldPorts, ps2[e] # None, NEW i \in Idx(ps2[e].up),
                        ps2[e].up[i].type = "fieldDisconnected"
                 PROVE  con[ps2[e].up[i].id] # None /\ sc2[ps2[e].of].session # ps2[e].up[i].id
      BY DEF Farewells
    <3>1. e # p /\ ps2[e] = ps[e] /\ ps[e].of \in Tabs
      BY <1>t
    <3>2. ps[e].up[i] \in FieldSays
      BY <1>r, <3>1 DEF Parts
    <3>3. ps[e].up[i].id # None
      BY <1>t, <3>1, <3>2, SaysFacts DEF Tells
    <3> QED BY <3>1, <3>3 DEF Names, Farewells
  <2>3. Detached(ps2, ws, con)
    <3>1. \A g \in Fields : Unconnected(ps, g) => Unconnected(ps2, g)
      BY DEF Unconnected, Connects
    <3>2. Detaches(ps2[p]) = {}
      BY DEF Detaches
    <3>3. \A e \in FieldPorts : Detaches(ps[e]) \subseteq Fields
      BY DEF Detaches
    <3> QED BY <3>1, <3>2, <3>3 DEF Names, Detached
  <2>4. Consented(sc2, con)
    BY DEF Names, Consented
  <2> QED BY <2>1, <2>2, <2>3, <2>4 DEF Names
<1>9. Housed(ws, cap, fps)
  OBVIOUS
<1> QED BY <1>1, <1>2, <1>3, <1>4, <1>5, <1>6, <1>7, <1>8, <1>9

-----------------------------------------------------------------------------
(* A script says something on a port that is open.                          *)
\* What is said on the port of a script, and what the session is after it.
SayStep(ps, sc, con, t, p, m, ps2, sc2, con2) ==
  /\ sc[t].port = p /\ ps[p].live /\ m.type # "open"
  /\ ps2[p] # None /\ ps2[p].of = t /\ ps2[p].live /\ ps2[p].up = Append(ps[p].up, m)
  /\ Detaches(ps2[p]) = IF m.type = "closed" THEN {} ELSE Detaches(ps[p])
  /\ \A e \in FieldPorts : e # p => ps2[e] = ps[e]
  /\ \A u \in Tabs : u # t => sc2[u] = sc[u]
  /\ \A f \in Fields : con[f] # None => con2[f] # None
  /\ \/ /\ Connects(m) /\ con[m.id] = None /\ con2[m.id] # None
        /\ sc2[t].port = p /\ sc2[t].session = m.id /\ sc2[t].text = m.text
     \/ /\ m.type = "textChanged" /\ m.id = sc[t].session
        /\ sc2[t].port = p /\ sc2[t].session = m.id /\ sc2[t].text = m.text
     \/ /\ m.type = "fieldDisconnected" /\ m.id = sc[t].session
        /\ sc2[t].port = p /\ sc2[t].session = None
     \/ /\ m.type = "closed" /\ sc[t].session = None
        /\ sc2[t].port = None /\ sc2[t].session = None
LEMMA SayKeeps ==
  ASSUME NEW ps, NEW sc, NEW ws, NEW cap, NEW fps, NEW con, NEW drop,
         FieldSide(ps, sc, ws, cap, fps, con, drop),
         NEW t \in Tabs, NEW p \in FieldPorts, NEW m \in FieldSays,
         NEW ps2, NEW sc2, NEW con2, Typed(ps2, sc2, ws, cap, fps, con2, drop),
         SayStep(ps, sc, con, t, p, m, ps2, sc2, con2)
  PROVE  FieldSide(ps2, sc2, ws, cap, fps, con2, drop)
<1> USE DEF Idx, SayStep
<1> DEFINE n == Len(ps[p].up)
<1>r. /\ Parts(ps, sc, ws, cap, fps) /\ Roles(ps, sc, ws, cap, fps)
      /\ Typed(ps2, sc2, ws, cap, fps, con2, drop)
  BY TypedFacts, SideFacts DEF FieldSide
<1>p. /\ None \notin Fields /\ None \notin Tabs /\ None \notin FieldPorts /\ FieldPorts \subseteq Nat
      /\ ps[p] # None /\ ps[p].of = t /\ ps[p].up \in Seq(FieldSays) /\ p # None
  BY <1>r DEF Parts, Roles
<1>u. \A u \in Tabs : u # t => sc[u].port # p
  BY <1>r, <1>p DEF Roles
<1>e. \A e \in FieldPorts : /\ ps2[e] = None <=> ps[e] = None
                            /\ ps2[e].of = ps[e].of
                            /\ ps2[e].live <=> ps[e].live
  BY <1>p
<1>n. /\ n \in Nat /\ Len(ps2[p].up) = n + 1 /\ ps2[p].up[n + 1] = m
      /\ \A i \in 1..n : ps2[p].up[i] = ps[p].up[i]
  BY <1>p, AppendFacts
<1>w. \A w \in Windows : ws[w].field # None =>
        /\ ws[w].field.tab \in Tabs /\ fps[ws[w].field.tab] \in FieldPorts
        /\ ps[fps[ws[w].field.tab]] # None /\ ps[fps[ws[w].field.tab]].of = ws[w].field.tab
        /\ ps[fps[ws[w].field.tab]].live /\ cap[fps[ws[w].field.tab]] # None
  BY <1>r DEF Parts, Roles
<1>m. Connects(m) \/ Tells(m) => m.id \in Fields
  BY SaysFacts
<1>c. sc[t].session # None => Session(ps[p].up, Detaches(ps[p]), Now(ws, cap, fps, p), sc[t].session)
  BY DEF FieldSide, Sessions
<1> HIDE DEF n
<1> USE DEF FieldSide
<1>1. PortsShaped(ps2, cap)
  <2>1. Shape(ps[p], cap[p])
    BY <1>p DEF PortsShaped
  <2>2. Shape(ps2[p], cap[p])
    <3>1. CASE cap[p] # None
      BY <1>n, <2>1, <3>1, <1>p DEF Shape, n
    <3>2. CASE cap[p] = None
      <4>1. n > 0
        BY <1>n, <1>p, <2>1, <3>2 DEF Shape, n
      <4>2. ps2[p].up # <<>>
        BY <1>n
      <4> QED BY <1>n, <2>1, <3>2, <4>1, <4>2, <1>p DEF Shape, n
    <3> QED BY <3>1, <3>2
  <2> QED BY <1>p, <2>2 DEF PortsShaped
<1>2. PortsInOrder(ps2, cap)
  BY <1>e DEF PortsInOrder
<1>3. Registered(ps2, cap, fps)
  BY <1>e, <1>r DEF Registered, Parts
<1>4. OwnPorts(ps2, sc2, cap, fps)
  <2> SUFFICES ASSUME NEW u \in Tabs PROVE OwnPort(ps2, sc2[u], cap, fps, u)
    BY DEF OwnPorts
  <2>1. OwnPort(ps, sc[u], cap, fps, u)
    BY DEF OwnPorts
  <2>2. CASE u # t
    <3>1. CASE sc[u].port = None
      BY <2>1, <2>2, <3>1 DEF OwnPort
    <3>2. CASE sc[u].port # None
      <4>1. sc[u].port \in FieldPorts /\ sc[u].port # p /\ ps2[sc[u].port] = ps[sc[u].port]
        BY <1>r, <1>u, <2>2, <3>2 DEF Roles
      <4>2. \A e \in FieldPorts : ps2[e] # None /\ ps2[e].of = u => ps[e] # None /\ ps[e].of = u
        BY <1>e
      <4> QED BY <2>1, <2>2, <3>2, <4>1, <4>2 DEF OwnPort
    <3> QED BY <3>1, <3>2
  <2>3. CASE u = t /\ m.type = "closed"
    BY <2>3 DEF OwnPort, Connects
  <2>4. CASE u = t /\ m.type # "closed"
    <3>1. sc2[t].port = p
      BY <2>4
    <3>2. \A i \in 1..(n + 1) : ps2[p].up[i].type # "closed"
      BY <1>n, <1>p, <2>1, <2>4 DEF OwnPort, n
    <3>3. \A e \in FieldPorts : ps2[e] # None /\ ps2[e].of = u => e <= p
      BY <1>e, <1>p, <2>1, <2>4 DEF OwnPort
    <3>4. cap[p] # None => fps[t] = p
      BY <1>p, <2>1, <2>4 DEF OwnPort
    <3>5. /\ sc2[u].port = p /\ p # None /\ ps2[p] # None /\ ps2[p].of = u
          /\ \A i \in 1..Len(ps2[p].up) : ps2[p].up[i].type # "closed"
          /\ \A e \in FieldPorts : ps2[e] # None /\ ps2[e].of = u => e <= p
          /\ ps2[p].live /\ cap[p] # None => fps[u] = p
      BY <1>n, <1>p, <2>4, <3>1, <3>2, <3>3, <3>4
    <3> QED BY <3>5, Zenon DEF OwnPort
  <2> QED BY <2>2, <2>3, <2>4
<1>5. Spoken(ps2, ws, cap, fps)
  <2> SUFFICES ASSUME NEW e \in FieldPorts, ps2[e] # None
               PROVE  Speech(ps2[e].up, Now(ws, cap, fps, e))
    BY DEF Spoken
  <2>1. CASE e # p
    BY <2>1 DEF Spoken
  <2>2. CASE e = p
    <3> DEFINE now == Now(ws, cap, fps, p)
    <3>1. Speech(ps[p].up, now)
      BY <1>p DEF Spoken
    <3>2. MayTell(ps[p].up, now, m)
      <4> SUFFICES ASSUME Tells(m)
                   PROVE  /\ now # None /\ now # m.id => \E k \in 1..n : Connects(ps[p].up[k])
                          /\ \A i \in 1..n : Connects(ps[p].up[i]) /\ ps[p].up[i].id # m.id =>
                               \E k \in (i + 1)..n : Connects(ps[p].up[k])
        BY DEF n, MayTell
      <4>1. m.id = sc[t].session /\ m.id \in Fields
        BY <1>m DEF Tells, Connects
      <4>2. Session(ps[p].up, Detaches(ps[p]), now, m.id)
        BY <1>c, <1>p, <4>1
      <4> HIDE DEF now
      <4>3. CASE \E i \in 1..n : /\ Connects(ps[p].up[i]) /\ ps[p].up[i].id = m.id
                                 /\ \A k \in 1..n : k > i => ~Connects(ps[p].up[k])
        <5>1. PICK i \in 1..n : /\ Connects(ps[p].up[i]) /\ ps[p].up[i].id = m.id
                                /\ \A k \in 1..n : k > i => ~Connects(ps[p].up[k])
          BY <4>3
        <5>2. ASSUME NEW h \in 1..n, Connects(ps[p].up[h]), ps[p].up[h].id # m.id
              PROVE  \E k \in (h + 1)..n : Connects(ps[p].up[k])
          <6>1. h < i
            BY <1>n, <5>1, <5>2
          <6> QED BY <1>n, <5>1, <6>1
        <5> QED BY <5>1, <5>2 DEF n
      <4>4. CASE (\A k \in 1..n : ~Connects(ps[p].up[k])) /\ (now = m.id \/ now = None)
        BY <4>4 DEF n
      <4> QED BY <4>2, <4>3, <4>4 DEF Session, n
    <3> HIDE DEF now
    <3>3. Speech(Append(ps[p].up, m), now)
      <4>1. ps[p].up \in Seq(FieldSays)
        BY <1>p
      <4> QED BY <3>1, <3>2, <4>1, SpeechGrows
    <3> QED BY <2>2, <3>3 DEF now
  <2> QED BY <2>1, <2>2
<1>6. Sessions(ps2, sc2, ws, cap, fps) /\ Typings(ps2, sc2, ws, cap, fps)
  <2> SUFFICES ASSUME NEW u \in Tabs, sc2[u].session # None, ps2[sc2[u].port].live
               PROVE  LET q == sc2[u].port
                      IN  /\ Session(ps2[q].up, Detaches(ps2[q]), Now(ws, cap, fps, q), sc2[u].session)
                          /\ Typing(ps2[q].up, Now(ws, cap, fps, q), sc2[u].session,
                                    ws[cap[q].window].field.text, sc2[u].text)
    BY DEF Sessions, Typings
  <2>1. CASE u # t
    <3>1. sc[u].port \in FieldPorts /\ sc[u].port # p
      BY <1>r, <1>u, <2>1 DEF Roles
    <3> QED BY <2>1, <3>1 DEF Sessions, Typings
  <2>2. CASE u = t
    <3>1. sc2[t].port = p /\ Texted(m) /\ m.text = sc2[t].text /\ m.id = sc2[t].session
      BY <2>2 DEF Texted, Connects
    <3>2. /\ \/ Session(ps[p].up, Detaches(ps[p]), Now(ws, cap, fps, p), m.id) /\ ~Connects(m)
             \/ Connects(m)
          /\ Detaches(ps2[p]) = Detaches(ps[p])
      BY <1>c, <1>m, <1>p, <2>2, <3>1 DEF Connects, Tells, Texted
    <3>3. Session(Append(ps[p].up, m), Detaches(ps[p]), Now(ws, cap, fps, p), m.id)
      BY <1>p, <3>2, SessionGrows
    <3>4. Typing(Append(ps[p].up, m), Now(ws, cap, fps, p), m.id,
                 ws[cap[p].window].field.text, sc2[t].text)
      BY <1>p, <3>1, TypingGrows
    <3> QED BY <2>2, <3>1, <3>2, <3>3, <3>4
  <2> QED BY <2>1, <2>2
<1>7. AllFollowed(ps2, sc2, ws, cap, fps, drop)
  <2>1. ASSUME NEW e \in FieldPorts, NEW i \in 0..Len(ps[e].up), NEW g \in Fields, ps[e] # None,
               Followed(ps[e].up, sc[ps[e].of], drop, e, i, g)
        PROVE  Followed(ps2[e].up, sc2[ps2[e].of], drop, e, i, g)
    <3>1. CASE e # p
      <4>1. ps2[e] = ps[e] /\ ps[e].of \in Tabs
        BY <1>r, <2>1, <3>1 DEF Parts
      <4>2. CASE ps[e].of # t
        BY <2>1, <4>1, <4>2
      <4>3. CASE ps[e].of = t
        <5>1. sc[t].port # e /\ sc2[t].port # e
          BY <1>p, <2>1, <3>1, <4>3
        <5> QED BY <2>1, <4>1, <4>3, <5>1 DEF Followed
      <4> QED BY <4>2, <4>3
    <3>2. CASE e = p
      <4>1. \/ Overrides(m)
            \/ sc[t].port = p /\ sc[t].session = g => sc2[t].port = p /\ sc2[t].session = g
        BY DEF Overrides, Connects
      <4>2. Followed(ps[p].up, sc[t], drop, p, i, g) /\ i \in 0..Len(ps[p].up)
        BY <1>p, <2>1, <3>2
      <4>3. Followed(Append(ps[p].up, m), sc2[t], drop, p, i, g)
        BY <1>p, <4>1, <4>2, FollowedGrows
      <4> QED BY <3>2, <4>3
    <3> QED BY <3>1, <3>2
  <2>2. ASSUME NEW e \in FieldPorts, ps2[e] # None, cap[e] = None \/ fps[ps2[e].of] = e,
               NEW i \in 1..Len(ps2[e].up), Connects(ps2[e].up[i])
        PROVE  Followed(ps2[e].up, sc2[ps2[e].of], drop, e, i, ps2[e].up[i].id)
    <3>1. CASE e = p /\ i = n + 1
      <4>1. sc2[t].port = p /\ sc2[t].session = m.id
        BY <1>n, <2>2, <3>1 DEF Connects
      <4> QED BY <1>n, <3>1, <4>1 DEF Followed
    <3>2. CASE ~(e = p /\ i = n + 1)
      <4>1. i \in 1..Len(ps[e].up) /\ ps2[e].up[i] = ps[e].up[i]
        <5>1. CASE e # p
          BY <2>2, <5>1
        <5>2. CASE e = p
          BY <1>n, <2>2, <3>2, <5>2 DEF n
        <5> QED BY <5>1, <5>2
      <4>2. ps[e] # None /\ ps[e].up[i].id \in Fields
        BY <1>e, <1>r, <2>2, <4>1, SaysFacts DEF Parts
      <4>3. Followed(ps[e].up, sc[ps[e].of], drop, e, i, ps[e].up[i].id)
        BY <1>e, <2>2, <4>1, <4>2 DEF AllFollowed
      <4>4. i \in 0..Len(ps[e].up)
        BY <4>1
      <4>6. Followed(ps2[e].up, sc2[ps2[e].of], drop, e, i, ps[e].up[i].id)
        BY <2>1, <4>2, <4>3, <4>4
      <4> QED BY <4>1, <4>6
    <3> QED BY <3>1, <3>2
  <2>3. ASSUME NEW w \in Windows, ws[w].field # None
        PROVE  LET u == ws[w].field.tab
               IN  Followed(ps2[fps[u]].up, sc2[u], drop, fps[u], 0, ws[w].field.id)
    <3> DEFINE u == ws[w].field.tab
    <3>1. /\ u \in Tabs /\ fps[u] \in FieldPorts /\ ps[fps[u]] # None /\ ps[fps[u]].of = u
          /\ 0 \in 0..Len(ps[fps[u]].up) /\ ws[w].field.id \in Fields
      <4>1. fps[u] \in FieldPorts /\ ps[fps[u]] # None
        BY <1>w, <2>3
      <4>2. Len(ps[fps[u]].up) \in Nat /\ ws[w].field.id \in Fields
        BY <1>r, <2>3, <4>1 DEF Parts
      <4> QED BY <1>w, <2>3, <4>1, <4>2
    <3>2. Followed(ps[fps[u]].up, sc[u], drop, fps[u], 0, ws[w].field.id)
      BY <2>3 DEF AllFollowed
    <3> HIDE DEF u
    <3>3. Followed(ps2[fps[u]].up, sc2[u], drop, fps[u], 0, ws[w].field.id)
      BY <1>e, <2>1, <3>1, <3>2
    <3> QED BY <3>3 DEF u
  <2> QED BY <2>2, <2>3 DEF AllFollowed
<1>8. Names(ps2, sc2, ws, con2)
  <2>0. OneWindow(ws, con) /\ OneGreeting(ps, ws, con) /\ Farewells(ps, sc, con)
        /\ Detached(ps, ws, con) /\ Consented(sc, con)
    BY DEF Names
  <2>1. OneWindow(ws, con2)
    BY <1>r, <2>0 DEF OneWindow, Parts
  <2>2. ASSUME NEW e \in FieldPorts, ps2[e] # None, NEW i \in 1..Len(ps2[e].up)
        PROVE  \/ e = p /\ i = n + 1 /\ ps2[e].up[i] = m
               \/ i \in 1..Len(ps[e].up) /\ ps2[e].up[i] = ps[e].up[i] /\ ps[e] # None
    <3>1. CASE e # p
      BY <2>2, <3>1
    <3>2. CASE e = p
      <4> HIDE DEF SayStep
      <4> QED BY <1>n, <1>p, <2>2, <3>2 DEF n
    <3> QED BY <3>1, <3>2
  <2>k. \A e \in FieldPorts : ps[e] # None => \A i \in 1..Len(ps[e].up) :
          Connects(ps[e].up[i]) => ps[e].up[i].id \in Fields /\ con[ps[e].up[i].id] # None
    BY <1>r, <2>0, SaysFacts DEF Parts, OneGreeting
  <2>3. OneGreeting(ps2, ws, con2)
    <3> SUFFICES ASSUME NEW e \in FieldPorts, ps2[e] # None,
                        NEW i \in 1..Len(ps2[e].up), Connects(ps2[e].up[i])
                 PROVE  /\ con2[ps2[e].up[i].id] # None /\ Unheld(ws, ps2[e].up[i].id)
                        /\ \A q \in FieldPorts : ps2[q] # None =>
                             \A j \in 1..Len(ps2[q].up) :
                               Connects(ps2[q].up[j]) /\ ps2[q].up[j].id = ps2[e].up[i].id => q = e /\ j = i
      BY DEF OneGreeting
    <3>1. CASE e = p /\ i = n + 1 /\ ps2[e].up[i] = m
      <4>1. con[m.id] = None /\ con2[m.id] # None
        BY <3>1 DEF Connects
      <4>2. Unheld(ws, m.id)
        BY <2>0, <4>1 DEF Unheld, OneWindow
      <4>3. ASSUME NEW q \in FieldPorts, ps2[q] # None, NEW j \in 1..Len(ps2[q].up),
                   Connects(ps2[q].up[j]), ps2[q].up[j].id = m.id
            PROVE  q = e /\ j = i
        <5> HIDE DEF SayStep
        <5> QED BY <2>2, <2>k, <3>1, <4>1, <4>3
      <4> QED BY <3>1, <4>1, <4>2, <4>3
    <3>2. CASE i \in 1..Len(ps[e].up) /\ ps2[e].up[i] = ps[e].up[i] /\ ps[e] # None
      <4> DEFINE g == ps[e].up[i].id
      <4>1. g \in Fields /\ con[g] # None /\ con2[g] # None /\ Unheld(ws, g)
        BY <2>0, <2>k, <3>2 DEF OneGreeting
      <4>2. ASSUME NEW q \in FieldPorts, ps2[q] # None, NEW j \in 1..Len(ps2[q].up),
                   Connects(ps2[q].up[j]), ps2[q].up[j].id = g
            PROVE  q = e /\ j = i
        <5>1. ~(q = p /\ j = n + 1 /\ ps2[q].up[j] = m)
          BY <4>1, <4>2 DEF Connects
        <5>2. j \in 1..Len(ps[q].up) /\ ps2[q].up[j] = ps[q].up[j] /\ ps[q] # None
          BY <2>2, <4>2, <5>1
        <5>3. Connects(ps[q].up[j]) /\ Connects(ps[e].up[i]) /\ ps[q].up[j].id = ps[e].up[i].id
          BY <3>2, <4>2, <5>2
        <5> QED BY <2>0, <3>2, <5>2, <5>3, GreetedOnce
      <4> HIDE DEF g
      <4> QED BY <3>2, <4>1, <4>2 DEF g
    <3> QED BY <2>2, <3>1, <3>2
  <2>4. Farewells(ps2, sc2, con2)
    <3> SUFFICES ASSUME NEW e \in FieldPorts, ps2[e] # None, NEW i \in 1..Len(ps2[e].up),
                        ps2[e].up[i].type = "fieldDisconnected"
                 PROVE  con2[ps2[e].up[i].id] # None /\ sc2[ps2[e].of].session # ps2[e].up[i].id
      BY DEF Farewells
    <3>1. CASE e = p /\ i = n + 1 /\ ps2[e].up[i] = m
      <4>1. m.id = sc[t].session /\ sc2[t].session = None /\ m.id \in Fields /\ Tells(m)
        BY <1>m, <3>1 DEF Connects, Tells
      <4>2. con[m.id] # None
        BY <1>p, <2>0, <4>1 DEF Consented
      <4> QED BY <1>p, <3>1, <4>1, <4>2
    <3>2. CASE i \in 1..Len(ps[e].up) /\ ps2[e].up[i] = ps[e].up[i] /\ ps[e] # None
      <4> DEFINE g == ps[e].up[i].id
      <4>1. g \in Fields /\ con[g] # None /\ sc[ps[e].of].session # g
        BY <1>r, <2>0, <3>2, SaysFacts DEF Parts, Farewells, Tells
      <4>2. sc2[ps[e].of].session # g
        <5>1. ps[e].of \in Tabs
          BY <1>r, <3>2 DEF Parts
        <5>2. CASE ps[e].of # t
          BY <4>1, <5>1, <5>2
        <5>3. CASE ps[e].of = t
          BY <1>p, <4>1, <5>3
        <5> QED BY <5>2, <5>3
      <4> HIDE DEF g
      <4>3. ps2[e].of = ps[e].of
        BY <1>e
      <4> QED BY <3>2, <4>1, <4>2, <4>3 DEF g
    <3> QED BY <2>2, <3>1, <3>2
  <2>5. Detached(ps2, ws, con2)
    <3> SUFFICES ASSUME NEW e \in FieldPorts, ps2[e] # None, NEW g \in Detaches(ps2[e])
                 PROVE  con2[g] # None /\ Unheld(ws, g) /\ Unconnected(ps2, g)
      BY DEF Detached
    <3>0. g \in Fields
      BY DEF Detaches
    <3>1. g \in Detaches(ps[e]) /\ ps[e] # None /\ g \in Fields
      BY <1>p, <3>0
    <3>2. con[g] # None /\ Unheld(ws, g) /\ Unconnected(ps, g)
      BY <2>0, <3>1 DEF Detached
    <3>3. Unconnected(ps2, g)
      <4> SUFFICES ASSUME NEW q \in FieldPorts, ps2[q] # None, NEW j \in 1..Len(ps2[q].up),
                          Connects(ps2[q].up[j])
                   PROVE  ps2[q].up[j].id # g
        BY DEF Unconnected
      <4>1. CASE q = p /\ j = n + 1 /\ ps2[q].up[j] = m
        BY <3>2, <4>1 DEF Connects
      <4>2. CASE j \in 1..Len(ps[q].up) /\ ps2[q].up[j] = ps[q].up[j] /\ ps[q] # None
        BY <3>2, <4>2 DEF Unconnected
      <4> QED BY <2>2, <4>1, <4>2
    <3> QED BY <3>1, <3>2, <3>3
  <2>6. Consented(sc2, con2)
    <3> SUFFICES ASSUME NEW u \in Tabs, sc2[u].session # None PROVE con2[sc2[u].session] # None
      BY DEF Consented
    <3>1. CASE u # t
      BY <1>r, <2>0, <3>1 DEF Consented, Parts
    <3>2. CASE u = t /\ Connects(m)
      BY <3>2 DEF Connects
    <3>3. CASE u = t /\ ~Connects(m)
      BY <1>r, <2>0, <3>3 DEF Consented, Parts
    <3> QED BY <3>1, <3>2, <3>3
  <2> QED BY <2>1, <2>3, <2>4, <2>5, <2>6 DEF Names
<1>9. Housed(ws, cap, fps)
  OBVIOUS
<1> QED BY <1>r, <1>1, <1>2, <1>3, <1>4, <1>5, <1>6, <1>7, <1>8, <1>9

-----------------------------------------------------------------------------
(* A script hears something, or ends its session without a word, or speaks  *)
(* on a port that is dead.                                                  *)
ScoutStep(ps, sc, con, drop, t, ps2, sc2, con2, drop2) ==
  /\ \A e \in FieldPorts : ps2[e] = None <=> ps[e] = None
  /\ \A e \in FieldPorts : ps[e] # None =>
       /\ ps2[e].of = ps[e].of /\ ps2[e].live = ps[e].live /\ ps2[e].up = ps[e].up
       /\ Detaches(ps2[e]) \subseteq Detaches(ps[e])
       /\ e # sc[t].port => Detaches(ps2[e]) = Detaches(ps[e])
  /\ \A u \in Tabs : u # t => sc2[u] = sc[u]
  /\ \A f \in Fields : con[f] # None => con2[f] # None
  /\ drop \subseteq drop2
  /\ \/ /\ sc2[t].port = sc[t].port /\ sc2[t].session = sc[t].session /\ sc2[t].text = sc[t].text
        /\ sc[t].session \in Detaches(ps[sc[t].port])
             => sc[t].session \in Detaches(ps2[sc[t].port])
     \/ /\ sc2[t].port = sc[t].port /\ sc2[t].session = None
        /\ sc[t].session # None => sc[t].session \in drop2 \cup Detaches(ps[sc[t].port])
     \/ /\ sc[t].port # None /\ ~ps[sc[t].port].live
        /\ sc2[t].port = sc[t].port \/ (sc2[t].port = None /\ sc2[t].session = None)
        /\ \/ sc2[t].session \in {None, sc[t].session}
           \/ con[sc2[t].session] = None /\ con2[sc2[t].session] # None
LEMMA ScoutKeeps ==
  ASSUME NEW ps, NEW sc, NEW ws, NEW cap, NEW fps, NEW con, NEW drop,
         FieldSide(ps, sc, ws, cap, fps, con, drop),
         NEW t \in Tabs, NEW ps2, NEW sc2, NEW con2, NEW drop2,
         Typed(ps2, sc2, ws, cap, fps, con2, drop2),
         ScoutStep(ps, sc, con, drop, t, ps2, sc2, con2, drop2)
  PROVE  FieldSide(ps2, sc2, ws, cap, fps, con2, drop2)
<1> USE DEF Idx, ScoutStep
<1>r. /\ Parts(ps, sc, ws, cap, fps) /\ Roles(ps, sc, ws, cap, fps)
      /\ Parts(ps2, sc2, ws, cap, fps)
  BY TypedFacts, SideFacts DEF FieldSide
<1>p. None \notin Fields /\ None \notin Tabs /\ None \notin FieldPorts
  BY <1>r DEF Parts
<1>u. \A u \in Tabs : u # t /\ sc[u].port # None => sc[u].port # sc[t].port
  BY <1>r DEF Roles
<1>w. \A w \in Windows : ws[w].field # None =>
        /\ ws[w].field.tab \in Tabs /\ fps[ws[w].field.tab] \in FieldPorts
        /\ ps[fps[ws[w].field.tab]] # None /\ ps[fps[ws[w].field.tab]].of = ws[w].field.tab
        /\ ps[fps[ws[w].field.tab]].live /\ cap[fps[ws[w].field.tab]] # None
  BY <1>r DEF Parts, Roles
<1>s. \A e \in FieldPorts : Detaches(ps[e]) \subseteq Fields
  BY DEF Detaches
<1> USE DEF FieldSide
<1>1. PortsShaped(ps2, cap)
  BY DEF PortsShaped, Shape
<1>2. PortsInOrder(ps2, cap)
  BY DEF PortsInOrder
<1>3. Registered(ps2, cap, fps)
  BY <1>r DEF Registered, Roles
<1>4. OwnPorts(ps2, sc2, cap, fps)
  <2> SUFFICES ASSUME NEW u \in Tabs PROVE OwnPort(ps2, sc2[u], cap, fps, u)
    BY DEF OwnPorts
  <2>1. OwnPort(ps, sc[u], cap, fps, u) /\ (sc[u].port # None => sc[u].port \in FieldPorts)
    BY <1>r DEF OwnPorts, Roles
  <2>2. \/ sc2[u].port = None /\ sc2[u].session = None
        \/ sc2[u].port = sc[u].port /\ (sc[u].port = None => sc2[u].session = None)
    <3>1. CASE u # t
      BY <2>1, <3>1 DEF OwnPort
    <3>2. CASE u = t
      BY <2>1, <3>2 DEF OwnPort
    <3> QED BY <3>1, <3>2
  <2>3. CASE sc2[u].port = None /\ sc2[u].session = None
    BY <2>3 DEF OwnPort
  <2>4. CASE sc2[u].port = sc[u].port /\ (sc[u].port = None => sc2[u].session = None)
    <3>1. \A e \in FieldPorts : ps2[e] # None /\ ps2[e].of = u => ps[e] # None /\ ps[e].of = u
      OBVIOUS
    <3> QED BY <2>1, <2>4, <3>1 DEF OwnPort
  <2> QED BY <2>2, <2>3, <2>4
<1>5. Spoken(ps2, ws, cap, fps)
  BY DEF Spoken
<1>6. Sessions(ps2, sc2, ws, cap, fps) /\ Typings(ps2, sc2, ws, cap, fps)
  <2> SUFFICES ASSUME NEW u \in Tabs, sc2[u].session # None, ps2[sc2[u].port].live
               PROVE  LET q == sc2[u].port
                      IN  /\ Session(ps2[q].up, Detaches(ps2[q]), Now(ws, cap, fps, q), sc2[u].session)
                          /\ Typing(ps2[q].up, Now(ws, cap, fps, q), sc2[u].session,
                                    ws[cap[q].window].field.text, sc2[u].text)
    BY DEF Sessions, Typings
  <2>1. sc2[u].port \in FieldPorts /\ ps[sc2[u].port] # None
    BY <1>4, <1>r DEF OwnPorts, OwnPort, Parts
  <2>2. ps[sc2[u].port].live
    BY <2>1
  <2>3. sc2[u].port = sc[u].port /\ sc2[u].session = sc[u].session /\ sc2[u].text = sc[u].text
    BY <2>1, <2>2
  <2>4. sc[u].session \in Detaches(ps[sc[u].port]) => sc[u].session \in Detaches(ps2[sc[u].port])
    <3>1. CASE u = t
      BY <2>1, <2>2, <2>3, <3>1
    <3>2. CASE u # t
      <4>1. sc[u].port \in FieldPorts /\ ps[sc[u].port] # None /\ sc[u].port # sc[t].port
        BY <1>p, <1>u, <2>1, <2>3, <3>2
      <4>2. Detaches(ps2[sc[u].port]) = Detaches(ps[sc[u].port])
        BY <4>1
      <4> QED BY <4>2
    <3> QED BY <3>1, <3>2
  <2>5. /\ Session(ps[sc[u].port].up, Detaches(ps[sc[u].port]), Now(ws, cap, fps, sc[u].port), sc[u].session)
        /\ Typing(ps[sc[u].port].up, Now(ws, cap, fps, sc[u].port), sc[u].session,
                  ws[cap[sc[u].port].window].field.text, sc[u].text)
    BY <2>2, <2>3 DEF Sessions, Typings
  <2> QED BY <2>1, <2>3, <2>4, <2>5 DEF Session
<1>7. AllFollowed(ps2, sc2, ws, cap, fps, drop2)
  <2>1. ASSUME NEW e \in FieldPorts, ps[e] # None, NEW i, NEW g \in Fields,
               Followed(ps[e].up, sc[ps[e].of], drop, e, i, g),
               ps[e].of = t /\ sc[t].port = e => ps[e].live /\ g \notin Detaches(ps[e])
        PROVE  Followed(ps2[e].up, sc2[ps2[e].of], drop2, e, i, g)
    <3>1. ps[e].of \in Tabs
      BY <1>r, <2>1 DEF Parts
    <3>2. CASE ps[e].of # t
      BY <2>1, <3>1, <3>2 DEF Followed
    <3>3. CASE ps[e].of = t
      <4>1. sc[t].port = e /\ sc[t].session = g => g \in drop2 \/ (sc2[t].port = e /\ sc2[t].session = g)
        BY <1>p, <2>1, <3>3
      <4> QED BY <2>1, <3>3, <4>1 DEF Followed
    <3> QED BY <3>2, <3>3
  <2>2. ASSUME NEW e \in FieldPorts, ps2[e] # None, cap[e] = None \/ fps[ps2[e].of] = e,
               NEW i \in 1..Len(ps2[e].up), Connects(ps2[e].up[i])
        PROVE  Followed(ps2[e].up, sc2[ps2[e].of], drop2, e, i, ps2[e].up[i].id)
    <3>1. ps[e] # None /\ ps[e].of = ps2[e].of /\ ps[e].up = ps2[e].up /\ ps[e].of \in Tabs
      BY <1>r, <2>2 DEF Parts
    <3>2. ps[e].up[i] \in FieldSays
      BY <1>r, <2>2, <3>1 DEF Parts
    <3>3. ps[e].up[i].id \in Fields
      BY <2>2, <3>1, <3>2, SaysFacts
    <3>4. Followed(ps[e].up, sc[ps[e].of], drop, e, i, ps[e].up[i].id)
      BY <2>2, <3>1 DEF AllFollowed
    <3>5. ps[e].live
      <4>1. CASE cap[e] = None
        <5>1. ps[e].up # <<>>
          BY <2>2, <3>1
        <5> QED BY <3>1, <4>1, <5>1 DEF PortsShaped, Shape
      <4>2. CASE cap[e] # None
        BY <1>p, <1>r, <2>2, <3>1, <4>2 DEF Roles
      <4> QED BY <4>1, <4>2
    <3>6. ps[e].up[i].id \notin Detaches(ps[e])
      BY <2>2, <3>1 DEF Names, Detached, Unconnected
    <3> QED BY <2>1, <3>1, <3>3, <3>4, <3>5, <3>6
  <2>3. ASSUME NEW w \in Windows, ws[w].field # None
        PROVE  LET u == ws[w].field.tab
               IN  Followed(ps2[fps[u]].up, sc2[u], drop2, fps[u], 0, ws[w].field.id)
    <3> DEFINE u == ws[w].field.tab
    <3> DEFINE g == ws[w].field.id
    <3>1. /\ u \in Tabs /\ fps[u] \in FieldPorts /\ ps[fps[u]] # None /\ ps[fps[u]].of = u
          /\ ps[fps[u]].live
      BY <1>w, <2>3
    <3>2. Followed(ps[fps[u]].up, sc[u], drop, fps[u], 0, g)
      BY <2>3 DEF AllFollowed
    <3>3. g \in Fields
      BY <1>r, <2>3 DEF Parts
    <3>4. g \notin Detaches(ps[fps[u]])
      BY <2>3, <3>1 DEF Names, Detached, Unheld
    <3> HIDE DEF u, g
    <3>5. Followed(ps2[fps[u]].up, sc2[ps2[fps[u]].of], drop2, fps[u], 0, g)
      BY <2>1, <3>1, <3>2, <3>3, <3>4
    <3>6. ps2[fps[u]].of = u
      BY <3>1
    <3>7. Followed(ps2[fps[u]].up, sc2[u], drop2, fps[u], 0, g)
      BY <3>5, <3>6
    <3> QED BY <3>7 DEF u, g
  <2> QED BY <2>2, <2>3 DEF AllFollowed
<1>8. Names(ps2, sc2, ws, con2)
  <2>0. OneWindow(ws, con) /\ OneGreeting(ps, ws, con) /\ Farewells(ps, sc, con)
        /\ Detached(ps, ws, con) /\ Consented(sc, con)
    BY DEF Names
  <2>1. OneWindow(ws, con2)
    BY <1>r, <2>0 DEF OneWindow, Parts
  <2>k. \A e \in FieldPorts : ps[e] # None => \A i \in 1..Len(ps[e].up) :
          Connects(ps[e].up[i]) \/ ps[e].up[i].type = "fieldDisconnected" => ps[e].up[i].id \in Fields
    BY <1>r, SaysFacts DEF Parts, Tells
  <2>3. OneGreeting(ps2, ws, con2)
    <3> SUFFICES ASSUME NEW e \in FieldPorts, ps2[e] # None,
                        NEW i \in 1..Len(ps2[e].up), Connects(ps2[e].up[i])
                 PROVE  /\ con2[ps2[e].up[i].id] # None /\ Unheld(ws, ps2[e].up[i].id)
                        /\ \A q \in FieldPorts : ps2[q] # None =>
                             \A j \in 1..Len(ps2[q].up) :
                               Connects(ps2[q].up[j]) /\ ps2[q].up[j].id = ps2[e].up[i].id => q = e /\ j = i
      BY DEF OneGreeting
    <3>1. ps[e] # None /\ ps2[e].up = ps[e].up
      OBVIOUS
    <3>2. /\ con[ps[e].up[i].id] # None /\ Unheld(ws, ps[e].up[i].id) /\ ps[e].up[i].id \in Fields
      BY <2>0, <2>k, <3>1 DEF OneGreeting
    <3>3. ASSUME NEW q \in FieldPorts, ps2[q] # None, NEW j \in 1..Len(ps2[q].up),
                 Connects(ps2[q].up[j]), ps2[q].up[j].id = ps2[e].up[i].id
          PROVE  q = e /\ j = i
      <4>1. ps[q] # None /\ ps2[q].up = ps[q].up
        BY <3>3
      <4> QED BY <2>0, <3>1, <3>3, <4>1, GreetedOnce
    <3> QED BY <3>1, <3>2, <3>3
  <2>4. Farewells(ps2, sc2, con2)
    <3> SUFFICES ASSUME NEW e \in FieldPorts, ps2[e] # None, NEW i \in 1..Len(ps2[e].up),
                        ps2[e].up[i].type = "fieldDisconnected"
                 PROVE  con2[ps2[e].up[i].id] # None /\ sc2[ps2[e].of].session # ps2[e].up[i].id
      BY DEF Farewells
    <3> DEFINE g == ps[e].up[i].id
    <3>1. ps[e] # None /\ ps2[e].up[i].id = g /\ ps2[e].of = ps[e].of /\ ps[e].of \in Tabs
      BY <1>r DEF Parts
    <3>2. g \in Fields /\ con[g] # None /\ sc[ps[e].of].session # g
      BY <2>0, <2>k DEF Farewells
    <3> HIDE DEF g
    <3>3. sc2[ps[e].of].session # g
      <4>1. CASE ps[e].of # t
        BY <3>1, <3>2, <4>1
      <4>2. CASE ps[e].of = t
        BY <1>p, <3>2, <4>2
      <4> QED BY <4>1, <4>2
    <3> QED BY <3>1, <3>2, <3>3
  <2>5. Detached(ps2, ws, con2)
    <3> SUFFICES ASSUME NEW e \in FieldPorts, ps2[e] # None, NEW g \in Detaches(ps2[e])
                 PROVE  con2[g] # None /\ Unheld(ws, g) /\ Unconnected(ps2, g)
      BY DEF Detached
    <3>1. g \in Detaches(ps[e]) /\ ps[e] # None /\ g \in Fields
      BY <1>s
    <3>2. con[g] # None /\ Unheld(ws, g) /\ Unconnected(ps, g)
      BY <2>0, <3>1 DEF Detached
    <3>3. Unconnected(ps2, g)
      BY <3>2 DEF Unconnected
    <3> QED BY <3>1, <3>2, <3>3
  <2>6. Consented(sc2, con2)
    <3> SUFFICES ASSUME NEW u \in Tabs, sc2[u].session # None PROVE con2[sc2[u].session] # None
      BY DEF Consented
    <3>1. sc2[u].session = sc[u].session \/ con2[sc2[u].session] # None
      BY DEF Consented
    <3> QED BY <1>r, <2>0, <3>1 DEF Consented, Parts
  <2> QED BY <2>1, <2>3, <2>4, <2>5, <2>6 DEF Names
<1>9. Housed(ws, cap, fps)
  OBVIOUS
<1> QED BY <1>1, <1>2, <1>3, <1>4, <1>5, <1>6, <1>7, <1>8, <1>9

-----------------------------------------------------------------------------
(* The worker lets go of fields, and tells the scripts that may not know.   *)
Lost1(ws, ws2, w) == ws[w].field # None /\ ws2[w].field = None
LoseStep(ps, sc, ws, fps, ps2, ws2) ==
  /\ \A w \in Windows : ws2[w].field = ws[w].field \/ ws2[w].field = None
  /\ \A e \in FieldPorts : ps2[e] = None <=> ps[e] = None
  /\ \A e \in FieldPorts : ps[e] # None =>
       /\ ps2[e].of = ps[e].of /\ ps2[e].live = ps[e].live /\ ps2[e].up = ps[e].up
       /\ Detaches(ps[e]) \subseteq Detaches(ps2[e])
       /\ \A g \in Detaches(ps2[e]) : \/ g \in Detaches(ps[e])
                                      \/ \E w \in Windows : Lost1(ws, ws2, w) /\ ws[w].field.id = g
  /\ \A w \in Windows : Lost1(ws, ws2, w) =>
       LET u == ws[w].field.tab
       IN  /\ sc[u].port = fps[u] /\ sc[u].session = ws[w].field.id
           /\ \A k \in Idx(ps[fps[u]].up) : ~Connects(ps[fps[u]].up[k])
           => ws[w].field.id \in Detaches(ps2[fps[u]])
LEMMA LoseKeeps ==
  ASSUME NEW ps, NEW sc, NEW ws, NEW cap, NEW fps, NEW con, NEW drop,
         FieldSide(ps, sc, ws, cap, fps, con, drop),
         NEW ps2, NEW ws2, Typed(ps2, sc, ws2, cap, fps, con, drop),
         LoseStep(ps, sc, ws, fps, ps2, ws2)
  PROVE  FieldSide(ps2, sc, ws2, cap, fps, con, drop)
<1> USE DEF Idx, LoseStep
<1>r. /\ Parts(ps, sc, ws, cap, fps) /\ Roles(ps, sc, ws, cap, fps)
  BY TypedFacts, SideFacts DEF FieldSide
<1>p. None \notin Fields /\ None \notin Tabs /\ None \notin FieldPorts
  BY <1>r DEF Parts
<1>s. \A e \in FieldPorts : Detaches(ps2[e]) \subseteq Fields
  BY DEF Detaches
<1>w. \A w \in Windows : ws2[w].field # None => ws2[w].field = ws[w].field /\ ws[w].field # None
  OBVIOUS
<1>n. ASSUME NEW p \in FieldPorts
      PROVE  \/ /\ Now(ws2, cap, fps, p) = Now(ws, cap, fps, p)
                /\ Now(ws2, cap, fps, p) # None => ws2[cap[p].window].field = ws[cap[p].window].field
             \/ /\ Now(ws2, cap, fps, p) = None /\ Now(ws, cap, fps, p) # None
                /\ cap[p].window \in Windows /\ Lost1(ws, ws2, cap[p].window)
  <2>1. CASE cap[p] # None /\ fps[cap[p].tab] = p
    <3>1. cap[p].window \in Windows
      BY <1>r, <2>1 DEF Parts
    <3>2. CASE ws2[cap[p].window].field = ws[cap[p].window].field
      BY <3>2 DEF Now, HoldsIn
    <3>3. CASE ws2[cap[p].window].field # ws[cap[p].window].field
      <4>1. Lost1(ws, ws2, cap[p].window)
        BY <3>1, <3>3 DEF Lost1
      <4>2. Now(ws2, cap, fps, p) = None
        BY <4>1 DEF Now, HoldsIn, Lost1
      <4> QED BY <3>1, <4>1, <4>2
    <3> QED BY <3>2, <3>3
  <2>2. CASE ~(cap[p] # None /\ fps[cap[p].tab] = p)
    BY <2>2 DEF Now
  <2> QED BY <2>1, <2>2
<1> USE DEF FieldSide
<1>1. PortsShaped(ps2, cap)
  BY DEF PortsShaped, Shape
<1>2. PortsInOrder(ps2, cap)
  BY DEF PortsInOrder
<1>3. Registered(ps2, cap, fps)
  BY <1>r DEF Registered, Roles
<1>4. OwnPorts(ps2, sc, cap, fps)
  <2> SUFFICES ASSUME NEW u \in Tabs PROVE OwnPort(ps2, sc[u], cap, fps, u)
    BY DEF OwnPorts
  <2>1. OwnPort(ps, sc[u], cap, fps, u) /\ (sc[u].port # None => sc[u].port \in FieldPorts)
    BY <1>r DEF OwnPorts, Roles
  <2>2. \A e \in FieldPorts : ps2[e] # None /\ ps2[e].of = u => ps[e] # None /\ ps[e].of = u
    OBVIOUS
  <2> QED BY <2>1, <2>2 DEF OwnPort
<1>5. Spoken(ps2, ws2, cap, fps)
  <2> SUFFICES ASSUME NEW e \in FieldPorts, ps2[e] # None
               PROVE  Speech(ps2[e].up, Now(ws2, cap, fps, e))
    BY DEF Spoken
  <2>1. Speech(ps[e].up, Now(ws, cap, fps, e)) /\ ps2[e].up = ps[e].up
    BY DEF Spoken
  <2>2. Now(ws2, cap, fps, e) = Now(ws, cap, fps, e) \/ Now(ws2, cap, fps, e) = None
    BY <1>n
  <2> QED BY <2>1, <2>2 DEF Speech
<1>6. Sessions(ps2, sc, ws2, cap, fps) /\ Typings(ps2, sc, ws2, cap, fps)
  <2> SUFFICES ASSUME NEW u \in Tabs, sc[u].session # None, ps2[sc[u].port].live
               PROVE  LET q == sc[u].port
                      IN  /\ Session(ps2[q].up, Detaches(ps2[q]), Now(ws2, cap, fps, q), sc[u].session)
                          /\ Typing(ps2[q].up, Now(ws2, cap, fps, q), sc[u].session,
                                    ws2[cap[q].window].field.text, sc[u].text)
    BY DEF Sessions, Typings
  <2> DEFINE q == sc[u].port
  <2> DEFINE f == sc[u].session
  <2>1. q \in FieldPorts /\ ps[q] # None /\ ps[q].of = u /\ ps[q].live
    BY <1>r DEF Roles
  <2>2. /\ Session(ps[q].up, Detaches(ps[q]), Now(ws, cap, fps, q), f)
        /\ Typing(ps[q].up, Now(ws, cap, fps, q), f, ws[cap[q].window].field.text, sc[u].text)
    BY <2>1 DEF Sessions, Typings
  <2>0. q = sc[u].port /\ f = sc[u].session
    OBVIOUS
  <2>6. ps2[q].live /\ ps2[q].up = ps[q].up /\ Detaches(ps[q]) \subseteq Detaches(ps2[q])
    BY <2>1
  <2> HIDE DEF q, f
  <2>3. ASSUME Now(ws2, cap, fps, q) = Now(ws, cap, fps, q),
               Now(ws2, cap, fps, q) # None => ws2[cap[q].window].field = ws[cap[q].window].field
        PROVE  /\ Session(ps2[q].up, Detaches(ps2[q]), Now(ws2, cap, fps, q), f)
               /\ Typing(ps2[q].up, Now(ws2, cap, fps, q), f,
                         ws2[cap[q].window].field.text, sc[u].text)
    <3>1. Session(ps2[q].up, Detaches(ps2[q]), Now(ws2, cap, fps, q), f)
      BY <2>2, <2>3, <2>6 DEF Session
    <3>2. Typing(ps2[q].up, Now(ws2, cap, fps, q), f, ws2[cap[q].window].field.text, sc[u].text)
      <4>1. Now(ws2, cap, fps, q) = f => /\ Now(ws, cap, fps, q) = f
              /\ ws2[cap[q].window].field.text = ws[cap[q].window].field.text
        BY <2>0, <2>3
      <4>2. Typing(ps[q].up, Now(ws2, cap, fps, q), f, ws2[cap[q].window].field.text, sc[u].text)
        BY <2>2, <4>1, TypingWeaker
      <4> QED BY <2>6, <4>2
    <3> QED BY <3>1, <3>2
  <2>4. ASSUME Now(ws2, cap, fps, q) = None, Now(ws, cap, fps, q) # None,
               cap[q].window \in Windows, Lost1(ws, ws2, cap[q].window)
        PROVE  /\ Session(ps2[q].up, Detaches(ps2[q]), Now(ws2, cap, fps, q), f)
               /\ Typing(ps2[q].up, Now(ws2, cap, fps, q), f,
                         ws2[cap[q].window].field.text, sc[u].text)
    <3> DEFINE w == cap[q].window
    <3>0. w \in Windows /\ Lost1(ws, ws2, w) /\ Now(ws2, cap, fps, q) = None
      BY <2>4
    <3>1. /\ fps[u] = q /\ ws[w].field.tab = u /\ Now(ws, cap, fps, q) = ws[w].field.id
          /\ Now(ws, cap, fps, q) # None
      BY <1>r, <2>1, <2>4 DEF Roles, HoldsIn
    <3> HIDE DEF w
    <3>2. f = ws[w].field.id /\ (\A k \in 1..Len(ps[q].up) : ~Connects(ps[q].up[k]))
            => f \in Detaches(ps2[q])
      <4> SUFFICES ASSUME f = ws[w].field.id, \A k \in 1..Len(ps[q].up) : ~Connects(ps[q].up[k])
                   PROVE  f \in Detaches(ps2[q])
        OBVIOUS
      <4>1. sc[ws[w].field.tab].port = fps[ws[w].field.tab] /\ sc[ws[w].field.tab].session = ws[w].field.id
        BY <2>0, <3>1
      <4> QED BY <3>0, <3>1, <4>1
    <3>3. Session(ps2[q].up, Detaches(ps2[q]), None, f)
      BY <2>2, <2>6, <3>1, <3>2 DEF Session
    <3>4. Now(ws2, cap, fps, q) # f
      BY <2>0, <3>0
    <3>5. Typing(ps2[q].up, Now(ws2, cap, fps, q), f, ws2[cap[q].window].field.text, sc[u].text)
      BY <2>2, <2>6, <3>4, TypingWeaker
    <3> QED BY <3>0, <3>3, <3>5
  <2>5. \/ /\ Now(ws2, cap, fps, q) = Now(ws, cap, fps, q)
           /\ Now(ws2, cap, fps, q) # None => ws2[cap[q].window].field = ws[cap[q].window].field
        \/ /\ Now(ws2, cap, fps, q) = None /\ Now(ws, cap, fps, q) # None
           /\ cap[q].window \in Windows /\ Lost1(ws, ws2, cap[q].window)
    BY <1>n, <2>1
  <2>7. /\ Session(ps2[q].up, Detaches(ps2[q]), Now(ws2, cap, fps, q), f)
        /\ Typing(ps2[q].up, Now(ws2, cap, fps, q), f, ws2[cap[q].window].field.text, sc[u].text)
    BY <2>3, <2>4, <2>5
  <2> QED BY <2>7 DEF q, f
<1>7. AllFollowed(ps2, sc, ws2, cap, fps, drop)
  <2>1. ASSUME NEW e \in FieldPorts, ps2[e] # None, cap[e] = None \/ fps[ps2[e].of] = e,
               NEW i \in 1..Len(ps2[e].up), Connects(ps2[e].up[i])
        PROVE  Followed(ps2[e].up, sc[ps2[e].of], drop, e, i, ps2[e].up[i].id)
    <3>1. ps[e] # None /\ ps[e].of = ps2[e].of /\ ps[e].up = ps2[e].up
      BY <2>1
    <3> QED BY <2>1, <3>1 DEF AllFollowed
  <2>2. ASSUME NEW w \in Windows, ws2[w].field # None
        PROVE  LET u == ws2[w].field.tab
               IN  Followed(ps2[fps[u]].up, sc[u], drop, fps[u], 0, ws2[w].field.id)
    <3> DEFINE u == ws[w].field.tab
    <3>1. ws2[w].field = ws[w].field /\ ws[w].field # None
      BY <2>2
    <3>2. u \in Tabs /\ fps[u] \in FieldPorts /\ ps[fps[u]] # None
      BY <1>r, <3>1 DEF Parts, Roles
    <3>3. Followed(ps[fps[u]].up, sc[u], drop, fps[u], 0, ws[w].field.id)
      BY <3>1 DEF AllFollowed
    <3> QED BY <3>1, <3>2, <3>3
  <2> QED BY <2>1, <2>2 DEF AllFollowed
<1>8. Names(ps2, sc, ws2, con)
  <2>0. OneWindow(ws, con) /\ OneGreeting(ps, ws, con) /\ Farewells(ps, sc, con)
        /\ Detached(ps, ws, con) /\ Consented(sc, con)
    BY DEF Names
  <2>1. OneWindow(ws2, con)
    BY <1>w, <2>0 DEF OneWindow
  <2>2. \A g \in Fields : Unheld(ws, g) => Unheld(ws2, g)
    BY <1>w DEF Unheld
  <2>3. OneGreeting(ps2, ws2, con)
    <3> SUFFICES ASSUME NEW e \in FieldPorts, ps2[e] # None,
                        NEW i \in 1..Len(ps2[e].up), Connects(ps2[e].up[i])
                 PROVE  /\ con[ps2[e].up[i].id] # None /\ Unheld(ws2, ps2[e].up[i].id)
                        /\ \A q \in FieldPorts : ps2[q] # None =>
                             \A j \in 1..Len(ps2[q].up) :
                               Connects(ps2[q].up[j]) /\ ps2[q].up[j].id = ps2[e].up[i].id => q = e /\ j = i
      BY DEF OneGreeting
    <3>1. ps[e] # None /\ ps2[e].up = ps[e].up /\ ps[e].up[i] \in FieldSays
      BY <1>r DEF Parts
    <3>2. /\ con[ps[e].up[i].id] # None /\ Unheld(ws, ps[e].up[i].id) /\ ps[e].up[i].id \in Fields
      BY <2>0, <3>1, SaysFacts DEF OneGreeting
    <3>3. ASSUME NEW q \in FieldPorts, ps2[q] # None, NEW j \in 1..Len(ps2[q].up),
                 Connects(ps2[q].up[j]), ps2[q].up[j].id = ps2[e].up[i].id
          PROVE  q = e /\ j = i
      <4>1. ps[q] # None /\ ps2[q].up = ps[q].up
        BY <3>3
      <4> QED BY <2>0, <3>1, <3>3, <4>1, GreetedOnce
    <3> QED BY <2>2, <3>1, <3>2, <3>3
  <2>4. Farewells(ps2, sc, con)
    BY <2>0 DEF Farewells
  <2>5. Detached(ps2, ws2, con)
    <3> SUFFICES ASSUME NEW e \in FieldPorts, ps2[e] # None, NEW g \in Detaches(ps2[e])
                 PROVE  con[g] # None /\ Unheld(ws2, g) /\ Unconnected(ps2, g)
      BY DEF Detached
    <3>1. ps[e] # None /\ g \in Fields
      BY <1>s
    <3>2. Unconnected(ps, g) => Unconnected(ps2, g)
      BY DEF Unconnected
    <3>3. CASE g \in Detaches(ps[e])
      <4>1. con[g] # None /\ Unheld(ws, g) /\ Unconnected(ps, g)
        BY <2>0, <3>1, <3>3 DEF Detached
      <4> QED BY <2>2, <3>1, <3>2, <4>1
    <3>4. CASE \E w \in Windows : Lost1(ws, ws2, w) /\ ws[w].field.id = g
      <4>1. PICK w \in Windows : Lost1(ws, ws2, w) /\ ws[w].field.id = g
        BY <3>4
      <4>2. con[g] # None /\ Unheld(ws2, g)
        BY <1>w, <2>0, <4>1 DEF OneWindow, Unheld, Lost1
      <4>3. Unconnected(ps, g)
        BY <2>0, <4>1 DEF OneGreeting, Unconnected, Unheld, Lost1
      <4> QED BY <3>2, <4>2, <4>3
    <3> QED BY <3>1, <3>3, <3>4
  <2> QED BY <2>0, <2>1, <2>3, <2>4, <2>5 DEF Names
<1>9. Housed(ws2, cap, fps)
  BY <1>w DEF Housed
<1> QED BY <1>1, <1>2, <1>3, <1>4, <1>5, <1>6, <1>7, <1>8, <1>9

-----------------------------------------------------------------------------
(* The worker hears a message of a field port other than the first and the  *)
(* last of the port.                                                        *)
Popped(ps, ps2, p) ==
  /\ ps[p] # None /\ ps[p].up # <<>>
  /\ ps2[p] # None /\ ps2[p].of = ps[p].of /\ ps2[p].up = Tail(ps[p].up)
  /\ Detaches(ps2[p]) = Detaches(ps[p])
  /\ \A e \in FieldPorts : e # p => ps2[e] = ps[e]
Moved(p, e, i) == IF e = p THEN i + 1 ELSE i

LEMMA PoppedFacts ==
  ASSUME NEW ps, NEW ps2, NEW p \in FieldPorts, Popped(ps, ps2, p), ps[p].up \in Seq(FieldSays)
  PROVE  /\ 1 \in 1..Len(ps[p].up)
         /\ \A e \in FieldPorts : /\ ps2[e] = None <=> ps[e] = None
                                  /\ ps2[e].of = ps[e].of /\ Detaches(ps2[e]) = Detaches(ps[e])
         /\ \A e \in FieldPorts : \A i \in 1..Len(ps2[e].up) :
              /\ Moved(p, e, i) \in 1..Len(ps[e].up) /\ ps2[e].up[i] = ps[e].up[Moved(p, e, i)]
              /\ e = p => Moved(p, e, i) > 1
         /\ \A e \in FieldPorts : \A i, j \in Nat : Moved(p, e, i) = Moved(p, e, j) => i = j
<1> DEFINE s == ps[p].up
<1> DEFINE n == Tail(ps[p].up)
<1>1. /\ Len(s) \in Nat /\ Len(s) > 0 /\ Len(n) = Len(s) - 1
      /\ \A i \in 1..(Len(s) - 1) : n[i] = s[i + 1]
  BY TailFacts DEF Popped
<1>2. ps2[p].up = n
  BY DEF Popped
<1> HIDE DEF n
<1>3. \A e \in FieldPorts : /\ ps2[e] = None <=> ps[e] = None
                            /\ ps2[e].of = ps[e].of /\ Detaches(ps2[e]) = Detaches(ps[e])
  BY DEF Popped
<1>4. ASSUME NEW e \in FieldPorts, NEW i \in 1..Len(ps2[e].up)
      PROVE  /\ Moved(p, e, i) \in 1..Len(ps[e].up) /\ ps2[e].up[i] = ps[e].up[Moved(p, e, i)]
             /\ e = p => Moved(p, e, i) > 1
  <2>1. CASE e = p
    BY <1>1, <1>2, <2>1 DEF Moved
  <2>2. CASE e # p
    BY <2>2 DEF Moved, Popped
  <2> QED BY <2>1, <2>2
<1>5. \A e \in FieldPorts : \A i, j \in Nat : Moved(p, e, i) = Moved(p, e, j) => i = j
  BY DEF Moved
<1>6. 1 \in 1..Len(s)
  BY <1>1
<1> QED BY <1>3, <1>4, <1>5, <1>6

PopStep(ps, ws, cap, fps, p, m, w, ps2, ws2) ==
  /\ Popped(ps, ps2, p) /\ ps2[p].live = ps[p].live
  /\ m = ps[p].up[1] /\ m.type \notin {"open", "closed"}
  /\ cap[p] # None => w = cap[p].window /\ w \in Windows
  /\ \A v \in Windows : v # w => ws2[v].field = ws[v].field
  /\ \/ /\ Now(ws, cap, fps, p) = None /\ (Connects(m) => fps[ps[p].of] # p)
        /\ \A v \in Windows : ws2[v].field = ws[v].field
     \/ /\ m.type = "textChanged" /\ Now(ws, cap, fps, p) = m.id
        /\ ws2[w].field # None /\ ws2[w].field.tab = ws[w].field.tab
        /\ ws2[w].field.id = ws[w].field.id /\ ws2[w].field.text = m.text
     \/ /\ Connects(m) /\ fps[ps[p].of] = p /\ ws[w].field = None
        /\ ws2[w].field # None /\ ws2[w].field.tab = ps[p].of
        /\ ws2[w].field.id = m.id /\ ws2[w].field.text = m.text
LEMMA PopKeeps ==
  ASSUME NEW ps, NEW sc, NEW ws, NEW cap, NEW fps, NEW con, NEW drop,
         FieldSide(ps, sc, ws, cap, fps, con, drop),
         NEW p \in FieldPorts, NEW m, NEW w, NEW ps2,
         NEW ws2, Typed(ps2, sc, ws2, cap, fps, con, drop),
         PopStep(ps, ws, cap, fps, p, m, w, ps2, ws2)
  PROVE  FieldSide(ps2, sc, ws2, cap, fps, con, drop)
<1> USE DEF Idx, PopStep
<1>r. /\ Parts(ps, sc, ws, cap, fps) /\ Roles(ps, sc, ws, cap, fps)
      /\ Parts(ps2, sc, ws2, cap, fps)
  BY TypedFacts, SideFacts DEF FieldSide
<1>p. /\ None \notin Fields /\ None \notin Tabs /\ None \notin FieldPorts /\ None \notin Windows
      /\ ps[p] # None /\ ps[p].of \in Tabs
      /\ ps[p].up \in Seq(FieldSays) /\ ps[p].up # <<>> /\ ps2[p].up = Tail(ps[p].up)
      /\ m \in FieldSays
  <2>1. ps[p] # None
    BY DEF Popped
  <2>2. ps[p].up \in Seq(FieldSays) /\ ps[p].of \in Tabs
    BY <1>r, <2>1 DEF Parts
  <2>3. m \in FieldSays
    BY <2>2, TailFacts DEF Popped
  <2> QED BY <1>r, <2>1, <2>2, <2>3 DEF Parts, Popped
<1>x. /\ 1 \in 1..Len(ps[p].up)
      /\ \A e \in FieldPorts : /\ ps2[e] = None <=> ps[e] = None
                               /\ ps2[e].of = ps[e].of /\ Detaches(ps2[e]) = Detaches(ps[e])
      /\ \A e \in FieldPorts : \A i \in 1..Len(ps2[e].up) :
           /\ Moved(p, e, i) \in 1..Len(ps[e].up) /\ ps2[e].up[i] = ps[e].up[Moved(p, e, i)]
           /\ e = p => Moved(p, e, i) > 1
      /\ \A e \in FieldPorts : \A i, j \in Nat : Moved(p, e, i) = Moved(p, e, j) => i = j
  BY <1>p, PoppedFacts
<1>e. \A e \in FieldPorts : ps2[e].live = ps[e].live /\ (e # p => ps2[e] = ps[e])
  BY DEF Popped
<1>c. cap[p] # None /\ cap[p].tab = ps[p].of /\ w = cap[p].window /\ w \in Windows
  BY <1>p, <1>x DEF FieldSide, PortsShaped, Shape
<1>m. Connects(m) \/ Tells(m) => m.id \in Fields
  BY <1>p, SaysFacts
<1>h. ASSUME NEW v \in Windows, ws[v].field # None
      PROVE  /\ ws[v].field.tab \in Tabs /\ ws[v].field.id \in Fields
             /\ fps[ws[v].field.tab] \in FieldPorts /\ ps[fps[ws[v].field.tab]] # None
             /\ ps[fps[ws[v].field.tab]].of = ws[v].field.tab
             /\ cap[fps[ws[v].field.tab]].window = v
             /\ Now(ws, cap, fps, fps[ws[v].field.tab]) = ws[v].field.id
  <2>1. /\ cap[fps[ws[v].field.tab]] = [tab |-> ws[v].field.tab, window |-> v]
        /\ Now(ws, cap, fps, fps[ws[v].field.tab]) = ws[v].field.id
        /\ fps[ws[v].field.tab] # None
    BY <1>h, <1>r DEF Roles
  <2>2. ws[v].field.tab \in Tabs /\ ws[v].field.id \in Fields
    BY <1>h, <1>r DEF Parts
  <2>3. /\ fps[ws[v].field.tab] \in FieldPorts /\ ps[fps[ws[v].field.tab]] # None
        /\ ps[fps[ws[v].field.tab]].of = ws[v].field.tab
    BY <1>r, <2>1, <2>2 DEF Roles
  <2> QED BY <2>1, <2>2, <2>3
<1>n. ASSUME NEW e \in FieldPorts, e # p
      PROVE  /\ Now(ws2, cap, fps, e) = Now(ws, cap, fps, e)
             /\ Now(ws2, cap, fps, e) # None =>
                  ws2[cap[e].window].field.text = ws[cap[e].window].field.text
  <2>1. CASE cap[e] # None /\ fps[cap[e].tab] = e
    <3>1. cap[e].tab \in Tabs /\ cap[e].window \in Windows
      BY <1>r, <2>1 DEF Parts
    <3>2. CASE cap[e].window # w
      BY <3>1, <3>2 DEF Now, HoldsIn
    <3>3. CASE cap[e].window = w
      <4>1. \A v \in Windows : ws[v].field # None /\ ws[v].field.tab = cap[e].tab => v = w
        BY <1>h, <2>1, <3>3
      <4>2. ps2[w].of = ps2[w].of
        OBVIOUS
      <4>3. Now(ws, cap, fps, p) = m.id /\ m.type = "textChanged" => ws[w].field # None /\ ws[w].field.tab = ps[p].of
        BY <1>c, <1>m, <1>p DEF Now, HoldsIn, Tells
      <4>4. cap[e].tab # ps[p].of \/ e = p \/ fps[ps[p].of] # p
        BY <2>1
      <4>5. CASE ws2[w].field = ws[w].field
        BY <3>3, <4>5 DEF Now, HoldsIn
      <4>6. CASE /\ m.type = "textChanged" /\ Now(ws, cap, fps, p) = m.id
                 /\ ws2[w].field # None /\ ws2[w].field.tab = ws[w].field.tab
        <5>1. fps[ps[p].of] = p
          BY <1>c, <1>m, <1>p, <4>6 DEF Now, Tells
        <5>2. ws[w].field.tab # cap[e].tab
          BY <1>n, <4>3, <4>4, <4>6, <5>1
        <5> QED BY <3>3, <4>6, <5>2 DEF Now, HoldsIn
      <4>7. CASE /\ Connects(m) /\ fps[ps[p].of] = p /\ ws[w].field = None
                 /\ ws2[w].field # None /\ ws2[w].field.tab = ps[p].of
        <5>1. ps[p].of # cap[e].tab
          BY <1>n, <4>4, <4>7
        <5> QED BY <3>3, <4>7, <5>1 DEF Now, HoldsIn
      <4> QED BY <1>c, <4>5, <4>6, <4>7
    <3> QED BY <3>2, <3>3
  <2>2. CASE ~(cap[e] # None /\ fps[cap[e].tab] = e)
    BY <2>2 DEF Now
  <2> QED BY <2>1, <2>2
<1>o. \/ /\ Now(ws2, cap, fps, p) = None /\ Now(ws, cap, fps, p) = None
         /\ Connects(m) => fps[ps[p].of] # p
      \/ /\ m.type = "textChanged" /\ Now(ws2, cap, fps, p) = Now(ws, cap, fps, p)
         /\ ws2[w].field.text = m.text
      \/ /\ Connects(m) /\ Now(ws2, cap, fps, p) = m.id /\ ws2[w].field.text = m.text
  BY <1>c, <1>m, <1>p DEF Now, HoldsIn, Tells
<1> USE DEF FieldSide
<1>1. PortsShaped(ps2, cap)
  <2>1. Shape(ps2[p], cap[p])
    BY <1>c, <1>p, <1>x DEF PortsShaped, Shape
  <2> QED BY <1>e, <1>x, <2>1 DEF PortsShaped
<1>2. PortsInOrder(ps2, cap)
  BY <1>e, <1>x DEF PortsInOrder
<1>3. Registered(ps2, cap, fps)
  BY <1>e, <1>r DEF Registered, Parts
<1>4. OwnPorts(ps2, sc, cap, fps)
  <2> SUFFICES ASSUME NEW u \in Tabs PROVE OwnPort(ps2, sc[u], cap, fps, u)
    BY DEF OwnPorts
  <2>1. OwnPort(ps, sc[u], cap, fps, u) /\ (sc[u].port # None => sc[u].port \in FieldPorts)
    BY <1>r DEF OwnPorts, Parts
  <2>2. \A e \in FieldPorts : ps2[e] # None /\ ps2[e].of = u => ps[e] # None /\ ps[e].of = u
    BY <1>x
  <2>3. CASE sc[u].port = None
    BY <2>1, <2>3 DEF OwnPort
  <2>4. CASE sc[u].port # None
    <3> DEFINE q == sc[u].port
    <3>1. /\ q \in FieldPorts /\ ps[q] # None /\ ps[q].of = u
          /\ \A i \in 1..Len(ps[q].up) : ps[q].up[i].type # "closed"
          /\ \A e \in FieldPorts : ps[e] # None /\ ps[e].of = u => e <= q
          /\ ps[q].live /\ cap[q] # None => fps[u] = q
      BY <2>1, <2>4 DEF OwnPort
    <3> HIDE DEF q
    <3>2. /\ ps2[q] # None /\ ps2[q].of = u
          /\ \A e \in FieldPorts : ps2[e] # None /\ ps2[e].of = u => e <= q
          /\ ps2[q].live /\ cap[q] # None => fps[u] = q
      BY <1>e, <1>x, <2>2, <3>1
    <3>3. \A i \in 1..Len(ps2[q].up) : ps2[q].up[i].type # "closed"
      BY <1>x, <3>1
    <3> QED BY <2>4, <3>2, <3>3 DEF OwnPort, q
  <2> QED BY <2>3, <2>4
<1>5. Spoken(ps2, ws2, cap, fps)
  <2> SUFFICES ASSUME NEW e \in FieldPorts, ps2[e] # None
               PROVE  Speech(ps2[e].up, Now(ws2, cap, fps, e))
    BY DEF Spoken
  <2>1. Speech(ps[e].up, Now(ws, cap, fps, e))
    BY <1>x DEF Spoken
  <2>2. CASE e # p
    BY <1>e, <1>n, <2>1, <2>2
  <2>3. CASE e = p
    <3> DEFINE now == Now(ws, cap, fps, p)
    <3> DEFINE now2 == Now(ws2, cap, fps, p)
    <3>1. now2 # None => \/ now2 = now /\ ~Connects(ps[p].up[1])
                         \/ Connects(ps[p].up[1]) /\ now2 = ps[p].up[1].id
      BY <1>o DEF Connects
    <3>2. Speech(ps[p].up, now)
      BY <2>1, <2>3
    <3> HIDE DEF now, now2
    <3>3. Speech(Tail(ps[p].up), now2)
      BY <1>p, <3>1, <3>2, SpeechShrinks
    <3> QED BY <1>p, <2>3, <3>3 DEF now2
  <2> QED BY <2>2, <2>3
<1>6. Sessions(ps2, sc, ws2, cap, fps) /\ Typings(ps2, sc, ws2, cap, fps)
  <2> SUFFICES ASSUME NEW u \in Tabs, sc[u].session # None, ps2[sc[u].port].live
               PROVE  LET q == sc[u].port
                      IN  /\ Session(ps2[q].up, Detaches(ps2[q]), Now(ws2, cap, fps, q), sc[u].session)
                          /\ Typing(ps2[q].up, Now(ws2, cap, fps, q), sc[u].session,
                                    ws2[cap[q].window].field.text, sc[u].text)
    BY DEF Sessions, Typings
  <2> DEFINE q == sc[u].port
  <2> DEFINE f == sc[u].session
  <2>1. q \in FieldPorts /\ ps[q] # None /\ ps[q].of = u /\ ps[q].live /\ f # None
    BY <1>e, <1>r DEF Roles
  <2>2. /\ Session(ps[q].up, Detaches(ps[q]), Now(ws, cap, fps, q), f)
        /\ Typing(ps[q].up, Now(ws, cap, fps, q), f, ws[cap[q].window].field.text, sc[u].text)
    BY <2>1 DEF Sessions, Typings
  <2>3. q = p => fps[ps[p].of] = p
    BY <1>c, <1>p, <2>1 DEF OwnPorts, OwnPort
  <2> HIDE DEF q, f
  <2>4. CASE q # p
    <3>1. Session(ps2[q].up, Detaches(ps2[q]), Now(ws2, cap, fps, q), f)
      BY <1>e, <1>n, <2>1, <2>2, <2>4
    <3>2. Now(ws2, cap, fps, q) = f => /\ Now(ws, cap, fps, q) = f
            /\ ws2[cap[q].window].field.text = ws[cap[q].window].field.text
      BY <1>n, <2>1, <2>4
    <3>3. Typing(ps[q].up, Now(ws2, cap, fps, q), f, ws2[cap[q].window].field.text, sc[u].text)
      BY <2>2, <3>2, TypingWeaker
    <3>4. ps2[q].up = ps[q].up
      BY <1>e, <2>1, <2>4
    <3> QED BY <3>1, <3>3, <3>4 DEF q, f
  <2>5. CASE q = p
    <3> DEFINE now == Now(ws, cap, fps, p)
    <3> DEFINE now2 == Now(ws2, cap, fps, p)
    <3>1. \/ now2 = now /\ ~Connects(ps[p].up[1])
          \/ Connects(ps[p].up[1]) /\ now2 = ps[p].up[1].id
      BY <1>o, <2>3, <2>5 DEF Connects
    <3>2. IF Texted(ps[p].up[1]) THEN now2 = f => ws2[w].field.text = ps[p].up[1].text
          ELSE now2 = f => now = f /\ ws2[w].field.text = ws[w].field.text
      BY <1>o, <2>1 DEF Connects, Texted
    <3>3. /\ Session(ps[p].up, Detaches(ps[p]), now, f)
          /\ Typing(ps[p].up, now, f, ws[w].field.text, sc[u].text)
      BY <1>c, <2>2, <2>5
    <3> HIDE DEF now, now2
    <3>4. Session(Tail(ps[p].up), Detaches(ps[p]), now2, f)
      BY <1>p, <3>1, <3>3, SessionShrinks
    <3>5. Typing(Tail(ps[p].up), now2, f, ws2[w].field.text, sc[u].text)
      BY <1>p, <3>2, <3>3, TypingShrinks
    <3>6. Detaches(ps2[p]) = Detaches(ps[p])
      BY <1>x
    <3> QED BY <1>c, <1>p, <2>5, <3>4, <3>5, <3>6 DEF q, f, now2
  <2> QED BY <2>4, <2>5
<1>7. AllFollowed(ps2, sc, ws2, cap, fps, drop)
  <2>1. ASSUME NEW e \in FieldPorts, ps2[e] # None, cap[e] = None \/ fps[ps2[e].of] = e,
               NEW i \in 1..Len(ps2[e].up), Connects(ps2[e].up[i])
        PROVE  Followed(ps2[e].up, sc[ps2[e].of], drop, e, i, ps2[e].up[i].id)
    <3>1. CASE e # p
      BY <1>e, <2>1, <3>1 DEF AllFollowed
    <3>2. CASE e = p
      <4>1. i \in Nat /\ i + 1 \in 1..Len(ps[p].up) /\ ps2[p].up[i] = ps[p].up[i + 1]
        BY <1>x, <2>1, <3>2 DEF Moved
      <4>2. Followed(ps[p].up, sc[ps[p].of], drop, p, i + 1, ps2[p].up[i].id)
        BY <1>p, <1>x, <2>1, <3>2, <4>1 DEF AllFollowed
      <4>3. Followed(Tail(ps[p].up), sc[ps[p].of], drop, p, i, ps2[p].up[i].id)
        BY <1>p, <4>1, <4>2, FollowedShrinks
      <4> QED BY <1>p, <1>x, <3>2, <4>3
    <3> QED BY <3>1, <3>2
  <2>2. ASSUME NEW v \in Windows, ws2[v].field # None
        PROVE  LET u == ws2[v].field.tab
               IN  Followed(ps2[fps[u]].up, sc[u], drop, fps[u], 0, ws2[v].field.id)
    <3>1. CASE /\ ws[v].field # None /\ ws2[v].field.tab = ws[v].field.tab
               /\ ws2[v].field.id = ws[v].field.id
      <4> DEFINE u == ws[v].field.tab
      <4> DEFINE g == ws[v].field.id
      <4>1. /\ u \in Tabs /\ fps[u] \in FieldPorts /\ ps[fps[u]] # None /\ ps[fps[u]].of = u
            /\ Now(ws, cap, fps, fps[u]) = g /\ g # None
        BY <1>h, <1>p, <3>1
      <4>2. Followed(ps[fps[u]].up, sc[u], drop, fps[u], 0, g)
        BY <3>1 DEF AllFollowed
      <4>3. fps[u] = p => v = w
        BY <1>c, <1>h, <3>1
      <4> HIDE DEF u, g
      <4>4. CASE fps[u] # p
        BY <1>e, <3>1, <4>1, <4>2, <4>4 DEF u, g
      <4>5. CASE fps[u] = p
        <5>1. ~Overrides(ps[p].up[1])
          BY <3>1, <4>1, <4>3, <4>5 DEF Overrides, Connects
        <5>2. Followed(ps[p].up, sc[u], drop, p, 0, g)
          BY <4>2, <4>5
        <5>3. Followed(Tail(ps[p].up), sc[u], drop, p, 0, g)
          BY <1>p, <5>1, <5>2, FollowedShrinks
        <5> QED BY <1>p, <3>1, <4>5, <5>3 DEF u, g
      <4> QED BY <4>4, <4>5
    <3>2. CASE ~(/\ ws[v].field # None /\ ws2[v].field.tab = ws[v].field.tab
                 /\ ws2[v].field.id = ws[v].field.id)
      <4>1. /\ v = w /\ Connects(m) /\ fps[ps[p].of] = p
            /\ ws2[v].field.tab = ps[p].of /\ ws2[v].field.id = m.id
        <5>1. ws2[v].field # ws[v].field
          BY <2>2, <3>2
        <5>2. v = w
          BY <5>1
        <5>3. m.type = "textChanged" /\ Now(ws, cap, fps, p) = m.id => ws[w].field # None
          BY <1>c, <1>m, <1>p DEF Now, HoldsIn, Tells
        <5> QED BY <3>2, <5>1, <5>2, <5>3
      <4>2. Followed(ps[p].up, sc[ps[p].of], drop, p, 0 + 1, m.id)
        BY <1>p, <1>x, <4>1 DEF AllFollowed
      <4>3. Followed(Tail(ps[p].up), sc[ps[p].of], drop, p, 0, m.id)
        BY <1>p, <4>2, FollowedShrinks
      <4> QED BY <1>p, <4>1, <4>3
    <3> QED BY <3>1, <3>2
  <2> QED BY <2>1, <2>2 DEF AllFollowed
<1>8. Names(ps2, sc, ws2, con)
  <2>0. OneWindow(ws, con) /\ OneGreeting(ps, ws, con) /\ Farewells(ps, sc, con)
        /\ Detached(ps, ws, con) /\ Consented(sc, con)
    BY DEF Names
  <2>1. \A v \in Windows : ws2[v].field # None =>
          \/ ws[v].field # None /\ ws2[v].field.id = ws[v].field.id
          \/ v = w /\ Connects(m) /\ ws2[v].field.id = m.id
    <3>1. m.type = "textChanged" /\ Now(ws, cap, fps, p) = m.id => ws[w].field # None
      BY <1>c, <1>m, <1>p DEF Now, HoldsIn, Tells
    <3> QED BY <1>c, <3>1
  <2>2. Connects(m) => con[m.id] # None /\ Unheld(ws, m.id)
    BY <1>p, <1>x, <2>0 DEF OneGreeting
  <2>3. OneWindow(ws2, con)
    <3> SUFFICES ASSUME NEW v \in Windows, ws2[v].field # None
                 PROVE  /\ con[ws2[v].field.id] # None
                        /\ \A y \in Windows : ws2[y].field # None /\ ws2[y].field.id = ws2[v].field.id => y = v
      BY DEF OneWindow
    <3>1. con[ws2[v].field.id] # None
      BY <2>0, <2>1, <2>2 DEF OneWindow
    <3>2. ASSUME NEW y \in Windows, ws2[y].field # None, ws2[y].field.id = ws2[v].field.id
          PROVE  y = v
      BY <2>0, <2>1, <2>2, <3>2 DEF OneWindow, Unheld
    <3> QED BY <3>1, <3>2
  <2>4. ASSUME NEW g \in Fields, Unheld(ws, g), Connects(m) => m.id # g
        PROVE  Unheld(ws2, g)
    BY <2>1, <2>4 DEF Unheld
  <2>5. OneGreeting(ps2, ws2, con)
    <3> SUFFICES ASSUME NEW e \in FieldPorts, ps2[e] # None,
                        NEW i \in 1..Len(ps2[e].up), Connects(ps2[e].up[i])
                 PROVE  /\ con[ps2[e].up[i].id] # None /\ Unheld(ws2, ps2[e].up[i].id)
                        /\ \A q \in FieldPorts : ps2[q] # None =>
                             \A j \in 1..Len(ps2[q].up) :
                               Connects(ps2[q].up[j]) /\ ps2[q].up[j].id = ps2[e].up[i].id => q = e /\ j = i
      BY DEF OneGreeting
    <3> DEFINE k == Moved(p, e, i)
    <3>1. /\ ps[e] # None /\ k \in 1..Len(ps[e].up) /\ ps2[e].up[i] = ps[e].up[k]
          /\ (e = p => k > 1)
      BY <1>x
    <3> HIDE DEF k
    <3>2. /\ con[ps[e].up[k].id] # None /\ Unheld(ws, ps[e].up[k].id) /\ ps[e].up[k].id \in Fields
      BY <1>r, <2>0, <3>1, SaysFacts DEF OneGreeting, Parts
    <3>3. Connects(m) => m.id # ps[e].up[k].id
      <4> SUFFICES ASSUME Connects(m), m.id = ps[e].up[k].id PROVE FALSE
        OBVIOUS
      <4>1. e = p /\ k = 1
        BY <1>p, <1>x, <2>0, <3>1, GreetedOnce
      <4> QED BY <3>1, <4>1
    <3>4. ASSUME NEW q \in FieldPorts, ps2[q] # None, NEW j \in 1..Len(ps2[q].up),
                 Connects(ps2[q].up[j]), ps2[q].up[j].id = ps2[e].up[i].id
          PROVE  q = e /\ j = i
      <4> DEFINE h == Moved(p, q, j)
      <4>1. ps[q] # None /\ h \in 1..Len(ps[q].up) /\ ps2[q].up[j] = ps[q].up[h]
        BY <1>x, <3>4
      <4> HIDE DEF h
      <4>2. q = e /\ h = k
        BY <2>0, <3>1, <3>4, <4>1, GreetedOnce
      <4>3. i \in Nat /\ j \in Nat
        OBVIOUS
      <4> QED BY <1>x, <4>2, <4>3 DEF h, k
    <3> QED BY <2>4, <3>1, <3>2, <3>3, <3>4
  <2>6. Farewells(ps2, sc, con)
    <3> SUFFICES ASSUME NEW e \in FieldPorts, ps2[e] # None, NEW i \in 1..Len(ps2[e].up),
                        ps2[e].up[i].type = "fieldDisconnected"
                 PROVE  con[ps2[e].up[i].id] # None /\ sc[ps2[e].of].session # ps2[e].up[i].id
      BY DEF Farewells
    <3> DEFINE k == Moved(p, e, i)
    <3>1. /\ ps[e] # None /\ ps2[e].of = ps[e].of
          /\ k \in 1..Len(ps[e].up) /\ ps2[e].up[i] = ps[e].up[k]
      BY <1>x
    <3> HIDE DEF k
    <3> QED BY <2>0, <3>1 DEF Farewells
  <2>7. Detached(ps2, ws2, con)
    <3> SUFFICES ASSUME NEW e \in FieldPorts, ps2[e] # None, NEW g \in Detaches(ps2[e])
                 PROVE  con[g] # None /\ Unheld(ws2, g) /\ Unconnected(ps2, g)
      BY DEF Detached
    <3>0. g \in Fields
      BY DEF Detaches
    <3>1. con[g] # None /\ Unheld(ws, g) /\ Unconnected(ps, g)
      BY <1>x, <2>0, <3>0 DEF Detached
    <3>2. Connects(m) => m.id # g
      BY <1>p, <1>x, <3>1 DEF Unconnected
    <3>3. Unconnected(ps2, g)
      <4> SUFFICES ASSUME NEW q \in FieldPorts, ps2[q] # None, NEW j \in 1..Len(ps2[q].up),
                          Connects(ps2[q].up[j])
                   PROVE  ps2[q].up[j].id # g
        BY DEF Unconnected
      <4> DEFINE h == Moved(p, q, j)
      <4>1. ps[q] # None /\ h \in 1..Len(ps[q].up) /\ ps2[q].up[j] = ps[q].up[h]
        BY <1>x
      <4> HIDE DEF h
      <4> QED BY <3>1, <4>1 DEF Unconnected
    <3> QED BY <2>4, <3>0, <3>1, <3>2, <3>3
  <2> QED BY <2>0, <2>3, <2>5, <2>6, <2>7 DEF Names
<1>9. Housed(ws2, cap, fps)
  <2> SUFFICES ASSUME NEW v \in Windows, ws2[v].field # None
               PROVE  /\ fps[ws2[v].field.tab] # None
                      /\ cap[fps[ws2[v].field.tab]] = [tab |-> ws2[v].field.tab, window |-> v]
    BY DEF Housed
  <2>1. CASE ws[v].field # None /\ ws2[v].field.tab = ws[v].field.tab
    BY <1>r, <2>1 DEF Roles
  <2>2. CASE ~(ws[v].field # None /\ ws2[v].field.tab = ws[v].field.tab)
    <3>1. m.type = "textChanged" /\ Now(ws, cap, fps, p) = m.id => ws[w].field # None
      BY <1>c, <1>m, <1>p DEF Now, HoldsIn, Tells
    <3>2. v = w /\ Connects(m) /\ fps[ps[p].of] = p /\ ws2[v].field.tab = ps[p].of
      BY <1>c, <2>2, <3>1
    <3>3. cap[p] \in [tab : Tabs, window : Windows]
      BY <1>c DEF Typed
    <3>4. cap[p] = [tab |-> ps[p].of, window |-> v]
      BY <1>c, <3>2, <3>3
    <3> QED BY <1>p, <3>2, <3>4
  <2> QED BY <2>1, <2>2
<1> QED BY <1>1, <1>2, <1>3, <1>4, <1>5, <1>6, <1>7, <1>8, <1>9

-----------------------------------------------------------------------------
(* The worker hears the first word of a field port, or the last, when it    *)
(* has let go of the tab's field.                                           *)
EdgeStep(ps, ws, cap, fps, p, m, t, ps2, cap2, fps2) ==
  /\ Popped(ps, ps2, p) /\ m = ps[p].up[1] /\ t = ps[p].of
  /\ \A e \in FieldPorts : e # p => cap2[e] = cap[e]
  /\ \A u \in Tabs : u # t => fps2[u] = fps[u]
  /\ \A v \in Windows : ws[v].field # None /\ ws[v].field.tab = t => fps2[t] = fps[t] /\ fps[t] # p
  /\ \/ /\ m.type = "open" /\ ps2[p].live = ps[p].live
        /\ cap2[p] # None /\ cap2[p].tab = t /\ fps2[t] = p
        /\ \A e \in FieldPorts : e < p /\ ps[e] # None /\ ps[e].of = t => ~IsFirst(ps[e])
     \/ /\ m.type = "closed" /\ ps2[p].live = FALSE /\ cap2[p] = cap[p]
        /\ fps2[t] = IF fps[t] = p THEN None ELSE fps[t]
LEMMA EdgeKeeps ==
  ASSUME NEW ps, NEW sc, NEW ws, NEW cap, NEW fps, NEW con, NEW drop,
         FieldSide(ps, sc, ws, cap, fps, con, drop),
         NEW p \in FieldPorts, NEW m, NEW t, NEW ps2, NEW cap2, NEW fps2,
         Typed(ps2, sc, ws, cap2, fps2, con, drop),
         EdgeStep(ps, ws, cap, fps, p, m, t, ps2, cap2, fps2)
  PROVE  FieldSide(ps2, sc, ws, cap2, fps2, con, drop)
<1> USE DEF Idx, EdgeStep
<1>r. /\ Parts(ps, sc, ws, cap, fps) /\ Roles(ps, sc, ws, cap, fps)
      /\ Parts(ps2, sc, ws, cap2, fps2)
  BY TypedFacts, SideFacts DEF FieldSide
<1>p. /\ None \notin Fields /\ None \notin Tabs /\ None \notin FieldPorts /\ FieldPorts \subseteq Nat
      /\ ps[p] # None /\ t \in Tabs /\ p # None
      /\ ps[p].up \in Seq(FieldSays) /\ ps[p].up # <<>> /\ ps2[p].up = Tail(ps[p].up)
      /\ m \in FieldSays
  <2>1. ps[p] # None
    BY DEF Popped
  <2>2. ps[p].up \in Seq(FieldSays) /\ ps[p].of \in Tabs
    BY <1>r, <2>1 DEF Parts
  <2>3. m \in FieldSays
    BY <2>2, TailFacts DEF Popped
  <2> QED BY <1>r, <2>1, <2>2, <2>3 DEF Parts, Popped
<1>x. /\ 1 \in 1..Len(ps[p].up)
      /\ \A e \in FieldPorts : /\ ps2[e] = None <=> ps[e] = None
                               /\ ps2[e].of = ps[e].of /\ Detaches(ps2[e]) = Detaches(ps[e])
      /\ \A e \in FieldPorts : \A i \in 1..Len(ps2[e].up) :
           /\ Moved(p, e, i) \in 1..Len(ps[e].up) /\ ps2[e].up[i] = ps[e].up[Moved(p, e, i)]
           /\ e = p => Moved(p, e, i) > 1
      /\ \A e \in FieldPorts : \A i, j \in Nat : Moved(p, e, i) = Moved(p, e, j) => i = j
  BY <1>p, PoppedFacts
<1>e. \A e \in FieldPorts : e # p => ps2[e] = ps[e]
  BY DEF Popped
<1>l. \A e \in FieldPorts : ps[e] # None /\ ps2[e].live => ps[e].live
  BY <1>e, <1>p
<1>s. Shape(ps[p], cap[p])
  BY <1>p DEF FieldSide, PortsShaped
<1>c. /\ m.type = "open" => cap[p] = None /\ ps[p].live
      /\ m.type = "closed" => cap[p] # None /\ cap[p].tab = t
      /\ ~Connects(m) /\ ~Tells(m) /\ ~Texted(m)
  BY <1>p, <1>s, <1>x DEF Shape, Connects, Tells, Texted
<1>f. ASSUME NEW v \in Windows, ws[v].field # None
      PROVE  /\ ws[v].field.tab \in Tabs /\ ws[v].field.id \in Fields
             /\ fps[ws[v].field.tab] \in FieldPorts /\ fps[ws[v].field.tab] # p
             /\ fps2[ws[v].field.tab] = fps[ws[v].field.tab]
             /\ cap2[fps[ws[v].field.tab]] = cap[fps[ws[v].field.tab]]
             /\ cap[fps[ws[v].field.tab]] = [tab |-> ws[v].field.tab, window |-> v]
             /\ ps[fps[ws[v].field.tab]] # None /\ ps[fps[ws[v].field.tab]].of = ws[v].field.tab
  <2> DEFINE u == ws[v].field.tab
  <2>1. cap[fps[u]] = [tab |-> u, window |-> v] /\ fps[u] # None
    BY <1>f, <1>r DEF Roles
  <2>2. u \in Tabs /\ ws[v].field.id \in Fields
    BY <1>f, <1>r DEF Parts
  <2>3. fps[u] \in FieldPorts /\ ps[fps[u]] # None /\ ps[fps[u]].of = u
    BY <1>r, <2>1, <2>2 DEF Roles
  <2>4. fps2[u] = fps[u] /\ fps[u] # p
    <3>1. CASE u = t
      BY <1>f, <3>1
    <3>2. CASE u # t
      BY <2>2, <2>3, <3>2
    <3> QED BY <3>1, <3>2
  <2> QED BY <2>1, <2>2, <2>3, <2>4
<1>n. ASSUME NEW e \in FieldPorts
      PROVE  /\ Now(ws, cap2, fps2, e) = Now(ws, cap, fps, e)
             /\ Now(ws, cap, fps, e) # None => cap2[e] = cap[e]
  <2>1. CASE Now(ws, cap, fps, e) # None
    <3>1. /\ cap[e] # None /\ fps[cap[e].tab] = e /\ cap[e].window \in Windows
          /\ ws[cap[e].window].field # None /\ ws[cap[e].window].field.tab = cap[e].tab
      BY <1>r, <2>1 DEF Roles, HoldsIn, Parts
    <3>2. fps2[cap[e].tab] = e /\ cap2[e] = cap[e]
      BY <1>f, <3>1
    <3> QED BY <3>1, <3>2 DEF Now
  <2>2. CASE Now(ws, cap2, fps2, e) # None
    <3>1. /\ cap2[e] # None /\ fps2[cap2[e].tab] = e /\ cap2[e].window \in Windows
          /\ ws[cap2[e].window].field # None /\ ws[cap2[e].window].field.tab = cap2[e].tab
      BY <1>r, <2>2 DEF Now, HoldsIn, Parts
    <3>2. fps[cap2[e].tab] = e /\ cap2[e] = cap[e]
      <4> DEFINE v == cap2[e].window
      <4>1. /\ v \in Windows /\ ws[v].field # None /\ ws[v].field.tab = cap2[e].tab
        BY <3>1
      <4> HIDE DEF v
      <4>2. /\ fps2[cap2[e].tab] = fps[cap2[e].tab]
            /\ cap2[fps[cap2[e].tab]] = cap[fps[cap2[e].tab]]
        BY <1>f, <4>1
      <4> QED BY <3>1, <4>2
    <3> QED BY <3>1, <3>2 DEF Now
  <2> QED BY <2>1, <2>2
<1> USE DEF FieldSide
<1>1. PortsShaped(ps2, cap2)
  <2>1. Shape(ps2[p], cap2[p])
    <3>1. \A i \in 1..Len(ps2[p].up) : ps2[p].up[i].type # "open"
      BY <1>c, <1>p, <1>s, <1>x DEF Shape, Moved
    <3>2. cap2[p] # None /\ cap2[p].tab = t /\ ps2[p].of = t
      BY <1>c, <1>x
    <3> QED BY <3>1, <3>2 DEF Shape
  <2> QED BY <1>e, <1>p, <1>x, <2>1 DEF PortsShaped
<1>2. PortsInOrder(ps2, cap2)
  <2> SUFFICES ASSUME NEW d \in FieldPorts, NEW e \in FieldPorts,
                      cap2[d] # None, ps2[e] # None, e < d, ps2[e].of = ps2[d].of, cap2[e] = None
               PROVE  ~ps2[e].live
    BY DEF PortsInOrder
  <2>1. e # p /\ cap[e] = None /\ ps[e] # None /\ ps[e].of = ps[d].of /\ ps2[e] = ps[e]
    BY <1>c, <1>e, <1>x
  <2>2. CASE d # p
    <3>1. cap[d] # None
      BY <2>2
    <3> QED BY <2>1, <3>1 DEF PortsInOrder
  <2>3. CASE d = p /\ m.type = "closed"
    BY <1>c, <2>1, <2>3 DEF PortsInOrder
  <2>4. CASE d = p /\ m.type = "open"
    <3>1. ~IsFirst(ps[e]) /\ Shape(ps[e], cap[e]) /\ ps[e].up \in Seq(FieldSays)
      BY <1>r, <2>1, <2>4 DEF PortsShaped, Parts
    <3>2. ps[e].up # <<>> => Head(ps[e].up) = ps[e].up[1] /\ 1 \in 1..Len(ps[e].up)
      BY <3>1, TailFacts
    <3>3. ps[e].up = <<>>
      BY <2>1, <3>1, <3>2 DEF Shape, IsFirst, FirstWords
    <3> QED BY <2>1, <3>1, <3>3 DEF Shape
  <2> QED BY <1>c, <2>2, <2>3, <2>4
<1>3. Registered(ps2, cap2, fps2)
  <2> SUFFICES ASSUME NEW u \in Tabs, fps2[u] # None
               PROVE  cap2[fps2[u]] # None /\ cap2[fps2[u]].tab = u /\ ps2[fps2[u]].live
    BY DEF Registered
  <2>1. fps[u] # None => /\ fps[u] \in FieldPorts /\ ps[fps[u]].of = u /\ ps[fps[u]].live
                         /\ cap[fps[u]] # None /\ cap[fps[u]].tab = u
    BY <1>r DEF Roles
  <2>2. CASE fps2[u] = p /\ u = t
    BY <1>c, <1>p, <2>2
  <2>3. CASE ~(fps2[u] = p /\ u = t)
    <3>1. fps2[u] = fps[u] /\ fps[u] # p
      BY <2>1, <2>3
    <3> QED BY <1>e, <2>1, <3>1
  <2> QED BY <2>2, <2>3
<1>o. \A u \in Tabs : sc[u].port = p => m.type # "closed"
  BY <1>p, <1>x DEF OwnPorts, OwnPort
<1>4. OwnPorts(ps2, sc, cap2, fps2)
  <2> SUFFICES ASSUME NEW u \in Tabs PROVE OwnPort(ps2, sc[u], cap2, fps2, u)
    BY DEF OwnPorts
  <2>1. OwnPort(ps, sc[u], cap, fps, u) /\ (sc[u].port # None => sc[u].port \in FieldPorts)
    BY <1>r DEF OwnPorts, Parts
  <2>2. \A e \in FieldPorts : ps2[e] # None /\ ps2[e].of = u => ps[e] # None /\ ps[e].of = u
    BY <1>x
  <2>3. CASE sc[u].port = None
    BY <2>1, <2>3 DEF OwnPort
  <2>4. CASE sc[u].port # None
    <3> DEFINE q == sc[u].port
    <3>1. /\ q \in FieldPorts /\ ps[q] # None /\ ps[q].of = u
          /\ \A i \in 1..Len(ps[q].up) : ps[q].up[i].type # "closed"
          /\ \A e \in FieldPorts : ps[e] # None /\ ps[e].of = u => e <= q
          /\ ps[q].live /\ cap[q] # None => fps[u] = q
      BY <2>1, <2>4 DEF OwnPort
    <3>o. q = p => m.type # "closed"
      BY <1>o
    <3> HIDE DEF q
    <3>2. /\ ps2[q] # None /\ ps2[q].of = u
          /\ \A e \in FieldPorts : ps2[e] # None /\ ps2[e].of = u => e <= q
      BY <1>x, <2>2, <3>1
    <3>3. ASSUME NEW i \in 1..Len(ps2[q].up) PROVE ps2[q].up[i].type # "closed"
      <4>1. Moved(p, q, i) \in 1..Len(ps[q].up) /\ ps2[q].up[i] = ps[q].up[Moved(p, q, i)]
        BY <1>x, <3>1
      <4> QED BY <3>1, <4>1
    <3>4. ps2[q].live /\ cap2[q] # None => fps2[u] = q
      <4>1. CASE q = p
        BY <3>1, <3>o, <4>1
      <4>2. CASE q # p /\ u # t
        BY <1>e, <3>1, <4>2
      <4>3. CASE q # p /\ u = t /\ m.type = "closed"
        BY <1>e, <3>1, <4>3
      <4>4. CASE q # p /\ u = t /\ m.type = "open"
        <5>1. p < q /\ ps[p].of = ps[q].of
          BY <1>p, <3>1, <4>4
        <5>2. cap[q] # None => FALSE
          BY <1>c, <1>p, <3>1, <4>4, <5>1 DEF PortsInOrder
        <5>3. cap2[q] = cap[q]
          BY <3>1, <4>4
        <5> QED BY <5>2, <5>3
      <4> QED BY <4>1, <4>2, <4>3, <4>4
    <3> QED BY <2>4, <3>2, <3>3, <3>4 DEF OwnPort, q
  <2> QED BY <2>3, <2>4
<1>5. Spoken(ps2, ws, cap2, fps2)
  <2> SUFFICES ASSUME NEW e \in FieldPorts, ps2[e] # None
               PROVE  Speech(ps2[e].up, Now(ws, cap2, fps2, e))
    BY DEF Spoken
  <2> DEFINE now == Now(ws, cap, fps, e)
  <2>1. Speech(ps[e].up, now) /\ Now(ws, cap2, fps2, e) = now
    BY <1>n, <1>x DEF Spoken
  <2> HIDE DEF now
  <2>2. CASE e # p
    BY <1>e, <2>1, <2>2
  <2>3. CASE e = p
    <3>1. Speech(Tail(ps[p].up), now)
      BY <1>c, <1>p, <2>1, <2>3, SpeechShrinks
    <3> QED BY <1>p, <2>1, <2>3, <3>1
  <2> QED BY <2>2, <2>3
<1>6. Sessions(ps2, sc, ws, cap2, fps2) /\ Typings(ps2, sc, ws, cap2, fps2)
  <2> SUFFICES ASSUME NEW u \in Tabs, sc[u].session # None, ps2[sc[u].port].live
               PROVE  LET q == sc[u].port
                      IN  /\ Session(ps2[q].up, Detaches(ps2[q]), Now(ws, cap2, fps2, q), sc[u].session)
                          /\ Typing(ps2[q].up, Now(ws, cap2, fps2, q), sc[u].session,
                                    ws[cap2[q].window].field.text, sc[u].text)
    BY DEF Sessions, Typings
  <2> DEFINE q == sc[u].port
  <2> DEFINE f == sc[u].session
  <2>1. q \in FieldPorts /\ ps[q] # None /\ ps[q].of = u /\ f # None
    BY <1>r DEF Roles
  <2>2. ps[q].live
    BY <1>l, <2>1
  <2>3. /\ Session(ps[q].up, Detaches(ps[q]), Now(ws, cap, fps, q), f)
        /\ Typing(ps[q].up, Now(ws, cap, fps, q), f, ws[cap[q].window].field.text, sc[u].text)
    BY <2>2 DEF Sessions, Typings
  <2> HIDE DEF q, f
  <2>4. Now(ws, cap2, fps2, q) = Now(ws, cap, fps, q) /\ Detaches(ps2[q]) = Detaches(ps[q])
    BY <1>n, <1>x, <2>1
  <2>5. Now(ws, cap, fps, q) = f => ws[cap2[q].window].field.text = ws[cap[q].window].field.text
    BY <1>n, <2>1
  <2>6. Typing(ps[q].up, Now(ws, cap, fps, q), f, ws[cap2[q].window].field.text, sc[u].text)
    BY <2>3, <2>5, TypingWeaker
  <2>7. CASE q # p
    <3>1. ps2[q].up = ps[q].up
      BY <1>e, <2>1, <2>7
    <3> QED BY <2>3, <2>4, <2>6, <3>1 DEF q, f
  <2>8. CASE q = p
    <3> DEFINE now == Now(ws, cap, fps, p)
    <3> DEFINE known == ws[cap2[p].window].field.text
    <3>1. Session(ps[p].up, Detaches(ps[p]), now, f) /\ Typing(ps[p].up, now, f, known, sc[u].text)
      BY <2>3, <2>6, <2>8
    <3>2. ~Connects(ps[p].up[1]) /\ ~Texted(ps[p].up[1])
      BY <1>c
    <3> HIDE DEF now, known
    <3>3. Session(Tail(ps[p].up), Detaches(ps[p]), now, f)
      BY <1>p, <3>1, <3>2, SessionShrinks
    <3>4. Typing(Tail(ps[p].up), now, f, known, sc[u].text)
      BY <1>p, <3>1, <3>2, TypingShrinks
    <3> QED BY <1>p, <2>4, <2>8, <3>3, <3>4 DEF q, f, now, known
  <2> QED BY <2>7, <2>8
<1>7. AllFollowed(ps2, sc, ws, cap2, fps2, drop)
  <2>1. ASSUME NEW e \in FieldPorts, ps2[e] # None, cap2[e] = None \/ fps2[ps2[e].of] = e,
               NEW i \in 1..Len(ps2[e].up), Connects(ps2[e].up[i])
        PROVE  Followed(ps2[e].up, sc[ps2[e].of], drop, e, i, ps2[e].up[i].id)
    <3>1. CASE e # p
      <4>1. ps[e] # None /\ ps2[e] = ps[e] /\ ps[e].of \in Tabs
        BY <1>e, <1>r, <2>1, <3>1 DEF Parts
      <4>2. cap[e] = None \/ fps2[ps[e].of] = e
        BY <2>1, <3>1, <4>1
      <4>3. fps2[ps[e].of] = e => fps[ps[e].of] = e
        BY <1>p, <3>1, <4>1
      <4> QED BY <2>1, <4>1, <4>2, <4>3 DEF AllFollowed
    <3>2. CASE e = p
      <4>0. cap[p] = None
        BY <1>c, <1>p, <1>x, <2>1, <3>2
      <4>1. i \in Nat /\ i + 1 \in 1..Len(ps[p].up) /\ ps2[p].up[i] = ps[p].up[i + 1]
        BY <1>x, <2>1, <3>2 DEF Moved
      <4>2. Followed(ps[p].up, sc[ps[p].of], drop, p, i + 1, ps2[p].up[i].id)
        BY <1>p, <2>1, <3>2, <4>0, <4>1 DEF AllFollowed
      <4>3. Followed(Tail(ps[p].up), sc[ps[p].of], drop, p, i, ps2[p].up[i].id)
        BY <1>p, <4>1, <4>2, FollowedShrinks
      <4> QED BY <1>p, <1>x, <3>2, <4>3
    <3> QED BY <3>1, <3>2
  <2>2. ASSUME NEW v \in Windows, ws[v].field # None
        PROVE  LET u == ws[v].field.tab
               IN  Followed(ps2[fps2[u]].up, sc[u], drop, fps2[u], 0, ws[v].field.id)
    <3> DEFINE u == ws[v].field.tab
    <3>1. fps[u] \in FieldPorts /\ fps[u] # p /\ fps2[u] = fps[u]
      BY <1>f, <2>2
    <3>2. Followed(ps[fps[u]].up, sc[u], drop, fps[u], 0, ws[v].field.id)
      BY <2>2 DEF AllFollowed
    <3> QED BY <1>e, <3>1, <3>2
  <2> QED BY <2>1, <2>2 DEF AllFollowed
<1>8. Names(ps2, sc, ws, con)
  <2>0. OneWindow(ws, con) /\ OneGreeting(ps, ws, con) /\ Farewells(ps, sc, con)
        /\ Detached(ps, ws, con) /\ Consented(sc, con)
    BY DEF Names
  <2>5. OneGreeting(ps2, ws, con)
    <3> SUFFICES ASSUME NEW e \in FieldPorts, ps2[e] # None,
                        NEW i \in 1..Len(ps2[e].up), Connects(ps2[e].up[i])
                 PROVE  /\ con[ps2[e].up[i].id] # None /\ Unheld(ws, ps2[e].up[i].id)
                        /\ \A q \in FieldPorts : ps2[q] # None =>
                             \A j \in 1..Len(ps2[q].up) :
                               Connects(ps2[q].up[j]) /\ ps2[q].up[j].id = ps2[e].up[i].id => q = e /\ j = i
      BY DEF OneGreeting
    <3> DEFINE k == Moved(p, e, i)
    <3>1. /\ ps[e] # None /\ k \in 1..Len(ps[e].up) /\ ps2[e].up[i] = ps[e].up[k]
      BY <1>x
    <3> HIDE DEF k
    <3>2. con[ps[e].up[k].id] # None /\ Unheld(ws, ps[e].up[k].id)
      BY <2>0, <3>1 DEF OneGreeting
    <3>4. ASSUME NEW q \in FieldPorts, ps2[q] # None, NEW j \in 1..Len(ps2[q].up),
                 Connects(ps2[q].up[j]), ps2[q].up[j].id = ps2[e].up[i].id
          PROVE  q = e /\ j = i
      <4> DEFINE h == Moved(p, q, j)
      <4>1. ps[q] # None /\ h \in 1..Len(ps[q].up) /\ ps2[q].up[j] = ps[q].up[h]
        BY <1>x, <3>4
      <4> HIDE DEF h
      <4>2. q = e /\ h = k
        BY <2>0, <3>1, <3>4, <4>1, GreetedOnce
      <4>3. i \in Nat /\ j \in Nat
        OBVIOUS
      <4> QED BY <1>x, <4>2, <4>3 DEF h, k
    <3> QED BY <3>1, <3>2, <3>4
  <2>6. Farewells(ps2, sc, con)
    <3> SUFFICES ASSUME NEW e \in FieldPorts, ps2[e] # None, NEW i \in 1..Len(ps2[e].up),
                        ps2[e].up[i].type = "fieldDisconnected"
                 PROVE  con[ps2[e].up[i].id] # None /\ sc[ps2[e].of].session # ps2[e].up[i].id
      BY DEF Farewells
    <3> DEFINE k == Moved(p, e, i)
    <3>1. /\ ps[e] # None /\ ps2[e].of = ps[e].of
          /\ k \in 1..Len(ps[e].up) /\ ps2[e].up[i] = ps[e].up[k]
      BY <1>x
    <3> HIDE DEF k
    <3> QED BY <2>0, <3>1 DEF Farewells
  <2>7. Detached(ps2, ws, con)
    <3> SUFFICES ASSUME NEW e \in FieldPorts, ps2[e] # None, NEW g \in Detaches(ps2[e])
                 PROVE  con[g] # None /\ Unheld(ws, g) /\ Unconnected(ps2, g)
      BY DEF Detached
    <3>1. con[g] # None /\ Unheld(ws, g) /\ Unconnected(ps, g)
      BY <1>x, <2>0 DEF Detached
    <3>3. Unconnected(ps2, g)
      <4> SUFFICES ASSUME NEW q \in FieldPorts, ps2[q] # None, NEW j \in 1..Len(ps2[q].up),
                          Connects(ps2[q].up[j])
                   PROVE  ps2[q].up[j].id # g
        BY DEF Unconnected
      <4> DEFINE h == Moved(p, q, j)
      <4>1. ps[q] # None /\ h \in 1..Len(ps[q].up) /\ ps2[q].up[j] = ps[q].up[h]
        BY <1>x
      <4> HIDE DEF h
      <4> QED BY <3>1, <4>1 DEF Unconnected
    <3> QED BY <3>1, <3>3
  <2> QED BY <2>0, <2>5, <2>6, <2>7 DEF Names
<1>9. Housed(ws, cap2, fps2)
  BY <1>f, <1>p DEF Housed
<1> QED BY <1>1, <1>2, <1>3, <1>4, <1>5, <1>6, <1>7, <1>8, <1>9

-----------------------------------------------------------------------------
(* The worker dies.                                                         *)
DieStep(ps, ps2, ws2, fps2) ==
  /\ \A e \in FieldPorts : ps2[e] = None <=> ps[e] = None
  /\ \A e \in FieldPorts : ps[e] # None =>
       /\ ps2[e].of = ps[e].of /\ ps2[e].live = FALSE /\ ps2[e].up = <<>>
       /\ Detaches(ps2[e]) = Detaches(ps[e])
  /\ \A w \in Windows : ws2[w].field = None
  /\ \A t \in Tabs : fps2[t] = None
LEMMA DieKeeps ==
  ASSUME NEW ps, NEW sc, NEW ws, NEW cap, NEW fps, NEW con, NEW drop,
         FieldSide(ps, sc, ws, cap, fps, con, drop),
         NEW ps2, NEW ws2, NEW fps2, Typed(ps2, sc, ws2, cap, fps2, con, drop),
         DieStep(ps, ps2, ws2, fps2)
  PROVE  FieldSide(ps2, sc, ws2, cap, fps2, con, drop)
<1> USE DEF Idx, DieStep
<1>r. Parts(ps, sc, ws, cap, fps) /\ Roles(ps, sc, ws, cap, fps)
  BY TypedFacts, SideFacts DEF FieldSide
<1> USE DEF FieldSide
<1>0. \A e \in FieldPorts : ps2[e] # None =>
        /\ ps[e] # None /\ ps2[e].of = ps[e].of /\ ~ps2[e].live /\ ps2[e].up = <<>>
        /\ Detaches(ps2[e]) = Detaches(ps[e]) /\ 1..Len(ps2[e].up) = {}
  OBVIOUS
<1>1. PortsShaped(ps2, cap)
  BY <1>0 DEF PortsShaped, Shape
<1>2. PortsInOrder(ps2, cap)
  BY <1>0 DEF PortsInOrder
<1>3. Registered(ps2, cap, fps2)
  BY DEF Registered
<1>4. OwnPorts(ps2, sc, cap, fps2)
  <2> SUFFICES ASSUME NEW u \in Tabs PROVE OwnPort(ps2, sc[u], cap, fps2, u)
    BY DEF OwnPorts
  <2>1. OwnPort(ps, sc[u], cap, fps, u) /\ (sc[u].port # None => sc[u].port \in FieldPorts)
    BY <1>r DEF OwnPorts, Parts
  <2>2. \A e \in FieldPorts : ps2[e] # None /\ ps2[e].of = u => ps[e] # None /\ ps[e].of = u
    BY <1>0
  <2> QED BY <1>0, <2>1, <2>2 DEF OwnPort
<1>5. Spoken(ps2, ws2, cap, fps2)
  BY <1>0 DEF Spoken, Speech
<1>6. Sessions(ps2, sc, ws2, cap, fps2) /\ Typings(ps2, sc, ws2, cap, fps2)
  <2> SUFFICES ASSUME NEW u \in Tabs, sc[u].session # None PROVE ~ps2[sc[u].port].live
    BY DEF Sessions, Typings
  <2>1. sc[u].port \in FieldPorts /\ ps[sc[u].port] # None
    BY <1>r DEF Roles
  <2> QED BY <1>0, <2>1
<1>7. AllFollowed(ps2, sc, ws2, cap, fps2, drop)
  BY <1>0 DEF AllFollowed
<1>8. Names(ps2, sc, ws2, con)
  <2>1. OneWindow(ws2, con) /\ OneGreeting(ps2, ws2, con) /\ Farewells(ps2, sc, con)
    BY <1>0 DEF OneWindow, OneGreeting, Farewells
  <2>2. Detached(ps2, ws2, con)
    BY <1>0 DEF Names, Detached, Unheld, Unconnected
  <2>3. Consented(sc, con)
    BY DEF Names
  <2> QED BY <2>1, <2>2, <2>3 DEF Names
<1>9. Housed(ws2, cap, fps2)
  BY DEF Housed
<1> QED BY <1>1, <1>2, <1>3, <1>4, <1>5, <1>6, <1>7, <1>8, <1>9
=============================================================================
