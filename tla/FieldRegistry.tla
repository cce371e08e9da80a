--------------------------- MODULE FieldRegistry ---------------------------
(***************************************************************************)
(* The service worker of the browser extension: which text field of which  *)
(* tab a side panel works on, one of each per window.                      *)
(*                                                                         *)
(* registry.ts is a state machine whose operations return effects; here an *)
(* operation is an expression for the next state of the registry and what  *)
(* it sends.  sw.ts calls them from port events, and the browser orders    *)
(* the events of one port and nothing else: a port that was replaced may   *)
(* still speak, and closes whenever it likes.                              *)
(*                                                                         *)
(* clients/browser-extension/src/{registry,sw}.ts.                         *)
(***************************************************************************)
EXTENDS Naturals, FiniteSets

CONSTANTS
  Windows, Tabs,
  FieldPorts, PanelPorts,  \* a port is opened once
  Fields, Texts,           \* the ids of connected fields, what stands in them
  None

ASSUME SetsAssumption ==
  /\ None \notin Windows \cup Tabs \cup FieldPorts \cup PanelPorts \cup Fields
  /\ None \notin [tab : Tabs, id : Fields, text : Texts] \cup [id : Fields, text : Texts]
                \cup [tab : Tabs, window : Windows]

VARIABLES
  windows,     \* registry.ts: the field of a window, and whether its panel is ready
  fieldPorts,  \* sw.ts: the port of a tab's content script
  panelPorts,  \* sw.ts: the port of a window's panel
  captured,    \* the tab and the window a field port had when it was opened
  hello,       \* the window a panel port named in its panelHello
  badge,       \* whether a count stands on a tab's icon; the browser keeps it
  told,        \* history: the field the embed behind a panel knows
  lapsed,      \* history: windows whose panel still shows a field that a change
               \* of the server took away
  stuck        \* history: tabs whose badge a dead worker left behind

registryVars == <<windows, badge>>
portVars == <<fieldPorts, panelPorts, captured, hello>>
historyVars == <<told, lapsed, stuck>>
registryState == <<registryVars, portVars, historyVars>>

FieldState == [tab : Tabs, id : Fields, text : Texts]
View == [id : Fields, text : Texts]
FieldMessages ==
  [type : {"fieldConnected", "textChanged"}, id : Fields, text : Texts] \cup
  [type : {"fieldDisconnected", "answer"}, id : Fields]
PanelMessages ==
  [type : {"embedReady"}, ready : BOOLEAN] \cup [type : {"disconnect"}] \cup
  [type : {"status"}, count : BOOLEAN] \cup [type : {"request"}, id : Fields]

TypeOK ==
  /\ windows \in [Windows -> [field : FieldState \cup {None}, panelReady : BOOLEAN]]
  /\ fieldPorts \in [Tabs -> FieldPorts \cup {None}]
  /\ panelPorts \in [Windows -> PanelPorts \cup {None}]
  /\ captured \in [FieldPorts -> [tab : Tabs, window : Windows] \cup {None}]
  /\ hello \in [PanelPorts -> Windows \cup {None}]
  /\ badge \in [Tabs -> BOOLEAN]
  /\ told \in [Windows -> View \cup {None}]
  /\ lapsed \in SUBSET Windows
  /\ stuck \in SUBSET Tabs

-----------------------------------------------------------------------------
(* registry.ts.  An operation yields the next windows and badges, at most   *)
(* one message for a panel, and messages for tabs.                          *)
Result(ws, lights, panel, tabs) ==
  [windows |-> ws, badge |-> lights, panel |-> panel, tabs |-> tabs]
NoMessage == [window |-> None, msg |-> None]
Nothing == Result(windows, badge, NoMessage, {})
Window(field, ready) == [field |-> field, panelReady |-> ready]
WithField(w, field) ==
  [windows EXCEPT ![w] = Window(field, windows[w].panelReady)]

Holds(w, t) == windows[w].field # None /\ windows[w].field.tab = t
ToPanel(w, m) == IF windows[w].panelReady THEN [window |-> w, msg |-> m] ELSE NoMessage
ToField(w, m) == {[tab |-> windows[w].field.tab, msg |-> m]}
Connected(field) == [type |-> "fieldConnected", id |-> field.id, text |-> field.text]
Disconnected(field) == [type |-> "fieldDisconnected", id |-> field.id]
Detach(field) == [type |-> "detach", id |-> field.id]

\* Beside some definitions stand the mistakes the properties are tried against
\* (TextUnread and so on); nothing uses them.
Unlit(field) == IF field = None THEN badge ELSE [badge EXCEPT ![field.tab] = FALSE]

FieldOf(t, m) == [tab |-> t, id |-> m.id, text |-> m.text]
FieldConnected(w, t, m) ==
  LET old == windows[w].field
  IN  Result(WithField(w, FieldOf(t, m)),
             Unlit(old),
             ToPanel(w, m),
             IF old # None /\ old.tab # t THEN ToField(w, Detach(old)) ELSE {})

TextUnread(w, m) == IF windows[w].panelReady THEN m.text ELSE windows[w].field.text
TextRead(w, m) == m.text
TextChanged(w, t, m) ==
  IF Holds(w, t)
    THEN Result(WithField(w, [tab |-> t, id |-> windows[w].field.id, text |-> TextRead(w, m)]),
                badge, ToPanel(w, m), {})
    ELSE Nothing

Cleared(w, m) ==
  Result(WithField(w, None), Unlit(windows[w].field), ToPanel(w, m), {})

HostRelay(w, t, m) ==
  IF ~Holds(w, t) THEN Nothing
  ELSE IF m.type = "fieldDisconnected" THEN Cleared(w, m)
  ELSE Result(windows, badge, ToPanel(w, m), {})

FieldPortGone(w, t) ==
  IF Holds(w, t) THEN Cleared(w, Disconnected(windows[w].field)) ELSE Nothing

EmbedRelay(w, m) ==
  LET field == windows[w].field
  IN  IF field = None THEN Nothing
      ELSE IF m.type = "status"
        THEN Result(windows, [badge EXCEPT ![field.tab] = m.count], NoMessage,
                    ToField(w, [type |-> "status", id |-> field.id, count |-> m.count]))
        ELSE Result(windows, badge, NoMessage, ToField(w, m))

PanelReady(w, ready) ==
  IF windows[w].panelReady = ready THEN Nothing
  ELSE Result([windows EXCEPT ![w] = Window(windows[w].field, ready)], badge,
              IF ready /\ windows[w].field # None
                THEN [window |-> w, msg |-> Connected(windows[w].field)] ELSE NoMessage,
              {})

DisconnectRequested(w) ==
  IF windows[w].field = None THEN Nothing
  ELSE Result(windows, badge, NoMessage,
              ToField(w, [type |-> "disconnect"]))

ServerChanged ==
  LET held == {w \in Windows : windows[w].field # None}
  IN  Result([w \in Windows |-> Window(None, windows[w].panelReady)],
             [t \in Tabs |-> badge[t] /\ \A w \in held : windows[w].field.tab # t],
             NoMessage,
             UNION {ToField(w, Detach(windows[w].field)) : w \in held})

-----------------------------------------------------------------------------
(* The effects: what a panel port is told, and what is known of it.  Only   *)
(* a registered port receives anything.                                     *)
Shown(m, known) ==
  IF m.type = "fieldConnected" THEN [id |-> m.id, text |-> m.text]
  ELSE IF known = None \/ m.type \notin {"textChanged", "fieldDisconnected"} THEN known
  ELSE IF known.id # m.id THEN known
  ELSE IF m.type = "textChanged" THEN [id |-> m.id, text |-> m.text] ELSE None

Reaches(r) == r.panel.window # None /\ panelPorts[r.panel.window] # None

\* A reloaded embed or a new panel knows nothing: w is its window.
Execute(r) ==
  /\ windows' = r.windows
  /\ badge' = r.badge
  /\ told' = IF Reaches(r)
               THEN [told EXCEPT ![r.panel.window] = Shown(r.panel.msg, told[r.panel.window])]
               ELSE told
  /\ lapsed' = IF Reaches(r) /\ r.panel.msg.type = "fieldConnected"
                 THEN lapsed \ {r.panel.window} ELSE lapsed
  /\ stuck' = {t \in stuck : r.badge[t]}

ExecuteForgetting(w, r) ==
  /\ windows' = r.windows
  /\ badge' = r.badge
  /\ told' = [told EXCEPT ![w] = None]
  /\ lapsed' = lapsed \ {w}
  /\ UNCHANGED stuck

-----------------------------------------------------------------------------
(* sw.ts.  What a port says is heard only while it is the registered one.   *)
FieldPortCurrent(p) == captured[p] # None /\ fieldPorts[captured[p].tab] = p
PanelPortCurrent(p) == hello[p] # None /\ panelPorts[hello[p]] = p

OnFieldMessage(p, m) ==
  LET w == captured[p].window
      t == captured[p].tab
  IN  IF ~FieldPortCurrent(p) THEN Nothing
      ELSE IF m.type = "fieldConnected" THEN FieldConnected(w, t, m)
      ELSE IF m.type = "textChanged" THEN TextChanged(w, t, m)
      ELSE HostRelay(w, t, m)

OnPanelMessage(p, m) ==
  LET w == hello[p]
  IN  IF ~PanelPortCurrent(p) THEN Nothing
      ELSE IF m.type = "embedReady" THEN PanelReady(w, m.ready)
      ELSE IF m.type = "disconnect" THEN DisconnectRequested(w)
      ELSE EmbedRelay(w, m)

\* A replaced port's field goes under the window that port was opened in.
Evicted(p, w) == FieldPortGone(captured[p].window, captured[p].tab)
OnFieldPortOpens(t, w) ==
  IF fieldPorts[t] = None THEN Nothing ELSE Evicted(fieldPorts[t], w)

OnFieldPortCloses(p) ==
  IF FieldPortCurrent(p) THEN FieldPortGone(captured[p].window, captured[p].tab) ELSE Nothing

\* A new panel of the window takes the place of a registered one.
NotReadyYet(p, w) == IF panelPorts[w] \in {None, p} THEN Nothing ELSE PanelReady(w, FALSE)

-----------------------------------------------------------------------------
Init ==
  /\ windows = [w \in Windows |-> Window(None, FALSE)]
  /\ fieldPorts = [t \in Tabs |-> None]
  /\ panelPorts = [w \in Windows |-> None]
  /\ captured = [p \in FieldPorts |-> None]
  /\ hello = [p \in PanelPorts |-> None]
  /\ badge = [t \in Tabs |-> FALSE]
  /\ told = [w \in Windows |-> None]
  /\ lapsed = {}
  /\ stuck = {}

FieldPortOpens(p, t, w) ==
  /\ captured[p] = None
  /\ Execute(OnFieldPortOpens(t, w))
  /\ captured' = [captured EXCEPT ![p] = [tab |-> t, window |-> w]]
  /\ fieldPorts' = [fieldPorts EXCEPT ![t] = p]
  /\ UNCHANGED <<panelPorts, hello>>

\* The content script of a tab has one session at a time and tells of no other.
Speaks(p, m) ==
  m.type \in {"textChanged", "fieldDisconnected"} /\ FieldPortCurrent(p)
  /\ Holds(captured[p].window, captured[p].tab)
    => windows[captured[p].window].field.id = m.id

FieldPortSays(p, m) ==
  /\ captured[p] # None
  /\ Speaks(p, m)
  /\ Execute(OnFieldMessage(p, m))
  /\ UNCHANGED portVars

FieldPortCloses(p) ==
  /\ captured[p] # None
  /\ Execute(OnFieldPortCloses(p))
  /\ fieldPorts' = IF FieldPortCurrent(p)
                     THEN [fieldPorts EXCEPT ![captured[p].tab] = None] ELSE fieldPorts
  /\ UNCHANGED <<panelPorts, captured, hello>>

\* A panel says hello once, before anything else.
PanelHello(p, w) ==
  /\ hello[p] = None
  /\ ExecuteForgetting(w, NotReadyYet(p, w))
  /\ hello' = [hello EXCEPT ![p] = w]
  /\ panelPorts' = [panelPorts EXCEPT ![w] = p]
  /\ UNCHANGED <<fieldPorts, captured>>

PanelPortSays(p, m) ==
  /\ hello[p] # None
  /\ IF PanelPortCurrent(p) /\ m = [type |-> "embedReady", ready |-> FALSE]
       THEN ExecuteForgetting(hello[p], OnPanelMessage(p, m))
       ELSE Execute(OnPanelMessage(p, m))
  /\ UNCHANGED portVars

PanelPortCloses(p) ==
  /\ PanelPortCurrent(p)
  /\ ExecuteForgetting(hello[p], PanelReady(hello[p], FALSE))
  /\ panelPorts' = [panelPorts EXCEPT ![hello[p]] = None]
  /\ UNCHANGED <<fieldPorts, captured, hello>>

ServerUrlChanged ==
  /\ windows' = ServerChanged.windows
  /\ badge' = ServerChanged.badge
  /\ lapsed' = lapsed \cup {w \in Windows : told[w] # None}
  /\ stuck' = {t \in stuck : badge'[t]}
  /\ UNCHANGED <<told, portVars>>

\* The worker is suspended or crashes: its maps are gone and its ports closed.
WorkerDies ==
  /\ windows' = [w \in Windows |-> Window(None, FALSE)]
  /\ fieldPorts' = [t \in Tabs |-> None]
  /\ panelPorts' = [w \in Windows |-> None]
  /\ told' = [w \in Windows |-> None]
  /\ lapsed' = {}
  /\ stuck' = stuck \cup {t \in Tabs : badge[t]}
  /\ UNCHANGED <<badge, captured, hello>>

Next ==
  \/ ServerUrlChanged \/ WorkerDies
  \/ \E p \in FieldPorts :
       \/ FieldPortCloses(p)
       \/ \E t \in Tabs, w \in Windows : FieldPortOpens(p, t, w)
       \/ \E m \in FieldMessages : FieldPortSays(p, m)
  \/ \E p \in PanelPorts :
       \/ PanelPortCloses(p)
       \/ \E w \in Windows : PanelHello(p, w)
       \/ \E m \in PanelMessages : PanelPortSays(p, m)

Spec == Init /\ [][Next]_registryState

-----------------------------------------------------------------------------
(* A field is in the window its tab's registered port was opened in, so a   *)
(* tab that moved to another window leaves no ghost behind.                 *)
FieldHasItsPort ==
  \A w \in Windows : windows[w].field # None =>
    LET p == fieldPorts[windows[w].field.tab]
    IN  p # None /\ captured[p] = [tab |-> windows[w].field.tab, window |-> w]

(* The embed behind a ready panel knows exactly the field and the text the  *)
(* registry holds, whatever was replaced, reloaded or late; after a change  *)
(* of the server it may show the old field until its panel has reloaded.    *)
PanelMatchesRegistry ==
  \A w \in Windows : w \notin lapsed =>
    told[w] = IF windows[w].panelReady /\ windows[w].field # None
                THEN [id |-> windows[w].field.id, text |-> windows[w].field.text]
                ELSE None

(* Only a connected field lights the icon of its tab, unless the worker     *)
(* died with the count on it.                                               *)
BadgeMeansField ==
  \A t \in Tabs : badge[t] /\ t \notin stuck => \E w \in Windows : Holds(w, t)
=============================================================================
