----------------------------- MODULE Extension -----------------------------
(***************************************************************************)
(* The browser extension as a whole: the content script of each tab, the   *)
(* service worker, and the side panel with its embed of each window, over  *)
(* ports that keep the order of their own messages and no other.           *)
(*                                                                         *)
(* The user connects fields, types, stops, moves tabs, opens, closes and   *)
(* reloads panels and changes the server; a page replaces or loses its     *)
(* field; the worker dies.  A change of the server reaches the worker, the *)
(* scripts and the panels as storage events of their own, in any order.    *)
(*                                                                         *)
(* clients/browser-extension/src/{scout,session,relay,panel}.ts, and the   *)
(* field of frontend/src/embed/hostDoc.ts.                                 *)
(***************************************************************************)
EXTENDS FieldRegistry, Sequences, FiniteSetsExt

CONSTANTS
  MaxMoves,   \* bound on what users and pages do
  MaxFaults,  \* bound on dead workers, reloaded embeds, changed servers
  Acts        \* what happens in this instance besides connecting and panels

AllActs == {"type", "stop", "vanish", "navigate", "drag", "reload", "server", "die", "disconnect"}

ASSUME BoundsAssumption ==
  /\ {MaxMoves, MaxFaults} \subseteq Nat
  /\ Acts \subseteq AllActs
  /\ Windows # {} /\ \A X \in {FieldPorts, PanelPorts, Fields} : X \subseteq Nat
  /\ Texts \subseteq Nat /\ 0 \in Texts /\ None \notin Nat

VARIABLES
  location,  \* the window of a tab
  scout,     \* scout.ts of a tab: its port, its session, the grace window
  ports,     \* a field port's tab and what is under way on it
  panel,     \* panel.ts and relay.ts of a window, with the embed behind it
  lines,     \* a panel port's window and what is under way on it
  server,    \* how often the server was changed
  unheard,   \* who has not yet heard of the last change
  consent,   \* the server a field was connected for by its user
  dropped,   \* history: fields whose script dropped them at a change of the server
  moves, faults

clientVars == <<location, scout, ports, panel, lines, server, unheard, consent, dropped>>
allVars == <<registryState, clientVars, moves, faults>>

Servers == 0..MaxFaults
Scout == [port : FieldPorts \cup {None}, session : Fields \cup {None},
          seeking : BOOLEAN, text : Texts, since : Servers]
Panel == [open : BOOLEAN, port : PanelPorts \cup {None}, ready : BOOLEAN, button : BOOLEAN,
          server : Servers, shown : View \cup {None}]
(* What scripts and panels say, and what they are told.                     *)
FieldSays ==
  [type : {"open"}, window : Windows] \cup [type : {"closed"}] \cup
  [type : {"fieldConnected", "textChanged"}, id : Fields, text : Texts] \cup
  [type : {"fieldDisconnected"}, id : Fields]
FieldIsTold == [type : {"detach"}, id : Fields] \cup [type : {"disconnect"}]
PanelSpeaks ==
  [type : {"panelHello", "closed", "disconnect"}] \cup [type : {"embedReady"}, ready : BOOLEAN]
PanelIsTold ==
  [type : {"fieldConnected", "textChanged"}, id : Fields, text : Texts] \cup
  [type : {"fieldDisconnected"}, id : Fields]
PortWire == [of : Tabs, live : BOOLEAN, up : Seq(FieldSays), down : Seq(FieldIsTold)]
LineWire == [of : Windows, live : BOOLEAN, up : Seq(PanelSpeaks), down : Seq(PanelIsTold)]
ASSUME WiresAssumption == None \notin PortWire \cup LineWire

Wire(x) == [of |-> x, live |-> TRUE, up |-> <<>>, down |-> <<>>]
Worker == "worker"
NoPanel == [open |-> FALSE, port |-> None, ready |-> FALSE, button |-> FALSE,
            server |-> 0, shown |-> None]
Loading == [NoPanel EXCEPT !.open = TRUE]
NoScout == [port |-> None, session |-> None, seeking |-> FALSE, text |-> 0, since |-> 0]

ClientTypeOK ==
  /\ location \in [Tabs -> Windows]
  /\ scout \in [Tabs -> Scout]
  /\ panel \in [Windows -> Panel]
  /\ ports \in [FieldPorts -> PortWire \cup {None}]
  /\ lines \in [PanelPorts -> LineWire \cup {None}]
  /\ server \in Servers
  /\ unheard \subseteq {Worker} \cup Tabs \cup Windows
  /\ consent \in [Fields -> Servers \cup {None}]
  /\ dropped \subseteq Fields

-----------------------------------------------------------------------------
Fresh(f) == {x \in DOMAIN f : f[x] = None}
Next1(f) == Min(Fresh(f))
Acting(act) == act \in Acts /\ moves < MaxMoves /\ moves' = moves + 1 /\ UNCHANGED faults
Moving == moves < MaxMoves /\ moves' = moves + 1 /\ UNCHANGED faults
Failing(act) == act \in Acts /\ faults < MaxFaults /\ faults' = faults + 1 /\ UNCHANGED moves
Running == UNCHANGED <<moves, faults>>

(* A dead port swallows what is sent on it.                                 *)
Said(wire, ms) == IF wire.live THEN [wire EXCEPT !.up = @ \o ms] ELSE wire

(* ensurePort and send: messages of tab t, on a new port if it has none.    *)
CanSend(t) == scout[t].port # None \/ Fresh(ports) # {}
PortOf(t) == IF scout[t].port # None THEN scout[t].port ELSE Next1(ports)
SentBy(t, ms) ==
  LET p == PortOf(t)
      open == [type |-> "open", window |-> location[t]]
  IN  [ports EXCEPT ![p] = IF scout[t].port # None THEN Said(ports[p], ms)
                           ELSE Said(Wire(t), <<open>> \o ms)]

ConnectedMsg(f, x) == [type |-> "fieldConnected", id |-> f, text |-> x]
DisconnectedMsg(f) == [type |-> "fieldDisconnected", id |-> f]
Stopping(t) == IF scout[t].session = None THEN <<>> ELSE <<DisconnectedMsg(scout[t].session)>>
Closed == [type |-> "closed"]

-----------------------------------------------------------------------------
ExtensionInit ==
  /\ Init
  /\ location \in [Tabs -> Windows]
  /\ scout = [t \in Tabs |-> NoScout]
  /\ ports = [p \in FieldPorts |-> None]
  /\ panel = [w \in Windows |-> NoPanel]
  /\ lines = [q \in PanelPorts |-> None]
  /\ server = 0
  /\ unheard = {}
  /\ consent = [f \in Fields |-> None]
  /\ dropped = {}
  /\ moves = 0
  /\ faults = 0

(* scout.ts.  Beside some definitions stand the mistakes the properties are *)
(* tried against (LateGoodbye and so on).                                    *)
LateGoodbye(t, f) == <<ConnectedMsg(f, 0)>> \o Stopping(t)
Greeting(t, f) == <<ConnectedMsg(f, 0)>>

\* A click on the chip of a field that is not connected takes the tab over
\* from whatever it was connected to, without a word.
Connect(t) ==
  LET f == Next1(consent)
  IN  /\ Moving
      /\ Fresh(consent) # {} /\ CanSend(t)
      /\ consent' = [consent EXCEPT ![f] = server]
      /\ ports' = SentBy(t, Greeting(t, f))
      /\ scout' = [scout EXCEPT ![t] = [port |-> PortOf(t), session |-> f, seeking |-> FALSE,
                                        text |-> 0, since |-> server]]
      /\ UNCHANGED <<registryState, location, panel, lines, server, unheard, dropped>>

Hover(t) ==
  /\ Moving
  /\ scout[t].port = None /\ CanSend(t)
  /\ ports' = SentBy(t, <<>>)
  /\ scout' = [scout EXCEPT ![t].port = PortOf(t)]
  /\ UNCHANGED <<registryState, location, panel, lines, server, unheard, consent, dropped>>

\* The user's own disconnect, by the chip or on behalf of the panel.
StopSession(t) ==
  /\ ports' = SentBy(t, Stopping(t))
  /\ scout' = [scout EXCEPT ![t].session = None, ![t].seeking = FALSE]

Stop(t) ==
  /\ Acting("stop")
  /\ scout[t].session # None \/ scout[t].seeking
  /\ scout[t].port # None
  /\ StopSession(t)
  /\ UNCHANGED <<registryState, location, panel, lines, server, unheard, consent, dropped>>

Type(t) ==
  LET x == scout[t].text + 1
  IN  /\ Acting("type")
      /\ scout[t].session # None /\ x \in Texts
      /\ ports' = SentBy(t, <<[type |-> "textChanged", id |-> scout[t].session, text |-> x]>>)
      /\ scout' = [scout EXCEPT ![t].text = x]
      /\ UNCHANGED <<registryState, location, panel, lines, server, unheard, consent, dropped>>

\* The page takes the field away: the session stops itself and the script
\* looks for a replacement for a while.
Vanish(t) ==
  /\ Acting("vanish")
  /\ scout[t].session # None
  /\ ports' = SentBy(t, Stopping(t))
  /\ scout' = [scout EXCEPT ![t].session = None, ![t].seeking = TRUE]
  /\ UNCHANGED <<registryState, location, panel, lines, server, unheard, consent, dropped>>

Reacquire(t) ==
  LET f == Next1(consent)
  IN  /\ Running
      /\ scout[t].seeking
      /\ Fresh(consent) # {} /\ CanSend(t)
      /\ consent' = [consent EXCEPT ![f] = scout[t].since]
      /\ ports' = SentBy(t, Greeting(t, f))
      /\ scout' = [scout EXCEPT ![t] = [port |-> PortOf(t), session |-> f, seeking |-> FALSE,
                                        text |-> 0, since |-> scout[t].since]]
      /\ UNCHANGED <<registryState, location, panel, lines, server, unheard, dropped>>

GiveUp(t) ==
  /\ Running
  /\ scout[t].seeking
  /\ scout' = [scout EXCEPT ![t].seeking = FALSE]
  /\ UNCHANGED <<registryState, location, ports, panel, lines, server, unheard, consent, dropped>>

\* pagehide: the page goes to the back/forward cache or is left.
Navigate(t) ==
  LET p == scout[t].port
  IN  /\ Acting("navigate")
      /\ p # None
      /\ ports' = [ports EXCEPT ![p] = [Said(@, Stopping(t) \o <<Closed>>) EXCEPT !.down = <<>>]]
      /\ scout' = [scout EXCEPT ![t] = NoScout]
      /\ UNCHANGED <<registryState, location, panel, lines, server, unheard, consent, dropped>>

Drag(t) ==
  /\ Acting("drag")
  /\ \E w \in Windows \ {location[t]} : location' = [location EXCEPT ![t] = w]
  /\ UNCHANGED <<registryState, scout, ports, panel, lines, server, unheard, consent, dropped>>

\* A detach names its field; a disconnect stops whatever is connected.
AnyDetach(t, m) == TRUE
IsDetached(t, m) == m.id = scout[t].session
ScoutHears(t) ==
  LET p == scout[t].port
      m == Head(ports[p].down)
      heard == [ports EXCEPT ![p].down = Tail(@)]
  IN  /\ Running
      /\ p # None /\ ports[p].down # <<>>
      /\ \/ /\ m.type = "detach"
            /\ scout' = IF IsDetached(t, m)
                          THEN [scout EXCEPT ![t].session = None] ELSE scout
            /\ ports' = heard
         \/ /\ m.type = "disconnect"
            /\ scout' = [scout EXCEPT ![t].session = None, ![t].seeking = FALSE]
            /\ ports' = [heard EXCEPT ![p] = Said(@, Stopping(t))]
      /\ UNCHANGED <<registryState, location, panel, lines, server, unheard, consent, dropped>>

ScoutPortGone(t) ==
  LET p == scout[t].port
  IN  /\ Running
      /\ p # None /\ ~ports[p].live /\ ports[p].down = <<>>
      /\ scout' = [scout EXCEPT ![t] = NoScout]
      /\ UNCHANGED <<registryState, location, ports, panel, lines, server, unheard, consent, dropped>>

Lost(t) == {scout[t].session} \ {None}

\* The session ends without a word: the worker drops its field by itself.
ScoutServer(t) ==
  /\ Running
  /\ t \in unheard
  /\ unheard' = unheard \ {t}
  /\ dropped' = dropped \cup Lost(t)
  /\ scout' = [scout EXCEPT ![t].session = None, ![t].seeking = FALSE]
  /\ UNCHANGED <<registryState, location, ports, panel, lines, server, consent>>

-----------------------------------------------------------------------------
(* panel.ts and relay.ts.                                                   *)
PanelOpens(w) ==
  /\ Moving
  /\ ~panel[w].open
  /\ panel' = [panel EXCEPT ![w] = Loading]
  /\ UNCHANGED <<registryState, location, scout, ports, lines, server, unheard, consent, dropped>>

PanelLoads(w) ==
  LET q == Next1(lines)
      hi == <<[type |-> "panelHello"]>>
  IN  /\ Running
      /\ panel[w].open /\ panel[w].port = None /\ Fresh(lines) # {}
      /\ panel' = [panel EXCEPT ![w].port = q, ![w].server = server]
      /\ lines' = [lines EXCEPT ![q] = Said(Wire(w), hi)]
      /\ unheard' = unheard \ {w}
      /\ UNCHANGED <<registryState, location, scout, ports, server, consent, dropped>>

\* The panel page is gone; a reload opens it again.
Leaves(w, next) ==
  /\ panel[w].port # None
  /\ panel' = [panel EXCEPT ![w] = next]
  /\ lines' = [lines EXCEPT ![panel[w].port] = [Said(@, <<Closed>>) EXCEPT !.down = <<>>]]
  /\ unheard' = unheard \ {w}
  /\ UNCHANGED <<registryState, location, scout, ports, server, consent, dropped>>

PanelCloses(w) == Moving /\ Leaves(w, NoPanel)
PanelServer(w) == Running /\ w \in unheard /\ Leaves(w, Loading)
PanelPortGone(w) ==
  LET q == panel[w].port
  IN  Running /\ q # None /\ ~lines[q].live /\ lines[q].down = <<>> /\ Leaves(w, Loading)

PanelSays(w, m) == lines' = [lines EXCEPT ![panel[w].port] = Said(@, <<m>>)]

EmbedReadies(w) ==
  /\ Running
  /\ panel[w].port # None /\ ~panel[w].ready
  /\ panel' = [panel EXCEPT ![w].ready = TRUE]
  /\ PanelSays(w, [type |-> "embedReady", ready |-> TRUE])
  /\ UNCHANGED <<registryState, location, scout, ports, server, unheard, consent, dropped>>

EmbedReloads(w) ==
  /\ Failing("reload")
  /\ panel[w].port # None /\ panel[w].ready
  /\ panel' = [panel EXCEPT ![w].ready = FALSE, ![w].shown = None, ![w].button = FALSE]
  /\ PanelSays(w, [type |-> "embedReady", ready |-> FALSE])
  /\ UNCHANGED <<registryState, location, scout, ports, server, unheard, consent, dropped>>

ButtonAfter(m, lit) ==
  IF m.type = "textChanged" THEN lit ELSE m.type = "fieldConnected"

\* An embed that is still loading may miss what the relay passes on to it.
PanelHears(w) ==
  LET q == panel[w].port
      m == Head(lines[q].down)
  IN  /\ Running
      /\ q # None /\ lines[q].down # <<>>
      /\ lines' = [lines EXCEPT ![q].down = Tail(@)]
      /\ \E shown \in {Shown(m, panel[w].shown)}
                         \cup (IF panel[w].ready THEN {} ELSE {panel[w].shown}) :
           panel' = [panel EXCEPT ![w].shown = shown, ![w].button = ButtonAfter(m, @)]
      /\ UNCHANGED <<registryState, location, scout, ports, server, unheard, consent, dropped>>

PanelDisconnect(w) ==
  /\ Acting("disconnect")
  /\ panel[w].port # None /\ panel[w].button
  /\ PanelSays(w, [type |-> "disconnect"])
  /\ UNCHANGED <<registryState, location, scout, ports, panel, server, unheard, consent, dropped>>

-----------------------------------------------------------------------------
(* sw.ts: the worker hears one message, and what it answers is under way.   *)
Onto(wire, m) == IF wire.live THEN [wire EXCEPT !.down = Append(@, m)] ELSE wire
Heard(wire, m) ==
  [wire EXCEPT !.up = Tail(@), !.live = @ /\ m.type # "closed"]
ToTab(r, p) ==
  {x \in r.tabs : fieldPorts[x.tab] = p /\ scout[x.tab].port = p}
\* A tab is in one window at most, so a port is told one thing at most.
PortsAfter(heard, r) ==
  [p \in FieldPorts |-> IF ToTab(r, p) = {} THEN heard[p]
                        ELSE Onto(heard[p], (CHOOSE x \in ToTab(r, p) : TRUE).msg)]
LinesAfter(heard, r) ==
  LET w == r.panel.window
      q == panelPorts[w]
  IN  IF Reaches(r) /\ panel[w].port = q
        THEN [heard EXCEPT ![q] = Onto(@, r.panel.msg)] ELSE heard
Answers(fieldsHeard, panelsHeard, r) ==
  /\ ports' = PortsAfter(fieldsHeard, r)
  /\ lines' = LinesAfter(panelsHeard, r)
  /\ UNCHANGED <<location, scout, panel, server, unheard, consent, dropped>>

(* Ports of one tab are opened in order, and so are the panels of a window. *)
FirstWords == {"open", "panelHello"}
IsFirst(wire) == wire.up # <<>> /\ Head(wire.up).type \in FirstWords
InTurn(wires, x) ==
  IsFirst(wires[x]) =>
    \A e \in DOMAIN wires : e < x /\ wires[e] # None /\ wires[e].of = wires[x].of
                             => ~IsFirst(wires[e])

WorkerHearsField(p) ==
  LET t == ports[p].of
      m == Head(ports[p].up)
      heard == [ports EXCEPT ![p] = Heard(@, m)]
  IN  /\ Running
      /\ ports[p] # None /\ ports[p].up # <<>> /\ InTurn(ports, p)
      /\ CASE m.type = "open" ->
                  /\ Answers(heard, lines, OnFieldPortOpens(t, m.window))
                  /\ Execute(OnFieldPortOpens(t, m.window))
                  /\ captured' = [captured EXCEPT ![p] = [tab |-> t, window |-> m.window]]
                  /\ fieldPorts' = [fieldPorts EXCEPT ![t] = p]
                  /\ UNCHANGED <<panelPorts, hello>>
           [] m.type = "closed" ->
                  /\ Answers(heard, lines, OnFieldPortCloses(p))
                  /\ FieldPortCloses(p)
           [] OTHER ->
                  /\ Answers(heard, lines, OnFieldMessage(p, m))
                  /\ Execute(OnFieldMessage(p, m))
                  /\ UNCHANGED portVars

WorkerHearsPanel(q) ==
  LET w == lines[q].of
      m == Head(lines[q].up)
      heard == [lines EXCEPT ![q] = Heard(@, m)]
  IN  /\ Running
      /\ lines[q] # None /\ lines[q].up # <<>> /\ InTurn(lines, q)
      /\ CASE m.type = "panelHello" ->
                  /\ Answers(ports, heard, Nothing)
                  /\ PanelHello(q, w)
           [] m.type = "closed" ->
                  /\ Answers(ports, heard, Nothing)
                  /\ IF PanelPortCurrent(q) THEN PanelPortCloses(q) ELSE UNCHANGED registryState
           [] OTHER ->
                  /\ Answers(ports, heard, OnPanelMessage(q, m))
                  /\ PanelPortSays(q, m)

WorkerServer ==
  /\ Running
  /\ Worker \in unheard
  /\ ServerUrlChanged
  /\ unheard' = unheard \ {Worker}
  /\ ports' = PortsAfter(ports, ServerChanged)
  /\ UNCHANGED <<location, scout, panel, lines, server, consent, dropped>>

\* The ports of a dead worker close; what was on its way to it is lost.
WorkerDown ==
  /\ Failing("die")
  /\ WorkerDies
  /\ ports' = [p \in FieldPorts |-> IF ports[p] = None THEN None
                                     ELSE [ports[p] EXCEPT !.live = FALSE, !.up = <<>>]]
  /\ lines' = [q \in PanelPorts |-> IF lines[q] = None THEN None
                                     ELSE [lines[q] EXCEPT !.live = FALSE, !.up = <<>>]]
  /\ UNCHANGED <<location, scout, panel, server, unheard, consent, dropped>>

ChangeServer ==
  /\ Failing("server")
  /\ server' = server + 1
  /\ unheard' = {Worker} \cup Tabs \cup {w \in Windows : panel[w].port # None}
  /\ UNCHANGED <<registryState, location, scout, ports, panel, lines, consent, dropped>>

TabNext(t) ==
  \/ Connect(t) \/ Hover(t) \/ Stop(t) \/ Type(t) \/ Vanish(t) \/ Reacquire(t) \/ GiveUp(t)
  \/ Navigate(t) \/ Drag(t) \/ ScoutHears(t) \/ ScoutPortGone(t) \/ ScoutServer(t)
PanelNext(w) ==
  \/ PanelOpens(w) \/ PanelLoads(w) \/ PanelCloses(w) \/ PanelServer(w) \/ PanelPortGone(w)
  \/ EmbedReadies(w) \/ EmbedReloads(w) \/ PanelHears(w) \/ PanelDisconnect(w)
WorkerNext ==
  \/ \E p \in FieldPorts : WorkerHearsField(p)
  \/ \E q \in PanelPorts : WorkerHearsPanel(q)
  \/ WorkerServer \/ WorkerDown

ExtensionNext ==
  \/ \E t \in Tabs : TabNext(t)
  \/ \E w \in Windows : PanelNext(w)
  \/ WorkerNext \/ ChangeServer

ExtensionSpec == ExtensionInit /\ [][ExtensionNext]_allVars

-----------------------------------------------------------------------------
(* Whatever the scripts and panels send in whatever order, the worker makes *)
(* the steps of FieldRegistry and no other: the assumptions made there of   *)
(* what ports say hold of the scripts and panels that say it.               *)
ImplementsRegistry == Spec

Quiet ==
  /\ unheard = {}
  /\ \A t \in Tabs : ~scout[t].seeking
  /\ \A p \in FieldPorts : ports[p] # None =>
       ports[p].up = <<>> /\ ports[p].down = <<>>
       /\ (~ports[p].live => scout[ports[p].of].port # p)
  /\ \A w \in Windows : panel[w].open => panel[w].ready
  /\ \A q \in PanelPorts : lines[q] # None =>
       lines[q].up = <<>> /\ lines[q].down = <<>>
       /\ (~lines[q].live => panel[lines[q].of].port # q)

(* When all is said, the field a script is connected with is the one the    *)
(* worker has for its tab, and the worker has no other, except what scripts *)
(* dropped by themselves at a change of the server.                         *)
SessionsAgree ==
  Quiet => \A t \in Tabs :
    /\ scout[t].session # None =>
         \E w \in Windows : Holds(w, t) /\ windows[w].field.id = scout[t].session
    /\ \A w \in Windows : Holds(w, t) /\ windows[w].field.id \notin dropped =>
         windows[w].field.id = scout[t].session

(* When all is said, an embed shows the field its window is connected with, *)
(* with the text that stands in it on the page, and none is left standing   *)
(* unless something failed on the way.                                      *)
EmbedAgrees ==
  Quiet => \A w \in Windows : panel[w].ready =>
    LET field == windows[w].field
    IN  IF field = None THEN faults = 0 => panel[w].shown = None /\ ~panel[w].button
        ELSE /\ panel[w].shown # None /\ panel[w].shown.id = field.id
             /\ field.id \notin dropped => panel[w].shown.text = scout[field.tab].text
=============================================================================
