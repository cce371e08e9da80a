-------------------------- MODULE Extension_proofs --------------------------
(***************************************************************************)
(* The browser extension, for any windows, tabs, ports, fields and texts,  *)
(* and any number of moves and faults.                                     *)
(*                                                                         *)
(* First the registry by itself, as FieldRegistry states it with what it   *)
(* assumes of ports.  Then the scripts and the panels that speak on the    *)
(* ports: they keep what it assumes, so the worker makes the steps of      *)
(* FieldRegistry and no other, and in the end they agree with it.          *)
(***************************************************************************)
EXTENDS ExtensionPorts_proofs

-----------------------------------------------------------------------------
(* The registry. *)
(* What ties the maps of sw.ts to the closures of the ports' handlers.      *)
PortsKnowTheirTab ==
  \A t \in Tabs : fieldPorts[t] # None =>
    captured[fieldPorts[t]] # None /\ captured[fieldPorts[t]].tab = t
PanelsKnowTheirWindow ==
  \A w \in Windows : panelPorts[w] # None => hello[panelPorts[w]] = w
ReadyHasItsPanel ==
  \A w \in Windows : windows[w].panelReady => panelPorts[w] # None
LapsedShowsTheOldField ==
  \A w \in lapsed : windows[w].panelReady /\ windows[w].field = None

Inv ==
  /\ TypeOK /\ PortsKnowTheirTab /\ PanelsKnowTheirWindow
  /\ ReadyHasItsPanel /\ LapsedShowsTheOldField
  /\ FieldHasItsPort /\ PanelMatchesRegistry /\ BadgeMeansField

\* What concerns the registry alone and no port.
RegistryInv ==
  /\ windows \in [Windows -> [field : FieldState \cup {None}, panelReady : BOOLEAN]]
  /\ badge \in [Tabs -> BOOLEAN]
  /\ told \in [Windows -> View \cup {None}]
  /\ lapsed \in SUBSET Windows
  /\ stuck \in SUBSET Tabs
  /\ LapsedShowsTheOldField /\ PanelMatchesRegistry /\ BadgeMeansField

\* What the embed of a window should know.
Known(field) == IF field = None THEN None ELSE [id |-> field.id, text |-> field.text]

-----------------------------------------------------------------------------
(* Whatever an operation of registry.ts does to one window w: it keeps the  *)
(* invariant if it tells a ready panel and moves the badge with the field,  *)
(* and gives the field to a port of w.                                      *)
LEMMA WindowStep ==
  ASSUME Inv, NEW w \in Windows, NEW new \in FieldState \cup {None},
         windows' = WithField(w, new),
         badge' \in [Tabs -> BOOLEAN],
         \A t \in Tabs : badge'[t] => badge[t] \/ (new # None /\ new.tab = t),
         windows[w].field # None /\ (new = None \/ new.tab # windows[w].field.tab)
           => ~badge'[windows[w].field.tab],
         told' = [told EXCEPT ![w] = IF windows[w].panelReady THEN Known(new) ELSE told[w]],
         lapsed' = IF windows[w].panelReady THEN lapsed \ {w} ELSE lapsed,
         stuck' = {t \in stuck : badge'[t]}
  PROVE  RegistryInv'
<1>1. /\ windows' \in [Windows -> [field : FieldState \cup {None}, panelReady : BOOLEAN]]
      /\ told' \in [Windows -> View \cup {None}]
      /\ lapsed' \in SUBSET Windows
      /\ stuck' \in SUBSET Tabs
  BY DEF Inv, TypeOK, WithField, Window, Known, FieldState, View
<1>2. LapsedShowsTheOldField'
  BY DEF Inv, TypeOK, LapsedShowsTheOldField, WithField, Window
<1>3. PanelMatchesRegistry'
  <2> SUFFICES ASSUME NEW v \in Windows, v \notin lapsed'
               PROVE  told'[v] = IF windows'[v].panelReady /\ windows'[v].field # None
                                   THEN [id |-> windows'[v].field.id,
                                         text |-> windows'[v].field.text]
                                   ELSE None
    BY DEF PanelMatchesRegistry
  <2>1. CASE v = w
    BY <2>1 DEF Inv, TypeOK, PanelMatchesRegistry, WithField, Window, Known
  <2>2. CASE v # w
    BY <2>2 DEF Inv, TypeOK, PanelMatchesRegistry, WithField, Window
  <2> QED BY <2>1, <2>2
<1>4. BadgeMeansField'
  <2> SUFFICES ASSUME NEW t \in Tabs, badge'[t], t \notin stuck'
               PROVE  \E v \in Windows : windows'[v].field # None /\ windows'[v].field.tab = t
    BY DEF BadgeMeansField, Holds
  <2>1. CASE new # None /\ new.tab = t
    BY <2>1 DEF Inv, TypeOK, WithField, Window
  <2>2. CASE ~(new # None /\ new.tab = t)
    <3>1. badge[t] /\ t \notin stuck
      BY <2>2 DEF Inv, TypeOK
    <3>2. PICK v \in Windows : windows[v].field # None /\ windows[v].field.tab = t
      BY <3>1 DEF Inv, BadgeMeansField, Holds
    <3>3. v # w
      BY <2>2, <3>2
    <3> QED
      BY <3>2, <3>3 DEF Inv, TypeOK, WithField, Window
  <2> QED BY <2>1, <2>2
<1> QED
  BY <1>1, <1>2, <1>3, <1>4 DEF RegistryInv

LEMMA WindowStepKeeps ==
  ASSUME Inv, UNCHANGED portVars, RegistryInv',
         NEW w \in Windows, NEW new \in FieldState \cup {None},
         new # None => captured[fieldPorts[new.tab]] = [tab |-> new.tab, window |-> w]
                       /\ fieldPorts[new.tab] # None,
         windows' = WithField(w, new)
  PROVE  Inv'
<1>1. FieldHasItsPort'
  BY DEF Inv, TypeOK, FieldHasItsPort, portVars, WithField, Window
<1>2. (ReadyHasItsPanel /\ PortsKnowTheirTab /\ PanelsKnowTheirWindow)'
  BY DEF Inv, TypeOK, ReadyHasItsPanel, portVars, WithField, Window, PortsKnowTheirTab,
     PanelsKnowTheirWindow
<1> QED
  BY <1>1, <1>2 DEF Inv, RegistryInv, TypeOK, portVars

LEMMA QuietKeeps ==
  ASSUME Inv, UNCHANGED <<windows, badge, told, lapsed>>, UNCHANGED portVars,
         stuck' = {t \in stuck : badge[t]}
  PROVE  Inv'
BY DEF Inv, portVars, TypeOK, PortsKnowTheirTab, PanelsKnowTheirWindow, ReadyHasItsPanel,
   LapsedShowsTheOldField, FieldHasItsPort, PanelMatchesRegistry, BadgeMeansField, Holds

LEMMA NothingKeeps ==
  ASSUME Inv, Execute(Nothing), UNCHANGED portVars
  PROVE  Inv'
<1>1. /\ UNCHANGED <<windows, badge, told, lapsed>>
      /\ stuck' = {t \in stuck : badge[t]}
  BY DEF Execute, Nothing, NoMessage, Result, Reaches
<1> QED
  BY <1>1, QuietKeeps

\* What the effects do when the message of the result is for the panel of w.
LEMMA ToldPanel ==
  ASSUME Inv, NEW w \in Windows, NEW ws, NEW lights, NEW tabs, NEW m,
         Execute(Result(ws, lights, ToPanel(w, m), tabs))
  PROVE  /\ windows' = ws
         /\ badge' = lights
         /\ told' = IF windows[w].panelReady
                      THEN [told EXCEPT ![w] = Shown(m, told[w])] ELSE told
         /\ lapsed' = IF windows[w].panelReady /\ m.type = "fieldConnected"
                        THEN lapsed \ {w} ELSE lapsed
         /\ stuck' = {t \in stuck : lights[t]}
<1>1. CASE windows[w].panelReady
  <2>1. panelPorts[w] # None /\ w # None
    BY <1>1, SetsAssumption DEF Inv, ReadyHasItsPanel
  <2> QED
    BY <1>1, <2>1 DEF Execute, Result, Reaches, ToPanel
<1>2. CASE ~windows[w].panelReady
  BY <1>2 DEF Execute, Result, Reaches, ToPanel, NoMessage
<1> QED BY <1>1, <1>2

LEMMA ConnectedKeeps ==
  ASSUME Inv, NEW p \in FieldPorts, FieldPortCurrent(p),
         NEW m \in [type : {"fieldConnected"}, id : Fields, text : Texts],
         Execute(FieldConnected(captured[p].window, captured[p].tab, m)),
         UNCHANGED portVars
  PROVE  Inv'
<1> DEFINE w == captured[p].window
           t == captured[p].tab
           old == windows[w].field
           new == [tab |-> t, id |-> m.id, text |-> m.text]
<1>1. w \in Windows /\ t \in Tabs /\ captured[p] = [tab |-> t, window |-> w]
  BY DEF Inv, TypeOK, FieldPortCurrent
<1>2. fieldPorts[t] = p /\ p # None
  BY SetsAssumption DEF FieldPortCurrent
<1>3. new \in FieldState /\ new # None
  BY <1>1, SetsAssumption DEF FieldState
<1>4. /\ windows' = WithField(w, new)
      /\ badge' = Unlit(old)
      /\ told' = IF windows[w].panelReady
                   THEN [told EXCEPT ![w] = Shown(m, told[w])] ELSE told
      /\ lapsed' = IF windows[w].panelReady /\ m.type = "fieldConnected"
                     THEN lapsed \ {w} ELSE lapsed
      /\ stuck' = {x \in stuck : Unlit(old)[x]}
  BY <1>1, ToldPanel DEF FieldConnected, FieldOf
<1>5. Shown(m, told[w]) = Known(new)
  BY <1>3 DEF Shown, Known
<1>6. told' = [told EXCEPT ![w] = IF windows[w].panelReady THEN Known(new) ELSE told[w]]
  BY <1>1, <1>4, <1>5 DEF Inv, TypeOK
<1>7. old \in FieldState \cup {None} /\ badge \in [Tabs -> BOOLEAN]
  BY <1>1 DEF Inv, TypeOK
<1>8. /\ badge' \in [Tabs -> BOOLEAN]
      /\ \A x \in Tabs : badge'[x] => badge[x]
      /\ old # None => ~badge'[old.tab]
  BY <1>4, <1>7 DEF Unlit, FieldState
<1> HIDE DEF w, t, old, new
<1>9. captured[fieldPorts[new.tab]] = [tab |-> new.tab, window |-> w]
      /\ fieldPorts[new.tab] # None
  BY <1>1, <1>2 DEF new
<1>10. lapsed' = IF windows[w].panelReady THEN lapsed \ {w} ELSE lapsed
  BY <1>4
<1>11. RegistryInv'
  BY <1>1, <1>3, <1>4, <1>6, <1>8, <1>10, WindowStep DEF old
<1> QED
  BY <1>1, <1>3, <1>4, <1>9, <1>11, WindowStepKeeps

LEMMA TextKeeps ==
  ASSUME Inv, NEW p \in FieldPorts, FieldPortCurrent(p),
         NEW m \in [type : {"textChanged"}, id : Fields, text : Texts],
         Speaks(p, m),
         Execute(TextChanged(captured[p].window, captured[p].tab, m)),
         UNCHANGED portVars
  PROVE  Inv'
<1> DEFINE w == captured[p].window
           t == captured[p].tab
           old == windows[w].field
           new == [tab |-> t, id |-> old.id, text |-> m.text]
<1>1. w \in Windows /\ t \in Tabs /\ captured[p] = [tab |-> t, window |-> w]
  BY DEF Inv, TypeOK, FieldPortCurrent
<1>2. CASE ~Holds(w, t)
  BY <1>2, NothingKeeps DEF TextChanged
<1>3. CASE Holds(w, t)
  <2>1. old \in FieldState /\ old.tab = t /\ old # None /\ old.id = m.id
    BY <1>1, <1>3 DEF Holds, Inv, TypeOK, Speaks
  <2>2. new \in FieldState /\ new # None
    BY <1>1, <2>1, SetsAssumption DEF FieldState
  <2>3. /\ windows' = WithField(w, new)
        /\ badge' = badge
        /\ told' = IF windows[w].panelReady
                     THEN [told EXCEPT ![w] = Shown(m, told[w])] ELSE told
        /\ lapsed' = lapsed
        /\ stuck' = {x \in stuck : badge[x]}
    BY <1>1, <1>3, ToldPanel DEF TextChanged, TextRead
  <2>4. w \notin lapsed
    BY <2>1 DEF Inv, LapsedShowsTheOldField
  <2>5. windows[w].panelReady => told[w] = [id |-> old.id, text |-> old.text]
    BY <1>1, <2>1, <2>4 DEF Inv, PanelMatchesRegistry
  <2>6. windows[w].panelReady => told[w] # None
    BY <2>1, <2>5, SetsAssumption DEF Inv, TypeOK, View, FieldState
  <2>7. windows[w].panelReady => Shown(m, told[w]) = Known(new)
    BY <2>1, <2>2, <2>5, <2>6 DEF Shown, Known
  <2>8. told' = [told EXCEPT ![w] = IF windows[w].panelReady THEN Known(new) ELSE told[w]]
    BY <1>1, <2>3, <2>7 DEF Inv, TypeOK
  <2>9. /\ badge' \in [Tabs -> BOOLEAN]
        /\ \A x \in Tabs : badge'[x] => badge[x]
        /\ stuck' = {x \in stuck : badge'[x]}
    BY <2>3 DEF Inv, TypeOK
  <2>10. lapsed' = IF windows[w].panelReady THEN lapsed \ {w} ELSE lapsed
    BY <2>3, <2>4 DEF Inv, TypeOK
  <2>11. /\ captured[fieldPorts[new.tab]] = [tab |-> new.tab, window |-> w]
         /\ fieldPorts[new.tab] # None
         /\ new.tab = old.tab
    BY <1>1, <2>1, SetsAssumption DEF FieldPortCurrent
  <2>12. windows' = WithField(w, new)
    BY <2>3
  <2> HIDE DEF w, t, new
  <2>13. RegistryInv'
    BY <1>1, <2>2, <2>8, <2>9, <2>10, <2>11, <2>12, WindowStep
  <2> QED
    BY <1>1, <2>2, <2>11, <2>12, <2>13, WindowStepKeeps
<1> QED BY <1>2, <1>3

LEMMA ClearedStep ==
  ASSUME Inv, NEW w \in Windows, windows[w].field # None,
         NEW m, m.type = "fieldDisconnected", m.id = windows[w].field.id,
         Execute(Cleared(w, m))
  PROVE  RegistryInv' /\ windows' = WithField(w, None)
<1> DEFINE old == windows[w].field
<1>1. old \in FieldState /\ badge \in [Tabs -> BOOLEAN]
  BY DEF Inv, TypeOK
<1>2. /\ windows' = WithField(w, None)
      /\ badge' = Unlit(old)
      /\ told' = IF windows[w].panelReady
                   THEN [told EXCEPT ![w] = Shown(m, told[w])] ELSE told
      /\ lapsed' = lapsed
      /\ stuck' = {x \in stuck : badge'[x]}
  BY ToldPanel DEF Cleared
<1>3. w \notin lapsed
  BY DEF Inv, LapsedShowsTheOldField
<1>4. windows[w].panelReady => told[w] = [id |-> old.id, text |-> old.text]
  BY <1>3 DEF Inv, PanelMatchesRegistry
<1>5. windows[w].panelReady => Shown(m, told[w]) = Known(None)
  BY <1>4 DEF Shown, Known
<1>6. told' = [told EXCEPT ![w] = IF windows[w].panelReady THEN Known(None) ELSE told[w]]
  BY <1>2, <1>5 DEF Inv, TypeOK
<1>7. /\ badge' \in [Tabs -> BOOLEAN]
      /\ \A x \in Tabs : badge'[x] => badge[x]
      /\ ~badge'[old.tab]
  BY <1>1, <1>2 DEF Unlit, FieldState
<1>8. lapsed' = IF windows[w].panelReady THEN lapsed \ {w} ELSE lapsed
  BY <1>2, <1>3 DEF Inv, TypeOK
<1> QED
  BY <1>2, <1>6, <1>7, <1>8, WindowStep

LEMMA HostRelayKeeps ==
  ASSUME Inv, NEW p \in FieldPorts, FieldPortCurrent(p),
         NEW m \in [type : {"fieldDisconnected", "answer"}, id : Fields],
         Speaks(p, m),
         Execute(HostRelay(captured[p].window, captured[p].tab, m)),
         UNCHANGED portVars
  PROVE  Inv'
<1> DEFINE w == captured[p].window
           t == captured[p].tab
<1>1. w \in Windows /\ t \in Tabs
  BY DEF Inv, TypeOK, FieldPortCurrent
<1>2. CASE ~Holds(w, t)
  BY <1>2, NothingKeeps DEF HostRelay
<1>3. CASE Holds(w, t) /\ m.type = "fieldDisconnected"
  <2>1. windows[w].field # None /\ m.id = windows[w].field.id
    BY <1>3 DEF Holds, Speaks
  <2> QED
    BY <1>1, <1>3, <2>1, ClearedStep, WindowStepKeeps DEF HostRelay
<1>4. CASE Holds(w, t) /\ m.type = "answer"
  <2>1. /\ windows' = windows /\ badge' = badge
        /\ told' = IF windows[w].panelReady
                     THEN [told EXCEPT ![w] = Shown(m, told[w])] ELSE told
        /\ lapsed' = lapsed
        /\ stuck' = {x \in stuck : badge[x]}
    BY <1>1, <1>4, ToldPanel DEF HostRelay
  <2>2. Shown(m, told[w]) = told[w]
    BY <1>4 DEF Shown
  <2>3. told' = told
    BY <1>1, <2>1, <2>2 DEF Inv, TypeOK
  <2> QED
    BY <2>1, <2>3, QuietKeeps
<1> QED BY <1>2, <1>3, <1>4

\* The messages of a panel: nothing but readiness and the badge can change.
LEMMA EmbedRelayKeeps ==
  ASSUME Inv, NEW w \in Windows, NEW m \in PanelMessages, m.type \in {"status", "request"},
         Execute(EmbedRelay(w, m)),
         UNCHANGED portVars
  PROVE  Inv'
<1> DEFINE field == windows[w].field
<1>1. CASE field = None
  BY <1>1, NothingKeeps DEF EmbedRelay
<1>2. CASE field # None /\ m.type = "status"
  <2>1. field \in FieldState /\ m.count \in BOOLEAN
    BY <1>2 DEF Inv, TypeOK, PanelMessages
  <2>2. /\ UNCHANGED <<windows, told, lapsed>>
        /\ badge' = [badge EXCEPT ![field.tab] = m.count]
        /\ stuck' = {t \in stuck : badge'[t]}
    BY <1>2 DEF EmbedRelay, Execute, Result, Reaches, NoMessage
  <2>3. BadgeMeansField'
    BY <1>2, <2>1, <2>2 DEF Inv, TypeOK, BadgeMeansField, Holds, FieldState
  <2>4. TypeOK'
    BY <2>1, <2>2 DEF Inv, TypeOK, portVars, FieldState
  <2> QED
    BY <2>2, <2>3, <2>4 DEF Inv, portVars, PortsKnowTheirTab, PanelsKnowTheirWindow,
       ReadyHasItsPanel, LapsedShowsTheOldField, FieldHasItsPort, PanelMatchesRegistry
<1>3. CASE field # None /\ m.type = "request"
  <2>1. /\ UNCHANGED <<windows, badge, told, lapsed>>
        /\ stuck' = {t \in stuck : badge[t]}
    BY <1>3 DEF EmbedRelay, Execute, Result, Reaches, NoMessage
  <2> QED
    BY <2>1, QuietKeeps
<1> QED BY <1>1, <1>2, <1>3

LEMMA DisconnectKeeps ==
  ASSUME Inv, NEW w \in Windows, Execute(DisconnectRequested(w)), UNCHANGED portVars
  PROVE  Inv'
<1>1. /\ UNCHANGED <<windows, badge, told, lapsed>>
      /\ stuck' = {t \in stuck : badge[t]}
  BY DEF DisconnectRequested, Execute, Result, Reaches, Nothing, NoMessage
<1> QED
  BY <1>1, QuietKeeps

\* A panel that gets ready learns the field of its window.
LEMMA ReadyKeeps ==
  ASSUME Inv, NEW w \in Windows, panelPorts[w] # None,
         Execute(PanelReady(w, TRUE)), UNCHANGED portVars
  PROVE  Inv'
<1> DEFINE field == windows[w].field
<1>1. CASE windows[w].panelReady
  BY <1>1, NothingKeeps DEF PanelReady, Inv, TypeOK
<1>2. CASE ~windows[w].panelReady
  <2>1. w \notin lapsed /\ told[w] = None /\ w # None
    BY <1>2, SetsAssumption DEF Inv, LapsedShowsTheOldField, PanelMatchesRegistry
  <2>2. windows' = [windows EXCEPT ![w] = Window(field, TRUE)]
    BY <1>2 DEF PanelReady, Execute, Result
  <2>3. badge' = badge /\ stuck' = {t \in stuck : badge[t]}
    BY <1>2 DEF PanelReady, Execute, Result
  <2>4. told' = [told EXCEPT ![w] = Known(field)] /\ lapsed' = lapsed
    <3>1. CASE field = None
      BY <1>2, <2>1, <3>1 DEF PanelReady, Execute, Result, Reaches, NoMessage, Known, Inv, TypeOK
    <3>2. CASE field # None
      BY <1>2, <2>1, <3>2 DEF PanelReady, Execute, Result, Reaches, Connected, Shown, Known,
         Inv, TypeOK
    <3> QED BY <3>1, <3>2
  <2>5. field \in FieldState \cup {None}
    BY DEF Inv, TypeOK
  <2>6. TypeOK'
    BY <2>2, <2>3, <2>4, <2>5 DEF Inv, TypeOK, portVars, Window, Known, FieldState, View
  <2>7. (ReadyHasItsPanel /\ LapsedShowsTheOldField)'
    BY <2>1, <2>2, <2>4 DEF Inv, TypeOK, ReadyHasItsPanel, LapsedShowsTheOldField, portVars,
       Window
  <2>8. (FieldHasItsPort /\ BadgeMeansField)'
    BY <2>2, <2>3 DEF Inv, TypeOK, FieldHasItsPort, BadgeMeansField, Holds, portVars, Window
  <2>9. PanelMatchesRegistry'
    BY <2>1, <2>2, <2>4 DEF Inv, TypeOK, PanelMatchesRegistry, Window, Known
  <2> QED
    BY <2>6, <2>7, <2>8, <2>9 DEF Inv, PortsKnowTheirTab, PanelsKnowTheirWindow, portVars
<1> QED BY <1>1, <1>2

-----------------------------------------------------------------------------
(* The events of sw.ts that open and close ports.                           *)

\* After a port of tab t is gone no window holds a field of t.
LEMMA GoneStep ==
  ASSUME Inv, NEW t \in Tabs, fieldPorts[t] # None,
         Execute(FieldPortGone(captured[fieldPorts[t]].window, t))
  PROVE  /\ RegistryInv'
         /\ windows' = [w \in Windows |->
              Window(IF Holds(w, t) THEN None ELSE windows[w].field, windows[w].panelReady)]
<1> DEFINE p == fieldPorts[t]
           old == captured[p].window
<1>1. p \in FieldPorts /\ captured[p] # None /\ captured[p].tab = t /\ old \in Windows
  BY DEF Inv, TypeOK, PortsKnowTheirTab
<1>2. \A w \in Windows : Holds(w, t) => w = old
  <2> SUFFICES ASSUME NEW w \in Windows, Holds(w, t) PROVE w = old
    OBVIOUS
  <2>1. captured[fieldPorts[windows[w].field.tab]]
          = [tab |-> windows[w].field.tab, window |-> w]
    BY DEF Inv, FieldHasItsPort, Holds
  <2>2. captured[p] = [tab |-> t, window |-> w]
    BY <2>1 DEF Holds
  <2> QED BY <2>2
<1>3. \A w \in Windows : windows[w] = Window(windows[w].field, windows[w].panelReady)
  BY DEF Inv, TypeOK, Window
<1>4. CASE Holds(old, t)
  <2> DEFINE m == Disconnected(windows[old].field)
  <2>1. m.type = "fieldDisconnected" /\ m.id = windows[old].field.id
    BY DEF Disconnected
  <2>2. windows[old].field # None /\ Execute(Cleared(old, m))
    BY <1>4 DEF FieldPortGone, Holds
  <2>3. RegistryInv' /\ windows' = WithField(old, None)
    BY <1>1, <2>1, <2>2, ClearedStep
  <2>4. windows' = [w \in Windows |->
              Window(IF Holds(w, t) THEN None ELSE windows[w].field, windows[w].panelReady)]
    BY <1>1, <1>2, <1>3, <1>4, <2>3 DEF WithField, Inv, TypeOK
  <2> QED BY <2>3, <2>4
<1>5. CASE ~Holds(old, t)
  <2>1. Execute(Nothing)
    BY <1>5 DEF FieldPortGone
  <2>2. UNCHANGED <<windows, badge, told, lapsed>> /\ stuck' = {x \in stuck : badge[x]}
    BY <2>1 DEF Execute, Nothing, NoMessage, Result, Reaches
  <2>3. RegistryInv'
    BY <2>2 DEF Inv, TypeOK, RegistryInv, LapsedShowsTheOldField, PanelMatchesRegistry,
       BadgeMeansField, Holds
  <2>4. \A w \in Windows : ~Holds(w, t)
    BY <1>2, <1>5
  <2>5. windows' = [w \in Windows |->
              Window(IF Holds(w, t) THEN None ELSE windows[w].field, windows[w].panelReady)]
    BY <1>3, <2>2, <2>4 DEF Inv, TypeOK
  <2> QED BY <2>3, <2>5
<1> QED BY <1>4, <1>5

LEMMA OpensKeeps ==
  ASSUME Inv, NEW p \in FieldPorts, NEW t \in Tabs, NEW w \in Windows, FieldPortOpens(p, t, w)
  PROVE  Inv'
<1> DEFINE old == fieldPorts[t]
<1>1. /\ RegistryInv'
      /\ windows' = [v \in Windows |->
           Window(IF Holds(v, t) THEN None ELSE windows[v].field, windows[v].panelReady)]
  <2>1. CASE old = None
    <3>1. UNCHANGED <<windows, badge, told, lapsed>> /\ stuck' = {x \in stuck : badge[x]}
      BY <2>1 DEF FieldPortOpens, OnFieldPortOpens, Execute, Nothing, NoMessage, Result, Reaches
    <3>2. RegistryInv'
      BY <3>1 DEF Inv, TypeOK, RegistryInv, LapsedShowsTheOldField, PanelMatchesRegistry,
         BadgeMeansField, Holds
    <3>3. \A v \in Windows : ~Holds(v, t)
      BY <2>1 DEF Inv, FieldHasItsPort, Holds
    <3>4. \A v \in Windows : windows[v] = Window(windows[v].field, windows[v].panelReady)
      BY DEF Inv, TypeOK, Window
    <3> QED
      BY <3>1, <3>2, <3>3, <3>4 DEF Inv, TypeOK
  <2>2. CASE old # None
    <3>1. captured[old].tab = t
      BY <2>2 DEF Inv, PortsKnowTheirTab
    <3> QED
      BY <2>2, <3>1, GoneStep DEF FieldPortOpens, OnFieldPortOpens, Evicted
  <2> QED BY <2>1, <2>2
<1>2. /\ captured[p] = None
      /\ captured' = [captured EXCEPT ![p] = [tab |-> t, window |-> w]]
      /\ fieldPorts' = [fieldPorts EXCEPT ![t] = p]
      /\ UNCHANGED <<panelPorts, hello>>
  BY DEF FieldPortOpens
<1>3. TypeOK'
  BY <1>1, <1>2 DEF Inv, TypeOK, RegistryInv
<1>4. PortsKnowTheirTab'
  <2>1. captured'[p] = [tab |-> t, window |-> w] /\ captured'[p] # None
    BY <1>2, <1>3, SetsAssumption, p \in FieldPorts DEF Inv, TypeOK, PortsKnowTheirTab
  <2> QED
    BY <1>2, <2>1 DEF Inv, TypeOK, PortsKnowTheirTab
<1>5. FieldHasItsPort'
  <2> SUFFICES ASSUME NEW v \in Windows, windows'[v].field # None
               PROVE  LET x == windows'[v].field.tab
                      IN  fieldPorts'[x] # None /\ captured'[fieldPorts'[x]] = [tab |-> x, window |-> v]
    BY DEF FieldHasItsPort
  <2>1. windows'[v].field = windows[v].field /\ ~Holds(v, t) /\ windows[v].field # None
    BY <1>1 DEF Window
  <2> DEFINE x == windows[v].field.tab
  <2>2. x # t /\ x \in Tabs
    BY <2>1 DEF Holds, Inv, TypeOK, FieldState
  <2>3. fieldPorts[x] # None /\ captured[fieldPorts[x]] = [tab |-> x, window |-> v]
    BY <2>1 DEF Inv, FieldHasItsPort
  <2>4. fieldPorts[x] # p
    BY <2>2, <2>3, <1>2 DEF Inv, PortsKnowTheirTab
  <2>5. fieldPorts[x] \in FieldPorts
    BY <2>2, <2>3 DEF Inv, TypeOK
  <2> QED
    BY <1>2, <2>1, <2>2, <2>3, <2>4, <2>5 DEF Inv, TypeOK
<1>6. (ReadyHasItsPanel /\ PanelsKnowTheirWindow)'
  BY <1>1, <1>2 DEF Inv, ReadyHasItsPanel, PanelsKnowTheirWindow, Window
<1> QED
  BY <1>1, <1>3, <1>4, <1>5, <1>6 DEF Inv, RegistryInv

LEMMA ClosesKeeps ==
  ASSUME Inv, NEW p \in FieldPorts, FieldPortCloses(p)
  PROVE  Inv'
<1> DEFINE t == captured[p].tab
<1>1. CASE ~FieldPortCurrent(p)
  <2>1. Execute(Nothing) /\ UNCHANGED portVars
    BY <1>1 DEF FieldPortCloses, OnFieldPortCloses, portVars
  <2> QED
    BY <2>1, NothingKeeps
<1>2. CASE FieldPortCurrent(p)
  <2>1. t \in Tabs /\ fieldPorts[t] = p /\ p # None
    BY <1>2, SetsAssumption DEF FieldPortCurrent, Inv, TypeOK
  <2>2. /\ RegistryInv'
        /\ windows' = [v \in Windows |->
             Window(IF Holds(v, t) THEN None ELSE windows[v].field, windows[v].panelReady)]
    BY <1>2, <2>1, GoneStep DEF FieldPortCloses, OnFieldPortCloses
  <2>3. /\ fieldPorts' = [fieldPorts EXCEPT ![t] = None]
        /\ UNCHANGED <<panelPorts, captured, hello>>
    BY <1>2 DEF FieldPortCloses
  <2>4. TypeOK'
    BY <2>2, <2>3 DEF Inv, TypeOK, RegistryInv
  <2>5. PortsKnowTheirTab'
    BY <2>1, <2>3 DEF Inv, TypeOK, PortsKnowTheirTab
  <2>6. FieldHasItsPort'
    <3> SUFFICES ASSUME NEW v \in Windows, windows'[v].field # None
                 PROVE  LET x == windows'[v].field.tab
                        IN  fieldPorts'[x] # None
                            /\ captured'[fieldPorts'[x]] = [tab |-> x, window |-> v]
      BY DEF FieldHasItsPort
    <3>1. windows'[v].field = windows[v].field /\ ~Holds(v, t) /\ windows[v].field # None
      BY <2>2 DEF Window
    <3> DEFINE x == windows[v].field.tab
    <3>2. x # t /\ x \in Tabs
      BY <3>1 DEF Holds, Inv, TypeOK, FieldState
    <3>3. fieldPorts[x] # None /\ captured[fieldPorts[x]] = [tab |-> x, window |-> v]
      BY <3>1 DEF Inv, FieldHasItsPort
    <3> QED
      BY <2>1, <2>3, <3>1, <3>2, <3>3 DEF Inv, TypeOK
  <2>7. (ReadyHasItsPanel /\ PanelsKnowTheirWindow)'
    BY <2>2, <2>3 DEF Inv, ReadyHasItsPanel, PanelsKnowTheirWindow, Window
  <2> QED
    BY <2>2, <2>4, <2>5, <2>6, <2>7 DEF Inv, RegistryInv
<1> QED BY <1>1, <1>2

\* A new, a reloaded and a closed panel leave the window not ready, and the
\* embed behind it knows nothing.
LEMMA ForgetStep ==
  ASSUME Inv, NEW w \in Windows, NEW r,
         ExecuteForgetting(w, r), r.badge = badge,
         r.windows = [windows EXCEPT ![w] = Window(windows[w].field, FALSE)]
  PROVE  /\ RegistryInv'
         /\ FieldHasItsPort /\ UNCHANGED <<fieldPorts, captured>> => FieldHasItsPort'
<1>1. /\ windows' = [windows EXCEPT ![w] = Window(windows[w].field, FALSE)]
      /\ badge' = badge
      /\ told' = [told EXCEPT ![w] = None]
      /\ lapsed' = lapsed \ {w}
      /\ stuck' = stuck
  BY DEF ExecuteForgetting
<1>2. /\ windows' \in [Windows -> [field : FieldState \cup {None}, panelReady : BOOLEAN]]
      /\ told' \in [Windows -> View \cup {None}]
  BY <1>1 DEF Inv, TypeOK, Window
<1>3. LapsedShowsTheOldField' /\ PanelMatchesRegistry'
  BY <1>1 DEF Inv, TypeOK, LapsedShowsTheOldField, PanelMatchesRegistry, Window
<1>4. \A v \in Windows : windows'[v].field = windows[v].field
  BY <1>1 DEF Inv, TypeOK, Window
<1>5. BadgeMeansField'
  BY <1>1, <1>4 DEF Inv, BadgeMeansField, Holds
<1>6. FieldHasItsPort /\ UNCHANGED <<fieldPorts, captured>> => FieldHasItsPort'
  BY <1>4 DEF FieldHasItsPort
<1> QED
  BY <1>1, <1>2, <1>3, <1>5, <1>6 DEF RegistryInv, Inv, TypeOK

LEMMA HelloKeeps ==
  ASSUME Inv, NEW p \in PanelPorts, NEW w \in Windows, PanelHello(p, w)
  PROVE  Inv'
<1> DEFINE r == NotReadyYet(p, w)
<1>1. /\ hello[p] = None /\ ExecuteForgetting(w, r)
      /\ hello' = [hello EXCEPT ![p] = w]
      /\ panelPorts' = [panelPorts EXCEPT ![w] = p]
      /\ UNCHANGED <<fieldPorts, captured>>
  BY DEF PanelHello
<1>2. \A v \in Windows : panelPorts[v] # p
  BY <1>1, SetsAssumption DEF Inv, PanelsKnowTheirWindow
<1>3. r.badge = badge
  BY DEF NotReadyYet, PanelReady, Nothing, Result
<1>4. r.windows = [windows EXCEPT ![w] = Window(windows[w].field, FALSE)]
  <2>1. CASE windows[w].panelReady
    BY <2>1, <1>2 DEF Inv, ReadyHasItsPanel, NotReadyYet, PanelReady, Result
  <2>2. CASE ~windows[w].panelReady
    <3>1. r.windows = windows
      BY <2>2 DEF NotReadyYet, PanelReady, Nothing, Result, Inv, TypeOK
    <3> QED
      BY <2>2, <3>1 DEF Inv, TypeOK, Window
  <2> QED BY <2>1, <2>2
<1>5. RegistryInv' /\ FieldHasItsPort'
  BY <1>1, <1>3, <1>4, ForgetStep DEF Inv
<1>6. TypeOK'
  BY <1>1, <1>5 DEF Inv, TypeOK, RegistryInv
<1>7. PanelsKnowTheirWindow'
  BY <1>1, <1>2, SetsAssumption DEF Inv, TypeOK, PanelsKnowTheirWindow
<1>8. PortsKnowTheirTab'
  BY <1>1 DEF Inv, PortsKnowTheirTab
<1>9. ReadyHasItsPanel'
  <2>1. windows' = [windows EXCEPT ![w] = Window(windows[w].field, FALSE)]
    BY <1>1, <1>4 DEF ExecuteForgetting
  <2> QED
    BY <2>1, <1>1 DEF Inv, TypeOK, ReadyHasItsPanel, Window
<1> QED
  BY <1>5, <1>6, <1>7, <1>8, <1>9 DEF Inv, RegistryInv

\* Not ready again, or the port is gone.
LEMMA UnreadyKeeps ==
  ASSUME Inv, NEW w \in Windows, panelPorts[w] # None,
         ExecuteForgetting(w, PanelReady(w, FALSE)),
         panelPorts' = panelPorts \/ panelPorts' = [panelPorts EXCEPT ![w] = None],
         UNCHANGED <<fieldPorts, captured, hello>>
  PROVE  Inv'
<1> DEFINE r == PanelReady(w, FALSE)
<1>1. r.badge = badge
  BY DEF PanelReady, Nothing, Result
<1>2. r.windows = [windows EXCEPT ![w] = Window(windows[w].field, FALSE)]
  <2>1. CASE windows[w].panelReady
    BY <2>1 DEF PanelReady, Result
  <2>2. CASE ~windows[w].panelReady
    <3>1. r.windows = windows
      BY <2>2 DEF PanelReady, Nothing, Result, Inv, TypeOK
    <3> QED
      BY <2>2, <3>1 DEF Inv, TypeOK, Window
  <2> QED BY <2>1, <2>2
<1>3. RegistryInv' /\ FieldHasItsPort'
  BY <1>1, <1>2, ForgetStep DEF Inv
<1>4. TypeOK'
  BY <1>3 DEF Inv, TypeOK, RegistryInv
<1>5. (PanelsKnowTheirWindow /\ PortsKnowTheirTab)'
  BY DEF Inv, TypeOK, PanelsKnowTheirWindow, PortsKnowTheirTab
<1>6. ReadyHasItsPanel'
  <2>1. windows' = [windows EXCEPT ![w] = Window(windows[w].field, FALSE)]
    BY <1>2 DEF ExecuteForgetting
  <2> QED
    BY <2>1 DEF Inv, TypeOK, ReadyHasItsPanel, Window
<1> QED
  BY <1>3, <1>4, <1>5, <1>6 DEF Inv, RegistryInv

LEMMA ServerChangedKeeps ==
  ASSUME Inv, ServerUrlChanged
  PROVE  Inv'
<1>1. /\ windows' = [w \in Windows |-> Window(None, windows[w].panelReady)]
      /\ badge' = [t \in Tabs |-> badge[t] /\ \A w \in Windows : ~Holds(w, t)]
      /\ lapsed' = lapsed \cup {w \in Windows : told[w] # None}
      /\ stuck' = {t \in stuck : badge'[t]}
      /\ UNCHANGED <<told, portVars>>
  <2>1. badge' = [t \in Tabs |-> badge[t] /\
                    \A w \in {v \in Windows : windows[v].field # None} :
                       windows[w].field.tab # t]
    BY DEF ServerUrlChanged, ServerChanged, Result
  <2>2. \A t \in Tabs : (\A w \in {v \in Windows : windows[v].field # None} :
                           windows[w].field.tab # t)
                        <=> (\A w \in Windows : ~Holds(w, t))
    BY DEF Holds
  <2> QED
    BY <2>1, <2>2 DEF ServerUrlChanged, ServerChanged, Result
<1>2. TypeOK'
  BY <1>1 DEF Inv, TypeOK, Window, portVars
<1>3. (PortsKnowTheirTab /\ PanelsKnowTheirWindow /\ ReadyHasItsPanel)'
  BY <1>1 DEF Inv, PortsKnowTheirTab, PanelsKnowTheirWindow, ReadyHasItsPanel, portVars, Window
<1>4. \A w \in Windows : told[w] # None => windows[w].panelReady
  BY DEF Inv, LapsedShowsTheOldField, PanelMatchesRegistry
<1>5. LapsedShowsTheOldField'
  BY <1>1, <1>4 DEF Inv, TypeOK, LapsedShowsTheOldField, Window
<1>6. PanelMatchesRegistry' /\ FieldHasItsPort'
  BY <1>1 DEF Inv, TypeOK, PanelMatchesRegistry, FieldHasItsPort, Window
<1>7. BadgeMeansField'
  <2>1. \A t \in Tabs : badge'[t] => badge[t] /\ \A w \in Windows : ~Holds(w, t)
    BY <1>1
  <2>2. \A t \in Tabs : badge'[t] => t \in stuck'
    BY <1>1, <2>1 DEF Inv, BadgeMeansField
  <2> QED
    BY <2>2 DEF BadgeMeansField
<1> QED
  BY <1>2, <1>3, <1>5, <1>6, <1>7 DEF Inv

-----------------------------------------------------------------------------
LEMMA InitInv == Init => Inv
BY DEF Init, Inv, TypeOK, Window, PortsKnowTheirTab, PanelsKnowTheirWindow, ReadyHasItsPanel,
   LapsedShowsTheOldField, FieldHasItsPort, PanelMatchesRegistry, BadgeMeansField

LEMMA StepInv == Inv /\ [Next]_registryState => Inv'
<1> SUFFICES ASSUME Inv, [Next]_registryState PROVE Inv'
  OBVIOUS
<1>1. CASE ServerUrlChanged
  BY <1>1, ServerChangedKeeps
<1>2. CASE WorkerDies
  <2>1. TypeOK'
    BY <1>2 DEF WorkerDies, Inv, TypeOK, Window
  <2>2. BadgeMeansField'
    BY <1>2 DEF WorkerDies, BadgeMeansField
  <2> QED
    BY <1>2, <2>1, <2>2 DEF WorkerDies, Inv, Window, PortsKnowTheirTab, PanelsKnowTheirWindow,
       ReadyHasItsPanel, LapsedShowsTheOldField, FieldHasItsPort, PanelMatchesRegistry
<1>3. ASSUME NEW p \in FieldPorts, FieldPortCloses(p) PROVE Inv'
  BY <1>3, ClosesKeeps
<1>4. ASSUME NEW p \in FieldPorts, NEW t \in Tabs, NEW w \in Windows, FieldPortOpens(p, t, w)
      PROVE  Inv'
  BY <1>4, OpensKeeps
<1>5. ASSUME NEW p \in FieldPorts, NEW m \in FieldMessages, FieldPortSays(p, m)
      PROVE  Inv'
  <2>1. Speaks(p, m) /\ Execute(OnFieldMessage(p, m)) /\ UNCHANGED portVars
    BY <1>5 DEF FieldPortSays
  <2>2. CASE ~FieldPortCurrent(p)
    BY <2>1, <2>2, NothingKeeps DEF OnFieldMessage
  <2>3. CASE FieldPortCurrent(p) /\ m.type = "fieldConnected"
    <3>1. m \in [type : {"fieldConnected"}, id : Fields, text : Texts]
      BY <2>3 DEF FieldMessages
    <3> QED
      BY <2>1, <2>3, <3>1, ConnectedKeeps DEF OnFieldMessage
  <2>4. CASE FieldPortCurrent(p) /\ m.type = "textChanged"
    <3>1. m \in [type : {"textChanged"}, id : Fields, text : Texts]
      BY <2>4 DEF FieldMessages
    <3> QED
      BY <2>1, <2>4, <3>1, TextKeeps DEF OnFieldMessage
  <2>5. CASE FieldPortCurrent(p) /\ m.type \notin {"fieldConnected", "textChanged"}
    <3>1. m \in [type : {"fieldDisconnected", "answer"}, id : Fields]
      BY <2>5 DEF FieldMessages
    <3> QED
      BY <2>1, <2>5, <3>1, HostRelayKeeps DEF OnFieldMessage
  <2> QED BY <2>2, <2>3, <2>4, <2>5
<1>6. ASSUME NEW p \in PanelPorts, PanelPortCloses(p) PROVE Inv'
  <2>1. hello[p] \in Windows /\ panelPorts[hello[p]] = p /\ p # None
    BY <1>6, SetsAssumption DEF PanelPortCloses, PanelPortCurrent, Inv, TypeOK
  <2> QED
    BY <1>6, <2>1, UnreadyKeeps DEF PanelPortCloses
<1>7. ASSUME NEW p \in PanelPorts, NEW w \in Windows, PanelHello(p, w) PROVE Inv'
  BY <1>7, HelloKeeps
<1>8. ASSUME NEW p \in PanelPorts, NEW m \in PanelMessages, PanelPortSays(p, m)
      PROVE  Inv'
  <2> DEFINE w == hello[p]
  <2>1. hello[p] # None /\ UNCHANGED portVars
    BY <1>8 DEF PanelPortSays
  <2>2. CASE ~PanelPortCurrent(p)
    BY <1>8, <2>1, <2>2, NothingKeeps DEF PanelPortSays, OnPanelMessage
  <2>3. CASE PanelPortCurrent(p)
    <3>1. w \in Windows /\ panelPorts[w] # None
      BY <2>1, <2>3, SetsAssumption DEF PanelPortCurrent, Inv, TypeOK
    <3>2. CASE m.type = "embedReady" /\ m.ready = FALSE
      <4>1. m = [type |-> "embedReady", ready |-> FALSE]
        BY <3>2 DEF PanelMessages
      <4>2. OnPanelMessage(p, m) = PanelReady(w, FALSE)
        BY <2>3, <3>2 DEF OnPanelMessage
      <4>3. ExecuteForgetting(w, OnPanelMessage(p, m))
        BY <1>8, <2>3, <4>1 DEF PanelPortSays
      <4>4. ExecuteForgetting(w, PanelReady(w, FALSE))
        BY <4>2, <4>3
      <4>5. panelPorts' = panelPorts /\ UNCHANGED <<fieldPorts, captured, hello>>
        BY <2>1 DEF portVars
      <4> HIDE DEF w
      <4> QED
        BY <3>1, <4>4, <4>5, UnreadyKeeps
    <3>3. CASE m.type = "embedReady" /\ m.ready = TRUE
      <4>1. OnPanelMessage(p, m) = PanelReady(w, TRUE)
        BY <2>3, <3>3 DEF OnPanelMessage
      <4>2. m # [type |-> "embedReady", ready |-> FALSE]
        BY <3>3
      <4>3. Execute(OnPanelMessage(p, m))
        BY <1>8, <4>2 DEF PanelPortSays
      <4>4. Execute(PanelReady(w, TRUE))
        BY <4>1, <4>3
      <4> HIDE DEF w
      <4> QED
        BY <2>1, <3>1, <4>4, ReadyKeeps
    <3>4. CASE m.type = "disconnect"
      BY <1>8, <2>1, <2>3, <3>1, <3>4, DisconnectKeeps DEF PanelPortSays, OnPanelMessage
    <3>5. CASE m.type \in {"status", "request"}
      BY <1>8, <2>1, <2>3, <3>1, <3>5, EmbedRelayKeeps DEF PanelPortSays, OnPanelMessage
    <3> QED
      BY <3>2, <3>3, <3>4, <3>5 DEF PanelMessages
  <2> QED BY <2>2, <2>3
<1>9. CASE UNCHANGED registryState
  BY <1>9 DEF registryState, registryVars, portVars, historyVars, Inv, TypeOK,
     PortsKnowTheirTab, PanelsKnowTheirWindow, ReadyHasItsPanel, LapsedShowsTheOldField,
     FieldHasItsPort, PanelMatchesRegistry, BadgeMeansField, Holds
<1> QED
  BY <1>1, <1>2, <1>3, <1>4, <1>5, <1>6, <1>7, <1>8, <1>9 DEF Next

LEMMA InvHolds == Spec => []Inv
BY InitInv, StepInv, PTL DEF Spec

(* Type correctness of the registry, the ports and their closures.          *)
THEOREM TypeCorrect == Spec => []TypeOK
BY InvHolds, PTL DEF Inv

(* A connected field is in the window its tab's registered port was opened  *)
(* in: a tab that moved leaves no ghost (fieldPorts and fieldPortGone).     *)
THEOREM NoGhosts == Spec => []FieldHasItsPort
BY InvHolds, PTL DEF Inv

(* The embed behind a ready panel knows the field and the text of its       *)
(* window and nothing else, whichever ports were replaced or reloaded.      *)
THEOREM PanelsAgree == Spec => []PanelMatchesRegistry
BY InvHolds, PTL DEF Inv

(* A count on a tab's icon belongs to a connected field of that tab.        *)
THEOREM BadgesAgree == Spec => []BadgeMeansField
BY InvHolds, PTL DEF Inv

-----------------------------------------------------------------------------
(* What the operations of the scripts do to a port.                         *)
LEMMA SaidFacts ==
  ASSUME NEW x \in PortWire, NEW m \in FieldSays
  PROVE  /\ Said(x, <<m>>) \in PortWire /\ Said(x, <<m>>) # None /\ Said(x, <<>>) = x
         /\ Said(x, <<m>>).of = x.of /\ Said(x, <<m>>).live = x.live
         /\ Said(x, <<m>>).down = x.down
         /\ Said(x, <<m>>).up = IF x.live THEN Append(x.up, m) ELSE x.up
<1>1. /\ x.up \in Seq(FieldSays) /\ x.up \o <<m>> = Append(x.up, m) /\ x.up \o <<>> = x.up
      /\ Append(x.up, m) \in Seq(FieldSays)
  BY WireFacts, AppendFacts, ConcatEmptySeq
<1>2. Said(x, <<m>>) = IF x.live THEN [x EXCEPT !.up = Append(x.up, m)] ELSE x
  BY <1>1 DEF Said
<1>3. Said(x, <<>>) = x
  BY <1>1 DEF Said, PortWire
<1>4. [x EXCEPT !.up = Append(x.up, m)] \in PortWire
  BY <1>1 DEF PortWire
<1>5. Said(x, <<m>>) \in PortWire
  BY <1>2, <1>4
<1>6. /\ Said(x, <<m>>).of = x.of /\ Said(x, <<m>>).live = x.live
      /\ Said(x, <<m>>).down = x.down
      /\ Said(x, <<m>>).up = IF x.live THEN Append(x.up, m) ELSE x.up
  BY <1>2 DEF PortWire
<1> QED BY <1>3, <1>5, <1>6, WiresAssumption

LEMMA ThreeParts ==
  ASSUME NEW a \in Seq(FieldSays), NEW b \in Seq(FieldSays), NEW c \in Seq(FieldSays)
  PROVE  (a \o b) \o c = a \o (b \o c)
BY ConcatAssociative

LEMMA SaidTwice ==
  ASSUME NEW x \in PortWire, NEW m \in FieldSays, NEW ms \in Seq(FieldSays)
  PROVE  Said(x, <<m>> \o ms) = Said(Said(x, <<m>>), ms)
<1> DEFINE up == x.up
           one == <<m>>
<1>1. up \in Seq(FieldSays) /\ one \in Seq(FieldSays)
  BY WireFacts
<1> HIDE DEF one, up
<1>2. (up \o one) \o ms = up \o (one \o ms)
  BY <1>1, ThreeParts
<1>3. ASSUME x.live PROVE Said(x, one \o ms) = Said(Said(x, one), ms)
  <2>1. Said(x, one \o ms) = [x EXCEPT !.up = up \o (one \o ms)]
    BY <1>3 DEF Said, up
  <2>2. Said(x, one) = [x EXCEPT !.up = up \o one]
    BY <1>3 DEF Said, up
  <2>3. Said(x, one).live /\ Said(x, one).up = up \o one
    BY <1>3, <2>2 DEF PortWire
  <2>4. Said(Said(x, one), ms) = [Said(x, one) EXCEPT !.up = (up \o one) \o ms]
    BY <2>3 DEF Said
  <2> QED BY <1>2, <2>1, <2>2, <2>4 DEF PortWire
<1>4. ASSUME ~x.live PROVE Said(x, one \o ms) = Said(Said(x, one), ms)
  BY <1>4 DEF Said
<1> QED BY <1>3, <1>4 DEF one

\* A script says one thing on port p: it connects, types or ends.
Sending(sc, con, t, p, m, sc2, con2) ==
  /\ \A u \in Tabs : u # t => sc2[u] = sc[u]
  /\ \A f \in Fields : con[f] # None => con2[f] # None
  /\ sc2[t].port = p
  /\ \/ /\ Connects(m) /\ con[m.id] = None /\ con2[m.id] # None
        /\ sc2[t].session = m.id /\ sc2[t].text = m.text
     \/ /\ m.type = "textChanged" /\ m.id = sc[t].session
        /\ sc2[t].session = m.id /\ sc2[t].text = m.text
     \/ /\ m.type = "fieldDisconnected" /\ m.id = sc[t].session
        /\ sc2[t].session = None
LEMMA Saying ==
  ASSUME NEW ps, NEW sc, NEW ws, NEW cap, NEW fps, NEW con, NEW drop,
         FieldSide(ps, sc, ws, cap, fps, con, drop),
         NEW t \in Tabs, NEW p \in FieldPorts, sc[t].port = p,
         NEW m \in FieldSays, NEW sc2 \in [Tabs -> Scout],
         NEW con2 \in [Fields -> Servers \cup {None}],
         NEW ps2, ps2 = [ps EXCEPT ![p] = Said(ps[p], <<m>>)],
         Sending(sc, con, t, p, m, sc2, con2)
  PROVE  FieldSide(ps2, sc2, ws, cap, fps, con2, drop)
<1> USE DEF Sending
<1>1. Parts(ps, sc, ws, cap, fps) /\ Roles(ps, sc, ws, cap, fps)
  BY TypedFacts, SideFacts DEF FieldSide
<1>2. ps[p] # None /\ ps[p].of = t /\ ps[p] \in PortWire /\ p # None
  BY <1>1 DEF Parts, Roles
<1>3. ps \in [FieldPorts -> PortWire \cup {None}]
  BY DEF FieldSide, Typed
<1>4. /\ ps2[p] \in PortWire /\ ps2[p] # None
      /\ ps2[p].of = t /\ ps2[p].live = ps[p].live /\ ps2[p].down = ps[p].down
      /\ ps2[p].up = IF ps[p].live THEN Append(ps[p].up, m) ELSE ps[p].up
      /\ \A e \in FieldPorts : e # p => ps2[e] = ps[e]
  BY <1>2, <1>3, SaidFacts
<1>5. Typed(ps2, sc2, ws, cap, fps, con2, drop)
  BY <1>2, <1>3, <1>4 DEF FieldSide, Typed
<1>6. Detaches(ps2[p]) = Detaches(ps[p])
  BY <1>4 DEF Detaches
<1>7. CASE ps[p].live
  <2>1. m.type # "open" /\ m.type # "closed"
    BY DEF Connects
  <2>2. SayStep(ps, sc, con, t, p, m, ps2, sc2, con2)
    BY <1>2, <1>4, <1>6, <1>7, <2>1 DEF SayStep
  <2> QED BY <1>5, <2>2, SayKeeps
<1>8. CASE ~ps[p].live
  <2>1. ScoutStep(ps, sc, con, drop, t, ps2, sc2, con2, drop)
    BY <1>2, <1>4, <1>6, <1>8 DEF ScoutStep
  <2> QED BY <1>5, <2>1, ScoutKeeps
<1> QED BY <1>7, <1>8

LEMMA PortReady ==
  ASSUME FieldsSound, location \in [Tabs -> Windows], NEW t \in Tabs, CanSend(t)
  PROVE  /\ PortOf(t) \in FieldPorts
         /\ FieldSide(SentBy(t, <<>>), [scout EXCEPT ![t].port = PortOf(t)],
                      windows, captured, fieldPorts, consent, dropped)
         /\ \A ms \in Seq(FieldSays) :
              SentBy(t, ms) = [SentBy(t, <<>>) EXCEPT ![PortOf(t)] =
                                Said(SentBy(t, <<>>)[PortOf(t)], ms)]
<1> DEFINE p == PortOf(t)
           open == [type |-> "open", window |-> location[t]]
           sc == [scout EXCEPT ![t].port = p]
<1>1. Parts(ports, scout, windows, captured, fieldPorts)
      /\ Roles(ports, scout, windows, captured, fieldPorts)
  BY TypedFacts, SideFacts DEF FieldSide, FieldsSound
<1>2. /\ ports \in [FieldPorts -> PortWire \cup {None}] /\ scout \in [Tabs -> Scout]
      /\ None \notin FieldPorts /\ FieldPorts \subseteq Nat
  BY <1>1 DEF FieldsSound, FieldSide, Typed, Parts
<1>3. CASE scout[t].port # None
  <2>1. p = scout[t].port /\ p \in FieldPorts /\ ports[p] \in PortWire
    BY <1>1, <1>3 DEF PortOf, Roles, Parts
  <2>2. sc = scout
    BY <1>2, <2>1 DEF Scout
  <2>3. /\ \A ms \in Seq(FieldSays) : SentBy(t, ms) = [ports EXCEPT ![p] = Said(ports[p], ms)]
        /\ SentBy(t, <<>>) = [ports EXCEPT ![p] = Said(ports[p], <<>>)]
    BY <1>3 DEF SentBy
  <2>4. Said(ports[p], <<>>) = ports[p]
    BY <2>1, ConcatEmptySeq, WireFacts DEF Said, PortWire
  <2>5. SentBy(t, <<>>) = ports
    BY <1>2, <2>1, <2>3, <2>4
  <2> QED BY <2>1, <2>2, <2>3, <2>5 DEF FieldsSound
<1>4. CASE scout[t].port = None
  <2>1. p = Next1(ports) /\ Fresh(ports) # {}
    BY <1>4 DEF PortOf, CanSend
  <2>2. p \in FieldPorts /\ ports[p] = None /\ \A e \in FieldPorts : e < p => ports[e] # None
    <3>1. DOMAIN ports = FieldPorts /\ FieldPorts \in SUBSET Nat
      BY <1>2
    <3> QED BY <2>1, <3>1, NextIsFree
  <2> DEFINE w0 == Said(Wire(t), <<open>>)
  <2>3. Wire(t) \in PortWire /\ open \in FieldSays
    BY EmptySeq DEF Wire, PortWire, FieldSays
  <2>4. w0 \in PortWire /\ w0 # None /\ w0.of = t /\ w0.live = TRUE
        /\ w0.down = <<>> /\ w0.up = Append(<<>>, open)
    <3>1. Wire(t).of = t /\ Wire(t).live = TRUE /\ Wire(t).down = <<>> /\ Wire(t).up = <<>>
      BY DEF Wire
    <3> DEFINE x == Wire(t)
    <3>2. x \in PortWire
      BY <2>3
    <3> HIDE DEF x
    <3>3. LET y == Said(x, <<open>>)
          IN  /\ y \in PortWire /\ y # None /\ y.of = x.of /\ y.live = x.live /\ y.down = x.down
              /\ y.up = IF x.live THEN Append(x.up, open) ELSE x.up
      BY <2>3, <3>2, SaidFacts
    <3> QED BY <3>1, <3>3 DEF x
  <2>5. \A ms \in Seq(FieldSays) : Said(Wire(t), <<open>> \o ms) = Said(w0, ms)
    BY <2>3, SaidTwice
  <2>6. Said(w0, <<>>) = w0 /\ <<>> \in Seq(FieldSays)
    BY <2>4, <2>3, SaidFacts, EmptySeq
  <2>7. \A ms \in Seq(FieldSays) : SentBy(t, ms) = [ports EXCEPT ![p] = Said(Wire(t), <<open>> \o ms)]
    BY <1>4 DEF SentBy
  <2> DEFINE ps == SentBy(t, <<>>)
  <2> HIDE DEF w0, open
  <2>8. ps = [ports EXCEPT ![p] = w0]
    BY <2>5, <2>6, <2>7
  <2>9. ps[p] = w0 /\ ps \in [FieldPorts -> PortWire \cup {None}] /\ \A e \in FieldPorts : e # p => ps[e] = ports[e]
    BY <1>2, <2>2, <2>4, <2>8
  <2>10. \A ms \in Seq(FieldSays) : SentBy(t, ms) = [ps EXCEPT ![p] = Said(w0, ms)]
    BY <1>2, <2>2, <2>5, <2>7, <2>8
  <2>11. /\ sc \in [Tabs -> Scout] /\ sc[t].port = p /\ sc[t].session = scout[t].session
         /\ \A u \in Tabs : u # t => sc[u] = scout[u]
    BY <1>2, <2>2 DEF Scout
  <2>12. scout[t].session = None
    BY <1>1, <1>4 DEF Roles
  <2> HIDE DEF ps, sc, p, open
  <2>13. Typed(ps, sc, windows, captured, fieldPorts, consent, dropped)
    BY <2>9, <2>11 DEF FieldsSound, FieldSide, Typed
  <2>14. Len(ps[p].up) = 1 /\ ps[p].up[1].type = "open" /\ Len(ps[p].down) = 0
    <3>1. Len(Append(<<>>, open)) = 1 /\ Append(<<>>, open)[1] = open /\ Len(<<>>) = 0
      BY AppendFacts, EmptySeq
    <3>2. open.type = "open"
      BY DEF open
    <3> QED BY <2>4, <2>9, <3>1, <3>2
  <2>15. ps[p] # None /\ ps[p].of = t /\ ps[p].live = TRUE
    BY <2>4, <2>9
  <2>16. OpenStep(ports, scout, t, p, ps, sc)
    BY <1>4, <2>2, <2>9, <2>11, <2>12, <2>14, <2>15 DEF OpenStep
  <2>17. FieldSide(ps, sc, windows, captured, fieldPorts, consent, dropped)
    BY <2>2, <2>13, <2>16, OpenKeeps DEF FieldsSound
  <2> QED BY <2>2, <2>9, <2>10, <2>17 DEF ps, sc, p
<1> QED BY <1>3, <1>4

LEMMA SendKeeps ==
  ASSUME FieldsSound, location \in [Tabs -> Windows],
         NEW t \in Tabs, CanSend(t), NEW m \in FieldSays,
         NEW sc2 \in [Tabs -> Scout], NEW con2 \in [Fields -> Servers \cup {None}],
         Sending(scout, consent, t, PortOf(t), m, sc2, con2)
  PROVE  FieldSide(SentBy(t, <<m>>), sc2, windows, captured, fieldPorts, con2, dropped)
<1> DEFINE p == PortOf(t)
           ps == SentBy(t, <<>>)
           sc == [scout EXCEPT ![t].port = p]
           ps2 == SentBy(t, <<m>>)
<1>1. /\ p \in FieldPorts
      /\ FieldSide(ps, sc, windows, captured, fieldPorts, consent, dropped)
      /\ ps2 = [ps EXCEPT ![p] = Said(ps[p], <<m>>)]
  <2>1. <<m>> \in Seq(FieldSays)
    OBVIOUS
  <2> QED BY <2>1, PortReady
<1>2. /\ sc[t].port = p /\ sc[t].session = scout[t].session /\ \A u \in Tabs : u # t => sc[u] = scout[u]
  BY DEF FieldsSound, FieldSide, Typed, Scout
<1> HIDE DEF ps, ps2, sc
<1>3. FieldSide(ps2, sc2, windows, captured, fieldPorts, con2, dropped)
  <2>1. Sending(sc, consent, t, p, m, sc2, con2)
    BY <1>2 DEF Sending
  <2> QED BY <1>1, <1>2, <2>1, Saying
<1> QED BY <1>3 DEF ps2

LEMMA MessageFacts ==
  ASSUME NEW f \in Fields, NEW x \in Texts
  PROVE  /\ ConnectedMsg(f, x) \in FieldSays /\ Connects(ConnectedMsg(f, x))
         /\ ConnectedMsg(f, x).id = f /\ ConnectedMsg(f, x).text = x
         /\ DisconnectedMsg(f) \in FieldSays /\ DisconnectedMsg(f).id = f
         /\ DisconnectedMsg(f).type = "fieldDisconnected"
         /\ [type |-> "textChanged", id |-> f, text |-> x] \in FieldSays
BY DEF ConnectedMsg, DisconnectedMsg, FieldSays, Connects

LEMMA FreshField ==
  ASSUME FieldsSound, Fresh(consent) # {}
  PROVE  Next1(consent) \in Fields /\ consent[Next1(consent)] = None /\ Next1(consent) # None
<1>1. consent \in [Fields -> Servers \cup {None}]
  BY DEF FieldsSound, FieldSide, Typed
<1>2. DOMAIN consent = Fields /\ Fields \in SUBSET Nat
  BY <1>1, BoundsAssumption
<1>3. Next1(consent) \in Fields /\ consent[Next1(consent)] = None
  BY <1>2, NextIsFree
<1> QED BY <1>3, SetsAssumption

LEMMA ConnectSound ==
  ASSUME ClientTypeOK, FieldsSound, NEW t \in Tabs, Connect(t)
  PROVE  FieldsSound'
<1> DEFINE f == Next1(consent)
           m == ConnectedMsg(f, 0)
<1>1. /\ Fresh(consent) # {} /\ CanSend(t) /\ consent' = [consent EXCEPT ![f] = server]
      /\ ports' = SentBy(t, <<m>>)
      /\ scout' = [scout EXCEPT ![t] = [port |-> PortOf(t), session |-> f, seeking |-> FALSE,
                                        text |-> 0, since |-> server]]
      /\ UNCHANGED <<windows, captured, fieldPorts, dropped>>
  BY DEF Connect, Greeting, registryState, registryVars, portVars
<1>2. /\ f \in Fields /\ consent[f] = None /\ 0 \in Texts /\ server \in Servers /\ server # None
      /\ location \in [Tabs -> Windows] /\ scout \in [Tabs -> Scout]
      /\ consent \in [Fields -> Servers \cup {None}]
  BY <1>1, FreshField, BoundsAssumption DEF ClientTypeOK, Servers
<1>3. m \in FieldSays /\ Connects(m) /\ m.id = f /\ m.text = 0
  BY <1>2, MessageFacts
<1>4. PortOf(t) \in FieldPorts
  BY <1>1, <1>2, PortReady
<1> HIDE DEF m, f
<1>5. scout' \in [Tabs -> Scout] /\ consent' \in [Fields -> Servers \cup {None}]
  BY <1>1, <1>2, <1>4 DEF Scout
<1>6. Sending(scout, consent, t, PortOf(t), m, scout', consent')
  BY <1>1, <1>2, <1>3 DEF Sending
<1>7. FieldSide(SentBy(t, <<m>>), scout', windows, captured, fieldPorts, consent', dropped)
  BY <1>1, <1>2, <1>3, <1>5, <1>6, SendKeeps
<1> QED BY <1>1, <1>7 DEF FieldsSound

LEMMA ReacquireSound ==
  ASSUME ClientTypeOK, FieldsSound, NEW t \in Tabs, Reacquire(t)
  PROVE  FieldsSound'
<1> DEFINE f == Next1(consent)
           m == ConnectedMsg(f, 0)
<1>1. /\ Fresh(consent) # {} /\ CanSend(t) /\ consent' = [consent EXCEPT ![f] = scout[t].since]
      /\ ports' = SentBy(t, <<m>>)
      /\ scout' = [scout EXCEPT ![t] = [port |-> PortOf(t), session |-> f, seeking |-> FALSE,
                                        text |-> 0, since |-> scout[t].since]]
      /\ UNCHANGED <<windows, captured, fieldPorts, dropped>>
  BY DEF Reacquire, Greeting, registryState, registryVars, portVars
<1>2. /\ f \in Fields /\ consent[f] = None /\ 0 \in Texts
      /\ location \in [Tabs -> Windows] /\ scout \in [Tabs -> Scout]
      /\ scout[t].since \in Servers /\ scout[t].since # None
      /\ consent \in [Fields -> Servers \cup {None}]
  BY <1>1, FreshField, BoundsAssumption DEF ClientTypeOK, Scout, Servers
<1>3. m \in FieldSays /\ Connects(m) /\ m.id = f /\ m.text = 0
  BY <1>2, MessageFacts
<1>4. PortOf(t) \in FieldPorts
  BY <1>1, <1>2, PortReady
<1> HIDE DEF m, f
<1>5. scout' \in [Tabs -> Scout] /\ consent' \in [Fields -> Servers \cup {None}]
  BY <1>1, <1>2, <1>4 DEF Scout
<1>6. Sending(scout, consent, t, PortOf(t), m, scout', consent')
  BY <1>1, <1>2, <1>3 DEF Sending
<1>7. FieldSide(SentBy(t, <<m>>), scout', windows, captured, fieldPorts, consent', dropped)
  BY <1>1, <1>2, <1>3, <1>5, <1>6, SendKeeps
<1> QED BY <1>1, <1>7 DEF FieldsSound

LEMMA HoverSound ==
  ASSUME ClientTypeOK, FieldsSound, NEW t \in Tabs, Hover(t)
  PROVE  FieldsSound'
<1>1. /\ CanSend(t) /\ ports' = SentBy(t, <<>>) /\ scout' = [scout EXCEPT ![t].port = PortOf(t)]
      /\ UNCHANGED <<windows, captured, fieldPorts, consent, dropped>>
  BY DEF Hover, registryState, registryVars, portVars
<1> QED BY <1>1, PortReady DEF FieldsSound, ClientTypeOK

LEMMA TypeSound ==
  ASSUME ClientTypeOK, FieldsSound, NEW t \in Tabs, Type(t)
  PROVE  FieldsSound'
<1> DEFINE f == scout[t].session
           x == scout[t].text + 1
           m == [type |-> "textChanged", id |-> f, text |-> x]
<1>1. /\ f # None /\ x \in Texts /\ ports' = SentBy(t, <<m>>)
      /\ scout' = [scout EXCEPT ![t].text = x]
      /\ UNCHANGED <<windows, captured, fieldPorts, consent, dropped>>
  BY DEF Type, registryState, registryVars, portVars
<1>2. /\ location \in [Tabs -> Windows] /\ scout \in [Tabs -> Scout] /\ f \in Fields
      /\ consent \in [Fields -> Servers \cup {None}]
  BY <1>1 DEF ClientTypeOK, Scout
<1>f. f = scout[t].session
  OBVIOUS
<1>3. scout[t].port # None /\ CanSend(t) /\ PortOf(t) = scout[t].port
  BY <1>1, SideFacts DEF FieldsSound, Roles, CanSend, PortOf
<1>4. m \in FieldSays /\ m.type = "textChanged" /\ m.id = f /\ m.text = x
  BY <1>1, <1>2, MessageFacts
<1> HIDE DEF m, x, f
<1>5. /\ scout' \in [Tabs -> Scout] /\ \A u \in Tabs : u # t => scout'[u] = scout[u]
      /\ scout'[t].port = scout[t].port /\ scout'[t].session = f /\ scout'[t].text = x
  BY <1>1, <1>2, <1>f DEF Scout
<1>6. Sending(scout, consent, t, PortOf(t), m, scout', consent)
  <2>1. scout'[t].port = PortOf(t)
    BY <1>3, <1>5
  <2>2. m.id = scout[t].session
    BY <1>4, <1>f
  <2>3. scout'[t].session = m.id
    BY <1>4, <1>5
  <2>4. scout'[t].text = m.text
    BY <1>4, <1>5
  <2> QED BY <1>4, <1>5, <2>1, <2>2, <2>3, <2>4, Zenon DEF Sending
<1>7. FieldSide(SentBy(t, <<m>>), scout', windows, captured, fieldPorts, consent, dropped)
  BY <1>2, <1>3, <1>4, <1>5, <1>6, SendKeeps
<1> QED BY <1>1, <1>7 DEF FieldsSound

\* A script with a session or without one says all it has to on stopping.
LEMMA StopKeeps ==
  ASSUME FieldsSound, location \in [Tabs -> Windows], NEW t \in Tabs, scout[t].port # None,
         NEW sc2 \in [Tabs -> Scout], \A u \in Tabs : u # t => sc2[u] = scout[u],
         sc2[t].port = scout[t].port, sc2[t].session = None
  PROVE  FieldSide(SentBy(t, Stopping(t)), sc2, windows, captured, fieldPorts, consent, dropped)
<1>1. CanSend(t) /\ PortOf(t) = scout[t].port
  BY DEF CanSend, PortOf
<1>2. scout \in [Tabs -> Scout] /\ consent \in [Fields -> Servers \cup {None}]
  BY DEF FieldsSound, FieldSide, Typed
<1>3. CASE scout[t].session # None
  <2> DEFINE f == scout[t].session
             m == DisconnectedMsg(f)
  <2>1. f \in Fields /\ 0 \in Texts
    BY <1>2, <1>3, BoundsAssumption DEF Scout
  <2>2. m \in FieldSays /\ m.id = f /\ m.type = "fieldDisconnected" /\ Stopping(t) = <<m>>
    BY <1>3, <2>1, MessageFacts DEF Stopping
  <2> HIDE DEF m
  <2>3. Sending(scout, consent, t, PortOf(t), m, sc2, consent)
    BY <1>1, <2>2 DEF Sending
  <2>4. FieldSide(SentBy(t, <<m>>), sc2, windows, captured, fieldPorts, consent, dropped)
    BY <1>1, <1>2, <2>2, <2>3, SendKeeps
  <2> QED BY <2>2, <2>4
<1>4. CASE scout[t].session = None
  <2> DEFINE ps == SentBy(t, <<>>)
             sc == [scout EXCEPT ![t].port = PortOf(t)]
  <2>1. FieldSide(ps, sc, windows, captured, fieldPorts, consent, dropped)
    BY <1>1, PortReady
  <2>2. /\ sc[t].port = sc2[t].port /\ sc[t].session = None
        /\ \A u \in Tabs : u # t => sc2[u] = sc[u]
    BY <1>1, <1>2, <1>4 DEF Scout
  <2> HIDE DEF ps, sc
  <2>3. ScoutStep(ps, sc, consent, dropped, t, ps, sc2, consent, dropped)
    BY <2>2 DEF ScoutStep
  <2>4. Typed(ps, sc2, windows, captured, fieldPorts, consent, dropped)
    BY <2>1 DEF FieldSide, Typed
  <2>5. FieldSide(ps, sc2, windows, captured, fieldPorts, consent, dropped)
    BY <2>1, <2>3, <2>4, ScoutKeeps
  <2> QED BY <1>4, <2>5 DEF ps, Stopping
<1> QED BY <1>3, <1>4

LEMMA StopSound ==
  ASSUME ClientTypeOK, FieldsSound, NEW t \in Tabs, Stop(t) \/ Vanish(t)
  PROVE  FieldsSound'
<1>1. /\ scout[t].port # None /\ ports' = SentBy(t, Stopping(t))
      /\ \/ scout' = [scout EXCEPT ![t].session = None, ![t].seeking = FALSE]
         \/ scout' = [scout EXCEPT ![t].session = None, ![t].seeking = TRUE]
      /\ UNCHANGED <<windows, captured, fieldPorts, consent, dropped>>
  <2>1. scout[t].session # None => scout[t].port # None
    BY SideFacts DEF FieldsSound, Roles
  <2> QED BY <2>1 DEF Stop, Vanish, StopSession, registryState, registryVars, portVars
<1>2. scout \in [Tabs -> Scout] /\ location \in [Tabs -> Windows]
  BY DEF ClientTypeOK
<1>3. /\ scout' \in [Tabs -> Scout] /\ \A u \in Tabs : u # t => scout'[u] = scout[u]
      /\ scout'[t].port = scout[t].port /\ scout'[t].session = None
  BY <1>1, <1>2 DEF Scout
<1>4. FieldSide(SentBy(t, Stopping(t)), scout', windows, captured, fieldPorts, consent, dropped)
  BY <1>1, <1>2, <1>3, StopKeeps
<1> QED BY <1>1, <1>4 DEF FieldsSound

\* What the script does by itself.
LEMMA AloneKeeps ==
  ASSUME FieldsSound, NEW t \in Tabs, NEW sc2 \in [Tabs -> Scout], NEW drop2 \in SUBSET Fields,
         ScoutStep(ports, scout, consent, dropped, t, ports, sc2, consent, drop2)
  PROVE  FieldSide(ports, sc2, windows, captured, fieldPorts, consent, drop2)
<1>1. Typed(ports, sc2, windows, captured, fieldPorts, consent, drop2)
  BY DEF FieldsSound, FieldSide, Typed
<1> QED BY <1>1, ScoutKeeps DEF FieldsSound

LEMMA GiveUpSound ==
  ASSUME ClientTypeOK, FieldsSound, NEW t \in Tabs, GiveUp(t)
  PROVE  FieldsSound'
<1>1. /\ scout' = [scout EXCEPT ![t].seeking = FALSE]
      /\ UNCHANGED <<ports, windows, captured, fieldPorts, consent, dropped>>
  BY DEF GiveUp, registryState, registryVars, portVars
<1>2. scout \in [Tabs -> Scout] /\ dropped \in SUBSET Fields
  BY DEF ClientTypeOK
<1>3. /\ scout' \in [Tabs -> Scout] /\ \A u \in Tabs : u # t => scout'[u] = scout[u]
      /\ scout'[t].port = scout[t].port /\ scout'[t].session = scout[t].session
      /\ scout'[t].text = scout[t].text
  BY <1>1, <1>2 DEF Scout
<1>4. ScoutStep(ports, scout, consent, dropped, t, ports, scout', consent, dropped)
  BY <1>3 DEF ScoutStep
<1>5. FieldSide(ports, scout', windows, captured, fieldPorts, consent, dropped)
  BY <1>2, <1>3, <1>4, AloneKeeps
<1> QED BY <1>1, <1>5 DEF FieldsSound

LEMMA ScoutServerSound ==
  ASSUME ClientTypeOK, FieldsSound, NEW t \in Tabs, ScoutServer(t)
  PROVE  FieldsSound'
<1>1. /\ scout' = [scout EXCEPT ![t].session = None, ![t].seeking = FALSE]
      /\ dropped' = dropped \cup Lost(t)
      /\ UNCHANGED <<ports, windows, captured, fieldPorts, consent>>
  BY DEF ScoutServer, registryState, registryVars, portVars
<1>2. scout \in [Tabs -> Scout] /\ dropped \in SUBSET Fields
  BY DEF ClientTypeOK
<1>3. /\ scout' \in [Tabs -> Scout] /\ \A u \in Tabs : u # t => scout'[u] = scout[u]
      /\ scout'[t].port = scout[t].port /\ scout'[t].session = None
  BY <1>1, <1>2 DEF Scout
<1>4. Lost(t) \subseteq Fields /\ (scout[t].session # None => scout[t].session \in Lost(t))
  BY <1>2 DEF Lost, Scout
<1>5. dropped' \in SUBSET Fields
  BY <1>1, <1>2, <1>4
<1>6. ScoutStep(ports, scout, consent, dropped, t, ports, scout', consent, dropped')
  BY <1>1, <1>3, <1>4 DEF ScoutStep
<1>7. FieldSide(ports, scout', windows, captured, fieldPorts, consent, dropped')
  BY <1>3, <1>5, <1>6, AloneKeeps
<1> QED BY <1>1, <1>7 DEF FieldsSound

LEMMA PortGoneSound ==
  ASSUME ClientTypeOK, FieldsSound, NEW t \in Tabs, ScoutPortGone(t)
  PROVE  FieldsSound'
<1>1. /\ scout' = [scout EXCEPT ![t] = NoScout]
      /\ scout[t].port # None /\ ~ports[scout[t].port].live
      /\ UNCHANGED <<ports, windows, captured, fieldPorts, consent, dropped>>
  BY DEF ScoutPortGone, registryState, registryVars, portVars
<1>2. scout \in [Tabs -> Scout] /\ dropped \in SUBSET Fields /\ NoScout \in Scout
  BY BoundsAssumption DEF ClientTypeOK, NoScout, Scout, Servers
<1>3. /\ scout' \in [Tabs -> Scout] /\ \A u \in Tabs : u # t => scout'[u] = scout[u]
      /\ scout'[t].port = None /\ scout'[t].session = None
  BY <1>1, <1>2 DEF NoScout
<1>4. ScoutStep(ports, scout, consent, dropped, t, ports, scout', consent, dropped)
  BY <1>1, <1>3 DEF ScoutStep
<1>5. FieldSide(ports, scout', windows, captured, fieldPorts, consent, dropped)
  BY <1>2, <1>3, <1>4, AloneKeeps
<1> QED BY <1>1, <1>5 DEF FieldsSound

LEMMA NavigateSound ==
  ASSUME ClientTypeOK, FieldsSound, NEW t \in Tabs, Navigate(t)
  PROVE  FieldsSound'
<1> DEFINE p == scout[t].port
           x == ports[p]
           y == Said(x, Stopping(t))
           z == Said(x, Stopping(t) \o <<Closed>>)
           ps == [ports EXCEPT ![p] = y]
           sc == [scout EXCEPT ![t].session = None]
           ps2 == [ports EXCEPT ![p] = [z EXCEPT !.down = <<>>]]
<1>1. /\ p # None /\ ports' = ps2
      /\ scout' = [scout EXCEPT ![t] = NoScout]
      /\ UNCHANGED <<windows, captured, fieldPorts, consent, dropped>>
  BY DEF Navigate, registryState, registryVars, portVars
<1>2. scout \in [Tabs -> Scout] /\ location \in [Tabs -> Windows] /\ NoScout \in Scout
      /\ ports \in [FieldPorts -> PortWire \cup {None}]
  BY BoundsAssumption DEF ClientTypeOK, NoScout, Scout, Servers
<1>3. p \in FieldPorts /\ x \in PortWire /\ x.of = t /\ x # None
  BY <1>1, SideFacts, TypedFacts DEF FieldsSound, FieldSide, Roles, Parts
<1>4. SentBy(t, Stopping(t)) = ps
  BY <1>1 DEF SentBy, PortOf
<1>5. /\ sc \in [Tabs -> Scout] /\ \A u \in Tabs : u # t => sc[u] = scout[u]
      /\ sc[t].port = p /\ sc[t].session = None
  BY <1>2 DEF Scout
<1>6. FieldSide(ps, sc, windows, captured, fieldPorts, consent, dropped)
  <2>1. FieldSide(SentBy(t, Stopping(t)), sc, windows, captured, fieldPorts, consent, dropped)
    <3> HIDE DEF sc
    <3> QED BY <1>1, <1>2, <1>5, StopKeeps
  <2> QED BY <1>4, <2>1
<1>7. /\ y \in PortWire /\ y.of = t /\ y.live = x.live
      /\ z \in PortWire /\ z.of = t /\ z.live = x.live
      /\ z.up = IF x.live THEN Append(y.up, Closed) ELSE y.up
  <2>1. Closed \in FieldSays
    BY DEF Closed, FieldSays
  <2>2. ASSUME NEW v \in PortWire
        PROVE  /\ Said(v, <<Closed>>) \in PortWire /\ Said(v, <<Closed>>).of = v.of
               /\ Said(v, <<Closed>>).live = v.live
               /\ Said(v, <<Closed>>).up = IF v.live THEN Append(v.up, Closed) ELSE v.up
    BY <2>1, SaidFacts
  <2>3. CASE scout[t].session # None
    <3> DEFINE m == DisconnectedMsg(scout[t].session)
    <3>1. scout[t].session \in Fields /\ 0 \in Texts
      BY <1>2, <2>3, BoundsAssumption DEF Scout
    <3>2. m \in FieldSays /\ Stopping(t) = <<m>>
      BY <2>3, <3>1, MessageFacts DEF Stopping
    <3>3. y \in PortWire /\ y.of = x.of /\ y.live = x.live
      BY <1>3, <3>2, SaidFacts
    <3>4. <<Closed>> \in Seq(FieldSays)
      BY <2>1
    <3>5. z = Said(y, <<Closed>>)
      BY <1>3, <3>2, <3>4, SaidTwice
    <3> HIDE DEF y, z
    <3> QED BY <1>3, <2>2, <3>3, <3>5
  <2>4. CASE scout[t].session = None
    <3>1. Stopping(t) = <<>> /\ <<Closed>> \in Seq(FieldSays)
      BY <2>1, <2>4 DEF Stopping
    <3>2. <<>> \o <<Closed>> = <<Closed>>
      BY <3>1, ConcatEmptySeq
    <3>3. y = x /\ z = Said(x, <<Closed>>)
      BY <1>3, <2>1, <3>1, <3>2, SaidFacts
    <3> HIDE DEF y, z
    <3> QED BY <1>3, <2>2, <3>3
  <2> QED BY <2>3, <2>4
<1>8. /\ ps2 \in [FieldPorts -> PortWire \cup {None}]
      /\ ps[p] = y /\ ps2[p] \in PortWire /\ ps2[p] # None /\ ps2[p].of = t
      /\ ps2[p].live = x.live /\ ps2[p].up = z.up /\ ps2[p].down = <<>>
      /\ \A e \in FieldPorts : e # p => ps2[e] = ps[e]
  <2> HIDE DEF y, z
  <2>1. [z EXCEPT !.down = <<>>] \in PortWire
    BY <1>7, EmptySeq DEF PortWire
  <2> QED BY <1>2, <1>3, <1>7, <2>1, WiresAssumption DEF PortWire
<1>9. /\ scout' \in [Tabs -> Scout] /\ \A u \in Tabs : u # t => scout'[u] = sc[u]
      /\ scout'[t].port = None /\ scout'[t].session = None
  BY <1>1, <1>2, <1>5 DEF NoScout
<1>10. y # None
  BY <1>7, WiresAssumption
<1> HIDE DEF ps, ps2, sc, z, y, p, x
<1>11. Detaches(ps2[p]) = {}
  BY <1>8 DEF Detaches, Idx
<1>12. Typed(ps2, scout', windows, captured, fieldPorts, consent, dropped)
  BY <1>6, <1>8, <1>9 DEF FieldSide, Typed
<1>13. CASE x.live
  <2>1. Closed \in FieldSays /\ Closed.type = "closed" /\ ~Connects(Closed)
    BY DEF Closed, FieldSays, Connects
  <2>2. ps2[p].live = TRUE /\ ps2[p].up = Append(ps[p].up, Closed) /\ ps[p].live
    BY <1>7, <1>8, <1>13
  <2>3. SayStep(ps, sc, consent, t, p, Closed, ps2, scout', consent)
    BY <1>5, <1>8, <1>9, <1>11, <2>1, <2>2 DEF SayStep
  <2>4. FieldSide(ps2, scout', windows, captured, fieldPorts, consent, dropped)
    BY <1>3, <1>6, <1>12, <2>1, <2>3, SayKeeps
  <2> QED BY <1>1, <2>4 DEF FieldsSound
<1>14. CASE ~x.live
  <2>1. /\ \A e \in FieldPorts : ps2[e] = None <=> ps[e] = None
        /\ \A e \in FieldPorts : ps[e] # None =>
             /\ ps2[e].of = ps[e].of /\ ps2[e].live = ps[e].live /\ ps2[e].up = ps[e].up
             /\ Detaches(ps2[e]) \subseteq Detaches(ps[e])
             /\ e # sc[t].port => Detaches(ps2[e]) = Detaches(ps[e])
    BY <1>5, <1>7, <1>8, <1>10, <1>11, <1>14
  <2>2. sc[t].port # None /\ ~ps[sc[t].port].live
    BY <1>1, <1>5, <1>7, <1>8, <1>14
  <2>3. ScoutStep(ps, sc, consent, dropped, t, ps2, scout', consent, dropped)
    BY <1>9, <2>1, <2>2 DEF ScoutStep
  <2>4. FieldSide(ps2, scout', windows, captured, fieldPorts, consent, dropped)
    BY <1>6, <1>12, <2>3, ScoutKeeps
  <2> QED BY <1>1, <2>4 DEF FieldsSound
<1> QED BY <1>13, <1>14

LEMMA ScoutHearsSound ==
  ASSUME ClientTypeOK, FieldsSound, NEW t \in Tabs, ScoutHears(t)
  PROVE  FieldsSound'
<1> DEFINE p == scout[t].port
           m == Head(ports[p].down)
           ps == [ports EXCEPT ![p].down = Tail(ports[p].down)]
<1>1. /\ p # None /\ ports[p].down # <<>>
      /\ \/ /\ m.type = "detach"
            /\ scout' = IF m.id = scout[t].session
                          THEN [scout EXCEPT ![t].session = None] ELSE scout
            /\ ports' = ps
         \/ /\ m.type = "disconnect"
            /\ scout' = [scout EXCEPT ![t].session = None, ![t].seeking = FALSE]
            /\ ports' = [ps EXCEPT ![p] = Said(ps[p], Stopping(t))]
      /\ UNCHANGED <<windows, captured, fieldPorts, consent, dropped>>
  BY DEF ScoutHears, IsDetached, registryState, registryVars, portVars
<1>2. /\ scout \in [Tabs -> Scout] /\ location \in [Tabs -> Windows]
      /\ ports \in [FieldPorts -> PortWire \cup {None}] /\ dropped \in SUBSET Fields
  BY DEF ClientTypeOK
<1>3. p \in FieldPorts /\ ports[p] \in PortWire /\ ports[p].of = t /\ ports[p] # None
  <2>1. /\ Roles(ports, scout, windows, captured, fieldPorts)
        /\ Parts(ports, scout, windows, captured, fieldPorts)
    BY SideFacts, TypedFacts DEF FieldsSound, FieldSide
  <2> HIDE DEF m, ps
  <2> QED BY <1>1, <2>1 DEF Roles, Parts
<1> DEFINE x == ports[p]
           y == [x EXCEPT !.down = Tail(x.down)]
<1>4. /\ x.down \in Seq(FieldIsTold) /\ m = x.down[1] /\ m \in FieldIsTold
      /\ Tail(x.down) \in Seq(FieldIsTold) /\ Len(x.down) \in Nat /\ Len(x.down) > 0
      /\ Len(Tail(x.down)) = Len(x.down) - 1
      /\ \A i \in 1..(Len(x.down) - 1) : Tail(x.down)[i] = x.down[i + 1]
  BY <1>1, <1>3, WireFacts, TailFacts
<1>5. /\ ps = [ports EXCEPT ![p] = y] /\ y \in PortWire /\ y # None
      /\ y.of = x.of /\ y.live = x.live /\ y.up = x.up /\ y.down = Tail(x.down)
  <2>1. y \in PortWire
    BY <1>3, <1>4 DEF PortWire
  <2> QED BY <1>2, <1>3, <2>1, WiresAssumption DEF PortWire
<1> HIDE DEF y, m
<1>6. /\ ps[p] = y /\ ps \in [FieldPorts -> PortWire \cup {None}]
      /\ \A e \in FieldPorts : e # p => ps[e] = ports[e]
  BY <1>2, <1>3, <1>5
<1>7. /\ Detaches(y) \subseteq Detaches(x)
      /\ \A g \in Detaches(x) : g \in Detaches(y) \/ (m.type = "detach" /\ m.id = g)
      /\ m.type = "detach" => m.id \in Detaches(x)
  <2>1. ASSUME NEW g \in Fields, NEW i \in 1..Len(y.down), y.down[i].type = "detach", y.down[i].id = g
        PROVE  g \in Detaches(x)
    <3>1. i + 1 \in 1..Len(x.down) /\ y.down[i] = x.down[i + 1]
      BY <1>4, <1>5, <2>1
    <3> QED BY <2>1, <3>1 DEF Detaches, Idx
  <2>2. ASSUME NEW g \in Fields, NEW i \in 1..Len(x.down), x.down[i].type = "detach", x.down[i].id = g
        PROVE  g \in Detaches(y) \/ (m.type = "detach" /\ m.id = g)
    <3>1. CASE i = 1
      BY <1>4, <2>2, <3>1
    <3>2. CASE i # 1
      <4>1. i - 1 \in 1..Len(y.down) /\ y.down[i - 1] = x.down[i]
        BY <1>4, <1>5, <2>2, <3>2
      <4> QED BY <2>2, <4>1 DEF Detaches, Idx
    <3> QED BY <3>1, <3>2
  <2>3. m.type = "detach" => m.id \in Fields /\ 1 \in 1..Len(x.down)
    BY <1>4 DEF FieldIsTold
  <2> QED BY <1>4, <2>1, <2>2, <2>3 DEF Detaches, Idx
<1> HIDE DEF ps, p, x
<1>x. p = scout[t].port /\ x = ports[p]
  BY DEF p, x
<1>8. /\ \A e \in FieldPorts : ps[e] = None <=> ports[e] = None
      /\ \A e \in FieldPorts : ports[e] # None =>
           /\ ps[e].of = ports[e].of /\ ps[e].live = ports[e].live /\ ps[e].up = ports[e].up
           /\ Detaches(ps[e]) \subseteq Detaches(ports[e])
           /\ e # scout[t].port => Detaches(ps[e]) = Detaches(ports[e])
  BY <1>3, <1>5, <1>6, <1>7, <1>x
<1>9. CASE m.type = "detach"
  <2>1. ports' = ps /\ scout' = IF m.id = scout[t].session
                                  THEN [scout EXCEPT ![t].session = None] ELSE scout
    BY <1>1, <1>9
  <2>2. CASE m.id = scout[t].session
    <3>1. /\ scout' \in [Tabs -> Scout] /\ \A u \in Tabs : u # t => scout'[u] = scout[u]
          /\ scout'[t].port = scout[t].port /\ scout'[t].session = None
      BY <1>2, <2>1, <2>2 DEF Scout
    <3>2. ScoutStep(ports, scout, consent, dropped, t, ps, scout', consent, dropped)
      BY <1>7, <1>8, <1>9, <1>x, <2>2, <3>1 DEF ScoutStep
    <3>3. Typed(ps, scout', windows, captured, fieldPorts, consent, dropped)
      BY <1>6, <3>1 DEF FieldsSound, FieldSide, Typed
    <3>4. FieldSide(ps, scout', windows, captured, fieldPorts, consent, dropped)
      BY <3>2, <3>3, ScoutKeeps DEF FieldsSound
    <3> QED BY <1>1, <2>1, <3>4 DEF FieldsSound
  <2>3. CASE m.id # scout[t].session
    <3>1. scout' = scout
      BY <2>1, <2>3
    <3>2. scout[t].session \in Detaches(ports[scout[t].port])
            => scout[t].session \in Detaches(ps[scout[t].port])
      BY <1>6, <1>7, <1>x, <2>3
    <3>3. ScoutStep(ports, scout, consent, dropped, t, ps, scout, consent, dropped)
      BY <1>8, <3>2 DEF ScoutStep
    <3>4. Typed(ps, scout, windows, captured, fieldPorts, consent, dropped)
      BY <1>6 DEF FieldsSound, FieldSide, Typed
    <3>5. FieldSide(ps, scout, windows, captured, fieldPorts, consent, dropped)
      BY <3>3, <3>4, ScoutKeeps DEF FieldsSound
    <3> QED BY <1>1, <2>1, <3>1, <3>5 DEF FieldsSound
  <2> QED BY <2>2, <2>3
<1>10. CASE m.type = "disconnect"
  <2>1. /\ scout' = [scout EXCEPT ![t].session = None, ![t].seeking = FALSE]
        /\ ports' = [ps EXCEPT ![p] = Said(ps[p], Stopping(t))]
    BY <1>1, <1>10
  <2>2. /\ scout' \in [Tabs -> Scout] /\ \A u \in Tabs : u # t => scout'[u] = scout[u]
        /\ scout'[t].port = scout[t].port /\ scout'[t].session = None
    BY <1>2, <2>1 DEF Scout
  <2>3. \A g \in Detaches(ports[p]) : g \in Detaches(ps[p])
    BY <1>6, <1>7, <1>10, <1>x
  <2>4. ScoutStep(ports, scout, consent, dropped, t, ps, scout, consent, dropped)
    BY <1>8, <1>x, <2>3 DEF ScoutStep
  <2>5. Typed(ps, scout, windows, captured, fieldPorts, consent, dropped)
    BY <1>6 DEF FieldsSound, FieldSide, Typed
  <2>6. FieldSide(ps, scout, windows, captured, fieldPorts, consent, dropped)
    BY <2>4, <2>5, ScoutKeeps DEF FieldsSound
  <2>7. CASE scout[t].session = None
    <3>0. y.up \o <<>> = y.up
      BY <1>5, WireFacts, ConcatEmptySeq
    <3>1. Said(y, <<>>) = y
      BY <1>5, <3>0 DEF Said, PortWire
    <3>2. ports' = ps
      BY <1>6, <2>1, <2>7, <3>1 DEF Stopping
    <3>3. scout'[t].session = scout[t].session /\ scout'[t].text = scout[t].text
      BY <1>2, <2>1, <2>7 DEF Scout
    <3>4. ScoutStep(ps, scout, consent, dropped, t, ps, scout', consent, dropped)
      BY <2>2, <3>3 DEF ScoutStep
    <3>5. Typed(ps, scout', windows, captured, fieldPorts, consent, dropped)
      BY <1>6, <2>2 DEF FieldsSound, FieldSide, Typed
    <3>6. FieldSide(ps, scout', windows, captured, fieldPorts, consent, dropped)
      BY <2>6, <3>4, <3>5, ScoutKeeps
    <3> QED BY <1>1, <3>2, <3>6 DEF FieldsSound
  <2>8. CASE scout[t].session # None
    <3> DEFINE d == DisconnectedMsg(scout[t].session)
    <3>1. scout[t].session \in Fields /\ 0 \in Texts
      BY <1>2, <2>8, BoundsAssumption DEF Scout
    <3>2. d \in FieldSays /\ d.id = scout[t].session /\ d.type = "fieldDisconnected" /\ Stopping(t) = <<d>>
      BY <2>8, <3>1, MessageFacts DEF Stopping
    <3> HIDE DEF d
    <3>3. Sending(scout, consent, t, p, d, scout', consent)
      BY <1>x, <2>2, <3>2 DEF Sending
    <3>4. ports' = [ps EXCEPT ![p] = Said(ps[p], <<d>>)]
      BY <2>1, <3>2
    <3>5. consent \in [Fields -> Servers \cup {None}]
      BY DEF ClientTypeOK
    <3>6. FieldSide(ports', scout', windows, captured, fieldPorts, consent, dropped)
      BY <1>3, <1>x, <2>2, <2>6, <3>2, <3>3, <3>4, <3>5, Saying
    <3> QED BY <1>1, <3>6 DEF FieldsSound
  <2> QED BY <2>7, <2>8
<1> QED BY <1>1, <1>9, <1>10

\* The scripts and the worker have no part in it.
LEMMA ElsewhereSound ==
  ASSUME FieldsSound,
         UNCHANGED <<ports, scout, windows, captured, fieldPorts, consent, dropped>>
  PROVE  FieldsSound'
BY DEF FieldsSound

LEMMA TabSound ==
  ASSUME ClientTypeOK, FieldsSound, NEW t \in Tabs, TabNext(t)
  PROVE  FieldsSound'
<1>1. CASE Drag(t)
  BY <1>1, ElsewhereSound DEF Drag, registryState, registryVars, portVars
<1> QED BY <1>1, ConnectSound, HoverSound, StopSound, TypeSound, ReacquireSound, GiveUpSound,
           NavigateSound, ScoutHearsSound, PortGoneSound, ScoutServerSound DEF TabNext

LEMMA PanelActionSound ==
  ASSUME FieldsSound, NEW w \in Windows, PanelNext(w)
  PROVE  FieldsSound'
BY ElsewhereSound DEF PanelNext, PanelOpens, PanelLoads, PanelCloses, PanelServer, PanelPortGone,
   Leaves, EmbedReadies, EmbedReloads, PanelHears, PanelDisconnect, registryState, registryVars,
   portVars

-----------------------------------------------------------------------------
(* What the worker does to the ports it answers on.                         *)
Told(heard, after, r) ==
  /\ after \in [FieldPorts -> PortWire \cup {None}]
  /\ \A e \in FieldPorts : after[e] = None <=> heard[e] = None
  /\ \A e \in FieldPorts : heard[e] # None =>
       /\ after[e].of = heard[e].of /\ after[e].live = heard[e].live /\ after[e].up = heard[e].up
       /\ Detaches(heard[e]) \subseteq Detaches(after[e])
       /\ \A g \in Detaches(after[e]) :
            g \in Detaches(heard[e]) \/ \E x \in r.tabs : x.msg.type = "detach" /\ x.msg.id = g

LEMMA OntoFacts ==
  ASSUME NEW x \in PortWire, NEW m \in FieldIsTold
  PROVE  /\ Onto(x, m) \in PortWire /\ Onto(x, m) # None
         /\ Onto(x, m).of = x.of /\ Onto(x, m).live = x.live /\ Onto(x, m).up = x.up
         /\ Detaches(x) \subseteq Detaches(Onto(x, m))
         /\ \A g \in Detaches(Onto(x, m)) : g \in Detaches(x) \/ (m.type = "detach" /\ m.id = g)
         /\ m.type = "detach" /\ x.live => m.id \in Detaches(Onto(x, m))
<1>1. x.down \in Seq(FieldIsTold) /\ Len(x.down) \in Nat
  BY WireFacts
<1> DEFINE n == Append(x.down, m)
<1>2. /\ n \in Seq(FieldIsTold) /\ Len(n) = Len(x.down) + 1 /\ n[Len(x.down) + 1] = m
      /\ \A i \in 1..Len(x.down) : n[i] = x.down[i]
  BY <1>1, AppendFacts
<1> HIDE DEF n
<1>3. Onto(x, m) = IF x.live THEN [x EXCEPT !.down = n] ELSE x
  BY DEF Onto, n
<1>4. /\ Onto(x, m) \in PortWire
      /\ Onto(x, m).of = x.of /\ Onto(x, m).live = x.live /\ Onto(x, m).up = x.up
      /\ Onto(x, m).down = IF x.live THEN n ELSE x.down
  BY <1>2, <1>3 DEF PortWire
<1>5. m.type = "detach" => m.id \in Fields
  BY DEF FieldIsTold
<1>6. Detaches(x) \subseteq Detaches(Onto(x, m))
  <2> SUFFICES ASSUME NEW g \in Fields, NEW i \in 1..Len(x.down), x.down[i].type = "detach",
                      x.down[i].id = g
               PROVE  g \in Detaches(Onto(x, m))
    BY DEF Detaches, Idx
  <2>1. i \in 1..Len(Onto(x, m).down) /\ Onto(x, m).down[i] = x.down[i]
    BY <1>1, <1>2, <1>4
  <2> QED BY <2>1 DEF Detaches, Idx
<1>7. ASSUME NEW g \in Detaches(Onto(x, m))
      PROVE  g \in Detaches(x) \/ (m.type = "detach" /\ m.id = g)
  <2>1. PICK i \in 1..Len(Onto(x, m).down) :
          Onto(x, m).down[i].type = "detach" /\ Onto(x, m).down[i].id = g
    BY <1>7 DEF Detaches, Idx
  <2>2. g \in Fields
    BY <1>7 DEF Detaches
  <2>3. CASE i \in 1..Len(x.down)
    BY <1>2, <1>4, <2>1, <2>2, <2>3 DEF Detaches, Idx
  <2>4. CASE i \notin 1..Len(x.down)
    BY <1>1, <1>2, <1>4, <2>1, <2>4
  <2> QED BY <2>3, <2>4
<1>8. m.type = "detach" /\ x.live => m.id \in Detaches(Onto(x, m))
  <2> SUFFICES ASSUME m.type = "detach", x.live PROVE m.id \in Detaches(Onto(x, m))
    OBVIOUS
  <2>1. Len(x.down) + 1 \in 1..Len(Onto(x, m).down) /\ Onto(x, m).down[Len(x.down) + 1] = m
    BY <1>1, <1>2, <1>4
  <2> QED BY <1>5, <2>1 DEF Detaches, Idx
<1> QED BY <1>4, <1>6, <1>7, <1>8, WiresAssumption

LEMMA OntoDown ==
  ASSUME NEW x \in PortWire, NEW m
  PROVE  Onto(x, m).down = IF x.live THEN Append(x.down, m) ELSE x.down
BY DEF Onto, PortWire

LEMMA PortsAfterFacts ==
  ASSUME FieldsSound, NEW heard \in [FieldPorts -> PortWire \cup {None}],
         \A e \in FieldPorts : heard[e] = None <=> ports[e] = None,
         NEW r, \A x \in r.tabs : x.tab \in Tabs /\ x.msg \in FieldIsTold
  PROVE  /\ Told(heard, PortsAfter(heard, r), r)
         /\ \A x \in r.tabs :
              /\ x.msg.type = "detach" /\ scout[x.tab].port = fieldPorts[x.tab]
              /\ fieldPorts[x.tab] # None /\ heard[fieldPorts[x.tab]].live
              /\ \A y \in r.tabs : y.tab = x.tab => y = x
              => x.msg.id \in Detaches(PortsAfter(heard, r)[fieldPorts[x.tab]])
<1> DEFINE after == PortsAfter(heard, r)
           Msg(p) == CHOOSE x \in ToTab(r, p) : TRUE
<1>0. Roles(ports, scout, windows, captured, fieldPorts)
  BY SideFacts DEF FieldsSound
<1>1. \A p \in FieldPorts : after[p] = IF ToTab(r, p) = {} THEN heard[p]
                                       ELSE Onto(heard[p], Msg(p).msg)
  BY DEF PortsAfter
<1>2. DOMAIN after = FieldPorts /\ after = [p \in FieldPorts |-> after[p]]
  BY DEF PortsAfter
<1>3. ASSUME NEW p \in FieldPorts, ToTab(r, p) # {}
      PROVE  /\ Msg(p) \in ToTab(r, p) /\ Msg(p) \in r.tabs /\ Msg(p).msg \in FieldIsTold
             /\ heard[p] # None /\ heard[p] \in PortWire
             /\ \A x \in ToTab(r, p) : x.tab = Msg(p).tab
  <2>1. Msg(p) \in ToTab(r, p)
    BY <1>3
  <2> HIDE DEF Msg
  <2>2. \A x \in ToTab(r, p) : /\ x \in r.tabs /\ x.tab \in Tabs /\ x.msg \in FieldIsTold
                               /\ fieldPorts[x.tab] = p /\ scout[x.tab].port = p
    BY DEF ToTab
  <2>3. p # None
    BY SetsAssumption
  <2>4. \A x \in ToTab(r, p) : captured[p].tab = x.tab /\ ports[p] # None
    BY <1>0, <2>2, <2>3 DEF Roles
  <2> QED BY <2>1, <2>2, <2>4
<1> HIDE DEF after, Msg
<1>4. ASSUME NEW e \in FieldPorts
      PROVE  /\ after[e] \in PortWire \cup {None}
             /\ after[e] = None <=> heard[e] = None
             /\ heard[e] # None =>
                  /\ after[e].of = heard[e].of /\ after[e].live = heard[e].live
                  /\ after[e].up = heard[e].up
                  /\ Detaches(heard[e]) \subseteq Detaches(after[e])
                  /\ \A g \in Detaches(after[e]) :
                       g \in Detaches(heard[e]) \/ \E x \in r.tabs : x.msg.type = "detach" /\ x.msg.id = g
  <2>1. CASE ToTab(r, e) = {}
    BY <1>1, <2>1
  <2>2. CASE ToTab(r, e) # {}
    <3> DEFINE k == Msg(e).msg
               v == Onto(heard[e], k)
    <3>1. /\ Msg(e) \in r.tabs /\ k \in FieldIsTold
          /\ heard[e] # None /\ heard[e] \in PortWire /\ after[e] = v
      BY <1>1, <1>3, <2>2
    <3>2. /\ v \in PortWire /\ v # None /\ v.of = heard[e].of /\ v.live = heard[e].live
          /\ v.up = heard[e].up /\ Detaches(heard[e]) \subseteq Detaches(v)
          /\ \A g \in Detaches(v) : g \in Detaches(heard[e]) \/ (k.type = "detach" /\ k.id = g)
      <4> HIDE DEF k
      <4> QED BY <3>1, OntoFacts
    <3>3. \A g \in Detaches(v) :
            g \in Detaches(heard[e]) \/ \E x \in r.tabs : x.msg.type = "detach" /\ x.msg.id = g
      BY <3>1, <3>2
    <3> HIDE DEF v
    <3> QED BY <3>1, <3>2, <3>3
  <2> QED BY <2>1, <2>2
<1>5. Told(heard, after, r)
  BY <1>2, <1>4 DEF Told
<1>6. ASSUME NEW x \in r.tabs, x.msg.type = "detach", scout[x.tab].port = fieldPorts[x.tab],
             fieldPorts[x.tab] # None, heard[fieldPorts[x.tab]].live,
             \A y \in r.tabs : y.tab = x.tab => y = x
      PROVE  x.msg.id \in Detaches(after[fieldPorts[x.tab]])
  <2> DEFINE p == fieldPorts[x.tab]
  <2>1. p \in FieldPorts
    BY <1>0, <1>6 DEF Roles
  <2>2. x \in ToTab(r, p)
    BY <1>6 DEF ToTab
  <2>3. Msg(p) = x
    BY <1>3, <1>6, <2>1, <2>2
  <2>4. x.msg \in FieldIsTold /\ heard[p] \in PortWire /\ after[p] = Onto(heard[p], x.msg)
    BY <1>1, <1>3, <2>1, <2>2, <2>3
  <2> QED BY <1>6, <2>4, OntoFacts
<1> QED BY <1>5, <1>6 DEF after

LEMMA HeardFacts ==
  ASSUME NEW x \in PortWire, x.up # <<>>, NEW m
  PROVE  /\ Heard(x, m) \in PortWire /\ Heard(x, m) # None
         /\ Heard(x, m).of = x.of /\ Heard(x, m).down = x.down /\ Heard(x, m).up = Tail(x.up)
         /\ Heard(x, m).live = (x.live /\ m.type # "closed")
<1>1. Tail(x.up) \in Seq(FieldSays) /\ x.live \in BOOLEAN
  BY WireFacts, TailFacts
<1>2. Heard(x, m) \in PortWire
  BY <1>1 DEF Heard, PortWire
<1> QED BY <1>1, <1>2, WiresAssumption DEF Heard, PortWire

\* The worker hears something on port p that does not close it.
LEMMA HeardAfter ==
  ASSUME FieldsSound, NEW p \in FieldPorts, ports[p] # None, ports[p].up # <<>>,
         NEW m, m.type # "closed", NEW r, \A x \in r.tabs : x.tab \in Tabs /\ x.msg \in FieldIsTold
  PROVE  LET after == PortsAfter([ports EXCEPT ![p] = Heard(ports[p], m)], r)
             mid == PortsAfter(ports, r)
         IN  /\ Popped(mid, after, p) /\ after[p].live = mid[p].live
             /\ after \in [FieldPorts -> PortWire \cup {None}]
<1> DEFINE heard == [ports EXCEPT ![p] = Heard(ports[p], m)]
           after == PortsAfter(heard, r)
           mid == PortsAfter(ports, r)
           Msg == (CHOOSE x \in ToTab(r, p) : TRUE).msg
<1>1. ports \in [FieldPorts -> PortWire \cup {None}] /\ ports[p] \in PortWire
  BY DEF FieldsSound, FieldSide, Typed
<1>2. /\ Heard(ports[p], m) \in PortWire /\ Heard(ports[p], m) # None
      /\ Heard(ports[p], m).of = ports[p].of /\ Heard(ports[p], m).down = ports[p].down
      /\ Heard(ports[p], m).up = Tail(ports[p].up)
      /\ Heard(ports[p], m).live = ports[p].live
  BY <1>1, HeardFacts, WireFacts
<1>3. /\ heard \in [FieldPorts -> PortWire \cup {None}] /\ heard[p] = Heard(ports[p], m)
      /\ \A e \in FieldPorts : e # p => heard[e] = ports[e]
      /\ \A e \in FieldPorts : heard[e] = None <=> ports[e] = None
  BY <1>1, <1>2
<1>4. Told(ports, mid, r) /\ Told(heard, after, r)
  <2> HIDE DEF heard
  <2> QED BY <1>1, <1>3, PortsAfterFacts
<1>5. \A e \in FieldPorts : e # p => after[e] = mid[e]
  BY <1>3 DEF PortsAfter
<1>6. /\ mid[p] = IF ToTab(r, p) = {} THEN ports[p] ELSE Onto(ports[p], Msg)
      /\ after[p] = IF ToTab(r, p) = {} THEN Heard(ports[p], m) ELSE Onto(Heard(ports[p], m), Msg)
  BY <1>3 DEF PortsAfter
<1>7. after[p].down = mid[p].down
  <2> DEFINE h == Heard(ports[p], m)
  <2> HIDE DEF Msg, h
  <2>1. h \in PortWire /\ h.down = ports[p].down /\ h.live = ports[p].live
    BY <1>2 DEF h
  <2>2. /\ Onto(h, Msg).down = IF h.live THEN Append(h.down, Msg) ELSE h.down
        /\ Onto(ports[p], Msg).down =
             IF ports[p].live THEN Append(ports[p].down, Msg) ELSE ports[p].down
    BY <1>1, <2>1, OntoDown
  <2> QED BY <1>6, <2>1, <2>2 DEF h
<1> HIDE DEF after, mid, heard
<1>8. Popped(mid, after, p) /\ after[p].live = mid[p].live
  BY <1>2, <1>3, <1>4, <1>5, <1>7 DEF Popped, Told, Detaches
<1> QED BY <1>4, <1>8 DEF Told, after, mid, heard

LEMMA FirstWord ==
  ASSUME FieldsSound, NEW p \in FieldPorts, ports[p] # None, ports[p].up # <<>>
  PROVE  LET m == Head(ports[p].up)
         IN  /\ m \in FieldSays /\ m = ports[p].up[1] /\ 1 \in 1..Len(ports[p].up)
             /\ ports[p].of \in Tabs
             /\ m.type = "open" <=> captured[p] = None
             /\ captured[p] # None => captured[p].tab = ports[p].of /\ captured[p].window \in Windows
<1>1. /\ Parts(ports, scout, windows, captured, fieldPorts)
      /\ Roles(ports, scout, windows, captured, fieldPorts)
  BY TypedFacts, SideFacts DEF FieldsSound, FieldSide
<1>2. ports[p].up \in Seq(FieldSays) /\ ports[p].of \in Tabs
  BY <1>1 DEF Parts
<1>3. /\ Head(ports[p].up) = ports[p].up[1] /\ ports[p].up[1] \in FieldSays
      /\ 1 \in 1..Len(ports[p].up)
  BY <1>2, TailFacts
<1>4. Shape(ports[p], captured[p])
  BY DEF FieldsSound, FieldSide, PortsShaped
<1>5. ports[p].up[1].type = "open" <=> captured[p] = None
  BY <1>3, <1>4 DEF Shape, Idx
<1>6. captured[p] # None => captured[p].tab = ports[p].of /\ captured[p].window \in Windows
  BY <1>1 DEF Parts, Roles
<1> QED BY <1>2, <1>3, <1>5, <1>6

Passed(mid, after, p, m) ==
  Popped(mid, after, p) /\ after[p].live = mid[p].live /\ m = mid[p].up[1]

\* The worker lets go of fields before it hears the message to its end.
LEMMA HearKeeps ==
  ASSUME FieldsSound, NEW p \in FieldPorts, ports[p] # None, ports[p].up # <<>>,
         NEW m, m = Head(ports[p].up), m.type # "closed",
         NEW r, \A x \in r.tabs : x.tab \in Tabs /\ x.msg \in FieldIsTold,
         NEW mid, mid = PortsAfter(ports, r),
         NEW after, after = PortsAfter([ports EXCEPT ![p] = Heard(ports[p], m)], r),
         NEW w, NEW ws1 \in [Windows -> WindowStates], NEW ws2 \in [Windows -> WindowStates],
         LoseStep(ports, scout, windows, fieldPorts, mid, ws1),
         Passed(mid, after, p, m) => PopStep(mid, ws1, captured, fieldPorts, p, m, w, after, ws2)
  PROVE  FieldSide(after, scout, ws2, captured, fieldPorts, consent, dropped)
<1>1. ports \in [FieldPorts -> PortWire \cup {None}]
  BY DEF FieldsSound, FieldSide, Typed
<1>2. Told(ports, mid, r)
  BY <1>1, PortsAfterFacts
<1>3. /\ Popped(mid, after, p) /\ after[p].live = mid[p].live
      /\ after \in [FieldPorts -> PortWire \cup {None}]
  BY HeardAfter
<1>4. m = mid[p].up[1]
  BY <1>2, FirstWord DEF Told
<1>5. Typed(mid, scout, ws1, captured, fieldPorts, consent, dropped)
  BY <1>2 DEF Told, FieldsSound, FieldSide, Typed
<1>6. FieldSide(mid, scout, ws1, captured, fieldPorts, consent, dropped)
  BY <1>5, LoseKeeps DEF FieldsSound
<1>7. Typed(after, scout, ws2, captured, fieldPorts, consent, dropped)
  BY <1>3 DEF FieldsSound, FieldSide, Typed
<1>8. PopStep(mid, ws1, captured, fieldPorts, p, m, w, after, ws2)
  BY <1>3, <1>4 DEF Passed
<1> QED BY <1>6, <1>7, <1>8, PopKeeps

LEMMA NobodyTold ==
  ASSUME FieldsSound, NEW r, r.tabs = {}, NEW heard \in [FieldPorts -> PortWire \cup {None}]
  PROVE  PortsAfter(heard, r) = heard
BY DEF PortsAfter, ToTab

LEMMA HearsConnect ==
  ASSUME Inv, FieldsSound, NEW p \in FieldPorts, ports[p] # None, ports[p].up # <<>>,
         NEW m, m = Head(ports[p].up), Connects(m), FieldPortCurrent(p),
         NEW r, r = FieldConnected(captured[p].window, captured[p].tab, m)
  PROVE  FieldSide(PortsAfter([ports EXCEPT ![p] = Heard(ports[p], m)], r), scout, r.windows,
                   captured, fieldPorts, consent, dropped)
<1> DEFINE w == captured[p].window
           t == ports[p].of
           old == windows[w].field
           ws1 == [windows EXCEPT ![w] = Window(None, windows[w].panelReady)]
           ws2 == [windows EXCEPT ![w] = Window(FieldOf(t, m), windows[w].panelReady)]
           mid == PortsAfter(ports, r)
           after == PortsAfter([ports EXCEPT ![p] = Heard(ports[p], m)], r)
<1>1. /\ Parts(ports, scout, windows, captured, fieldPorts)
      /\ Roles(ports, scout, windows, captured, fieldPorts)
  BY TypedFacts, SideFacts DEF FieldsSound, FieldSide
<1>2. /\ m \in FieldSays /\ m = ports[p].up[1] /\ 1 \in 1..Len(ports[p].up) /\ t \in Tabs
      /\ captured[p] # None /\ captured[p].tab = t /\ w \in Windows /\ fieldPorts[t] = p
  BY FirstWord DEF FieldPortCurrent
<1>3. /\ m.id \in Fields /\ m.text \in Texts /\ m.type # "closed" /\ m.type # "open"
  BY <1>2, SaysFacts DEF Connects, Texted
<1>4. /\ windows \in [Windows -> WindowStates]
      /\ old # None => old \in FieldState
  BY <1>2 DEF FieldsSound, FieldSide, Typed, WindowStates
<1>5. /\ r.windows = ws2
      /\ r.tabs = IF old # None /\ old.tab # t THEN {[tab |-> old.tab, msg |-> Detach(old)]} ELSE {}
  BY <1>2 DEF FieldConnected, Result, WithField, ToField
<1>6. /\ \A x \in r.tabs : x.tab \in Tabs /\ x.msg \in FieldIsTold
      /\ old # None => Detach(old) \in FieldIsTold /\ Detach(old).type = "detach" /\ Detach(old).id = old.id
  BY <1>4, <1>5 DEF FieldState, FieldIsTold, Detach
<1>7. /\ ws1 \in [Windows -> WindowStates] /\ ws2 \in [Windows -> WindowStates]
      /\ ws1[w].field = None /\ ws2[w].field = FieldOf(t, m)
      /\ \A v \in Windows : v # w => ws1[v] = windows[v] /\ ws2[v] = windows[v]
  BY <1>2, <1>3, <1>4 DEF WindowStates, Window, FieldOf, FieldState
<1>8. FieldOf(t, m) # None /\ FieldOf(t, m).tab = t /\ FieldOf(t, m).id = m.id /\ FieldOf(t, m).text = m.text
  BY <1>2, <1>3, SetsAssumption DEF FieldOf
<1>9. ports \in [FieldPorts -> PortWire \cup {None}]
  BY DEF FieldsSound, FieldSide, Typed
<1> HIDE DEF ws1, ws2, mid, after
<1>10. /\ Told(ports, mid, r)
       /\ \A x \in r.tabs :
              /\ x.msg.type = "detach" /\ scout[x.tab].port = fieldPorts[x.tab]
              /\ fieldPorts[x.tab] # None /\ ports[fieldPorts[x.tab]].live
              /\ \A y \in r.tabs : y.tab = x.tab => y = x
              => x.msg.id \in Detaches(mid[fieldPorts[x.tab]])
  BY <1>6, <1>9, PortsAfterFacts DEF mid
<1>11. LoseStep(ports, scout, windows, fieldPorts, mid, ws1)
  <2>1. \A v \in Windows : ws1[v].field = windows[v].field \/ ws1[v].field = None
    BY <1>7
  <2>2. \A v \in Windows : Lost1(windows, ws1, v) => v = w /\ old # None
    BY <1>7 DEF Lost1
  <2>3. old # None /\ old.tab # t => Lost1(windows, ws1, w)
    BY <1>7 DEF Lost1
  <2>4. ASSUME NEW e \in FieldPorts, ports[e] # None, NEW g \in Detaches(mid[e])
        PROVE  g \in Detaches(ports[e]) \/ \E v \in Windows : Lost1(windows, ws1, v) /\ windows[v].field.id = g
    <3>1. g \in Detaches(ports[e]) \/ \E x \in r.tabs : x.msg.type = "detach" /\ x.msg.id = g
      BY <1>10, <2>4 DEF Told
    <3>2. ASSUME NEW x \in r.tabs, x.msg.id = g
          PROVE  Lost1(windows, ws1, w) /\ windows[w].field.id = g
      BY <1>5, <1>6, <2>3, <3>2
    <3> QED BY <1>2, <3>1, <3>2
  <2>5. ASSUME NEW v \in Windows, Lost1(windows, ws1, v),
               scout[windows[v].field.tab].port = fieldPorts[windows[v].field.tab],
               \A k \in Idx(ports[fieldPorts[windows[v].field.tab]].up) :
                 ~Connects(ports[fieldPorts[windows[v].field.tab]].up[k])
        PROVE  windows[v].field.id \in Detaches(mid[fieldPorts[windows[v].field.tab]])
    <3>1. v = w /\ old # None
      BY <2>2, <2>5
    <3>2. old.tab # t
      BY <1>2, <2>5, <3>1 DEF Idx
    <3> DEFINE x == [tab |-> old.tab, msg |-> Detach(old)]
    <3>3. x \in r.tabs /\ x.tab = old.tab /\ x.msg = Detach(old) /\ \A y \in r.tabs : y = x
      BY <1>5, <3>1, <3>2
    <3> HIDE DEF x
    <3>4. old.tab \in Tabs /\ fieldPorts[old.tab] # None /\ ports[fieldPorts[old.tab]].live
      BY <1>1, <1>2, <3>1 DEF Roles, Parts
    <3> QED BY <1>6, <1>10, <2>5, <3>1, <3>3, <3>4
  <2> QED BY <1>10, <2>1, <2>4, <2>5 DEF Told, LoseStep
<1>12. Passed(mid, after, p, m) => PopStep(mid, ws1, captured, fieldPorts, p, m, w, after, ws2)
  <2>1. mid[p].of = t
    BY <1>10 DEF Told
  <2> QED BY <1>2, <1>3, <1>7, <1>8, <2>1 DEF PopStep, Passed
<1>13. FieldSide(after, scout, ws2, captured, fieldPorts, consent, dropped)
  <2> HIDE DEF w
  <2>1. mid = PortsAfter(ports, r) /\ after = PortsAfter([ports EXCEPT ![p] = Heard(ports[p], m)], r)
    BY DEF mid, after
  <2> QED BY <1>3, <1>6, <1>7, <1>11, <1>12, <2>1, HearKeeps
<1> QED BY <1>5, <1>13 DEF after

\* What the worker says nothing of to any tab.
LEMMA HearsQuietly ==
  ASSUME FieldsSound, NEW p \in FieldPorts, ports[p] # None, ports[p].up # <<>>,
         NEW m, m = Head(ports[p].up), m.type # "closed",
         NEW r, r.tabs = {}, NEW w, NEW ws1 \in [Windows -> WindowStates],
         NEW ws2 \in [Windows -> WindowStates],
         LoseStep(ports, scout, windows, fieldPorts, ports, ws1),
         \A after : Passed(ports, after, p, m) =>
           PopStep(ports, ws1, captured, fieldPorts, p, m, w, after, ws2)
  PROVE  FieldSide(PortsAfter([ports EXCEPT ![p] = Heard(ports[p], m)], r), scout, ws2,
                   captured, fieldPorts, consent, dropped)
<1>1. ports \in [FieldPorts -> PortWire \cup {None}]
  BY DEF FieldsSound, FieldSide, Typed
<1>2. ports = PortsAfter(ports, r) /\ \A x \in r.tabs : x.tab \in Tabs /\ x.msg \in FieldIsTold
  BY <1>1, NobodyTold
<1> DEFINE after == PortsAfter([ports EXCEPT ![p] = Heard(ports[p], m)], r)
<1>3. Passed(ports, after, p, m) => PopStep(ports, ws1, captured, fieldPorts, p, m, w, after, ws2)
  OBVIOUS
<1>4. after = PortsAfter([ports EXCEPT ![p] = Heard(ports[p], m)], r)
  OBVIOUS
<1> HIDE DEF after
<1>5. FieldSide(after, scout, ws2, captured, fieldPorts, consent, dropped)
  BY <1>2, <1>3, <1>4, HearKeeps
<1> QED BY <1>5 DEF after

\* Nobody lets go of anything.
LEMMA NothingLost ==
  ASSUME NEW ws1 \in [Windows -> WindowStates], \A v \in Windows : ws1[v].field = windows[v].field
  PROVE  LoseStep(ports, scout, windows, fieldPorts, ports, ws1)
BY DEF LoseStep, Lost1

LEMMA HearsNothing ==
  ASSUME FieldsSound, NEW p \in FieldPorts, ports[p] # None, ports[p].up # <<>>,
         NEW m, m = Head(ports[p].up), m.type \notin {"open", "closed"},
         NEW r, r = Nothing,
         Now(windows, captured, fieldPorts, p) = None,
         Connects(m) => fieldPorts[ports[p].of] # p
  PROVE  FieldSide(PortsAfter([ports EXCEPT ![p] = Heard(ports[p], m)], r), scout, r.windows,
                   captured, fieldPorts, consent, dropped)
<1>1. r.tabs = {} /\ r.windows = windows /\ windows \in [Windows -> WindowStates]
  BY DEF Nothing, Result, FieldsSound, FieldSide, Typed
<1>2. LoseStep(ports, scout, windows, fieldPorts, ports, windows)
  BY <1>1, NothingLost
<1>3. captured[p] # None => captured[p].window \in Windows
  BY FirstWord
<1>4. \A after : Passed(ports, after, p, m) =>
        PopStep(ports, windows, captured, fieldPorts, p, m, captured[p].window, after, windows)
  BY <1>3 DEF PopStep, Passed
<1>5. FieldSide(PortsAfter([ports EXCEPT ![p] = Heard(ports[p], m)], r), scout, windows,
                captured, fieldPorts, consent, dropped)
  <2> DEFINE w == captured[p].window
  <2>1. \A after : Passed(ports, after, p, m) =>
          PopStep(ports, windows, captured, fieldPorts, p, m, w, after, windows)
    BY <1>4
  <2> HIDE DEF w
  <2> QED BY <1>1, <1>2, <2>1, HearsQuietly
<1> QED BY <1>1, <1>5

LEMMA HearsText ==
  ASSUME FieldsSound, NEW p \in FieldPorts, ports[p] # None, ports[p].up # <<>>,
         NEW m, m = Head(ports[p].up), m.type = "textChanged", FieldPortCurrent(p),
         Holds(captured[p].window, captured[p].tab),
         NEW r, r = TextChanged(captured[p].window, captured[p].tab, m)
  PROVE  FieldSide(PortsAfter([ports EXCEPT ![p] = Heard(ports[p], m)], r), scout, r.windows,
                   captured, fieldPorts, consent, dropped)
<1> DEFINE w == captured[p].window
           t == ports[p].of
           old == windows[w].field
           new == [tab |-> t, id |-> old.id, text |-> m.text]
           ws2 == [windows EXCEPT ![w] = Window(new, windows[w].panelReady)]
<1>1. /\ m \in FieldSays /\ m = ports[p].up[1] /\ 1 \in 1..Len(ports[p].up) /\ t \in Tabs
      /\ captured[p] # None /\ captured[p].tab = t /\ w \in Windows /\ fieldPorts[t] = p
  BY FirstWord DEF FieldPortCurrent
<1>2. m.text \in Texts /\ Tells(m)
  BY <1>1, SaysFacts DEF Tells, Texted
<1>3. /\ windows \in [Windows -> WindowStates]
      /\ old # None /\ old \in FieldState /\ old.tab = t /\ old.id \in Fields
  BY <1>1 DEF FieldsSound, FieldSide, Typed, WindowStates, Holds, FieldState
<1>4. r.windows = ws2 /\ r.tabs = {}
  BY <1>1 DEF TextChanged, Result, WithField, TextRead
<1>5. new \in FieldState /\ new # None
  BY <1>1, <1>2, <1>3, SetsAssumption DEF FieldState
<1>6. /\ ws2 \in [Windows -> WindowStates] /\ ws2[w].field = new
      /\ \A v \in Windows : v # w => ws2[v] = windows[v]
  BY <1>1, <1>3, <1>5 DEF WindowStates, Window
<1>7. Now(windows, captured, fieldPorts, p) = m.id
  <2>1. Now(windows, captured, fieldPorts, p) = old.id /\ old.id # None
    BY <1>1, <1>3, SetsAssumption DEF Now, HoldsIn
  <2>2. Speech(ports[p].up, Now(windows, captured, fieldPorts, p))
    BY DEF FieldsSound, FieldSide, Spoken
  <2>3. ~\E k \in 1..(1 - 1) : Connects(ports[p].up[k])
    OBVIOUS
  <2>4. old.id = m.id
    BY <1>1, <1>2, <2>1, <2>2, <2>3 DEF Speech, Idx
  <2> QED BY <2>1, <2>4
<1>8. \A after : Passed(ports, after, p, m) =>
        PopStep(ports, windows, captured, fieldPorts, p, m, w, after, ws2)
  <2> HIDE DEF ws2, w
  <2>1. captured[p] # None => w = captured[p].window /\ w \in Windows
    BY <1>1 DEF w
  <2>2. /\ \A v \in Windows : v # w => ws2[v].field = windows[v].field
        /\ ws2[w].field # None /\ ws2[w].field.tab = windows[w].field.tab
        /\ ws2[w].field.id = windows[w].field.id /\ ws2[w].field.text = m.text
    BY <1>3, <1>5, <1>6
  <2> QED BY <1>7, <2>1, <2>2 DEF PopStep, Passed
<1>9. LoseStep(ports, scout, windows, fieldPorts, ports, windows)
  BY <1>3, NothingLost
<1>10. FieldSide(PortsAfter([ports EXCEPT ![p] = Heard(ports[p], m)], r), scout, ws2,
                 captured, fieldPorts, consent, dropped)
  <2> HIDE DEF ws2, w
  <2> QED BY <1>3, <1>4, <1>6, <1>8, <1>9, HearsQuietly
<1> QED BY <1>4, <1>10

LEMMA HearsFarewell ==
  ASSUME FieldsSound, NEW p \in FieldPorts, ports[p] # None, ports[p].up # <<>>,
         NEW m, m = Head(ports[p].up), m.type = "fieldDisconnected", FieldPortCurrent(p),
         Holds(captured[p].window, captured[p].tab),
         NEW r, r = HostRelay(captured[p].window, captured[p].tab, m)
  PROVE  FieldSide(PortsAfter([ports EXCEPT ![p] = Heard(ports[p], m)], r), scout, r.windows,
                   captured, fieldPorts, consent, dropped)
<1> DEFINE w == captured[p].window
           t == ports[p].of
           old == windows[w].field
           ws1 == [windows EXCEPT ![w] = Window(None, windows[w].panelReady)]
<1>1. /\ m \in FieldSays /\ m = ports[p].up[1] /\ 1 \in 1..Len(ports[p].up) /\ t \in Tabs
      /\ captured[p] # None /\ captured[p].tab = t /\ w \in Windows /\ fieldPorts[t] = p
  BY FirstWord DEF FieldPortCurrent
<1>2. m.id \in Fields /\ Tells(m)
  BY <1>1, SaysFacts DEF Tells
<1>3. /\ windows \in [Windows -> WindowStates]
      /\ old # None /\ old \in FieldState /\ old.tab = t /\ old.id \in Fields
  BY <1>1 DEF FieldsSound, FieldSide, Typed, WindowStates, Holds, FieldState
<1>4. r.windows = ws1 /\ r.tabs = {}
  BY <1>1 DEF HostRelay, Cleared, Result, WithField
<1>6. /\ ws1 \in [Windows -> WindowStates] /\ ws1[w].field = None
      /\ \A v \in Windows : v # w => ws1[v] = windows[v]
  BY <1>1, <1>3 DEF WindowStates, Window
<1>7. old.id = m.id
  <2>1. Now(windows, captured, fieldPorts, p) = old.id /\ old.id # None
    BY <1>1, <1>3, SetsAssumption DEF Now, HoldsIn
  <2>2. Speech(ports[p].up, Now(windows, captured, fieldPorts, p))
    BY DEF FieldsSound, FieldSide, Spoken
  <2>3. ~\E k \in 1..(1 - 1) : Connects(ports[p].up[k])
    OBVIOUS
  <2> QED BY <1>1, <1>2, <2>1, <2>2, <2>3 DEF Speech, Idx
<1>8. scout[t].session # old.id
  BY <1>1, <1>7 DEF FieldsSound, FieldSide, Names, Farewells, Idx
<1> HIDE DEF ws1, w
<1>w. w = captured[p].window
  BY DEF w
<1>9. LoseStep(ports, scout, windows, fieldPorts, ports, ws1)
  <2>1. \A v \in Windows : ws1[v].field = windows[v].field \/ ws1[v].field = None
    BY <1>6
  <2>2. \A v \in Windows : Lost1(windows, ws1, v) => v = w
    BY <1>6 DEF Lost1
  <2>3. \A v \in Windows : Lost1(windows, ws1, v) =>
          ~(scout[windows[v].field.tab].session = windows[v].field.id)
    BY <1>3, <1>8, <2>2
  <2> QED BY <2>1, <2>3 DEF LoseStep
<1>10. Now(ws1, captured, fieldPorts, p) = None
  BY <1>1, <1>6, <1>w DEF Now, HoldsIn
<1>11. \A after : Passed(ports, after, p, m) =>
         PopStep(ports, ws1, captured, fieldPorts, p, m, w, after, ws1)
  <2>1. captured[p] # None => w = captured[p].window /\ w \in Windows
    BY <1>1, <1>w
  <2>2. ~Connects(m)
    BY DEF Connects
  <2> QED BY <1>10, <2>1, <2>2 DEF PopStep, Passed
<1>12. FieldSide(PortsAfter([ports EXCEPT ![p] = Heard(ports[p], m)], r), scout, ws1,
                 captured, fieldPorts, consent, dropped)
  BY <1>4, <1>6, <1>9, <1>11, HearsQuietly
<1> QED BY <1>4, <1>12

LEMMA HearsMessage ==
  ASSUME Inv, FieldsSound, NEW p \in FieldPorts, ports[p] # None, ports[p].up # <<>>,
         NEW m, m = Head(ports[p].up), m.type \notin {"open", "closed"},
         NEW r, r = OnFieldMessage(p, m)
  PROVE  FieldSide(PortsAfter([ports EXCEPT ![p] = Heard(ports[p], m)], r), scout, r.windows,
                   captured, fieldPorts, consent, dropped)
<1>1. m \in FieldSays /\ captured[p] # None /\ captured[p].tab = ports[p].of
  BY FirstWord
<1>2. m.type \in {"fieldConnected", "textChanged", "fieldDisconnected"}
  BY <1>1, SaysFacts
<1>3. FieldPortCurrent(p) <=> fieldPorts[ports[p].of] = p
  BY <1>1 DEF FieldPortCurrent
<1>4. Now(windows, captured, fieldPorts, p) # None =>
        FieldPortCurrent(p) /\ Holds(captured[p].window, captured[p].tab)
  BY <1>1, <1>3 DEF Now, HoldsIn, Holds
<1>5. CASE ~FieldPortCurrent(p)
  <2>1. r = Nothing
    BY <1>5 DEF OnFieldMessage
  <2> QED BY <1>3, <1>4, <1>5, <2>1, HearsNothing
<1>6. CASE FieldPortCurrent(p) /\ m.type = "fieldConnected"
  <2>1. r = FieldConnected(captured[p].window, captured[p].tab, m)
    BY <1>6 DEF OnFieldMessage
  <2> QED BY <1>6, <2>1, HearsConnect DEF Connects
<1>7. CASE FieldPortCurrent(p) /\ m.type = "textChanged"
  <2>1. r = TextChanged(captured[p].window, captured[p].tab, m)
    BY <1>7 DEF OnFieldMessage
  <2>2. CASE Holds(captured[p].window, captured[p].tab)
    BY <1>7, <2>1, <2>2, HearsText
  <2>3. CASE ~Holds(captured[p].window, captured[p].tab)
    <3>1. r = Nothing /\ ~Connects(m)
      BY <1>7, <2>1, <2>3 DEF TextChanged, Connects
    <3> QED BY <1>4, <2>3, <3>1, HearsNothing
  <2> QED BY <2>2, <2>3
<1>8. CASE FieldPortCurrent(p) /\ m.type = "fieldDisconnected"
  <2>1. r = HostRelay(captured[p].window, captured[p].tab, m)
    BY <1>8 DEF OnFieldMessage
  <2>2. CASE Holds(captured[p].window, captured[p].tab)
    BY <1>8, <2>1, <2>2, HearsFarewell
  <2>3. CASE ~Holds(captured[p].window, captured[p].tab)
    <3>1. r = Nothing /\ ~Connects(m)
      BY <1>8, <2>1, <2>3 DEF HostRelay, Connects
    <3> QED BY <1>4, <2>3, <3>1, HearsNothing
  <2> QED BY <2>2, <2>3
<1> QED BY <1>2, <1>5, <1>6, <1>7, <1>8

\* A field whose port is replaced or closed is let go of.
LetGo(r, t) ==
  /\ r.tabs = {} /\ r.windows \in [Windows -> WindowStates]
  /\ FieldSide(ports, scout, r.windows, captured, fieldPorts, consent, dropped)
  /\ \A v \in Windows : r.windows[v].field # None => r.windows[v].field.tab # t
LEMMA GoneKeeps ==
  ASSUME FieldsSound, NEW p \in FieldPorts, FieldPortCurrent(p),
         NEW t \in Tabs, t = captured[p].tab, scout[t].port # p,
         NEW r, r = FieldPortGone(captured[p].window, t)
  PROVE  LetGo(r, t)
<1> USE DEF LetGo
<1> DEFINE w == captured[p].window
           ws1 == [windows EXCEPT ![w] = Window(None, windows[w].panelReady)]
<1>1. /\ Parts(ports, scout, windows, captured, fieldPorts)
      /\ Roles(ports, scout, windows, captured, fieldPorts)
  BY TypedFacts, SideFacts DEF FieldsSound, FieldSide
<1>2. /\ captured[p] # None /\ w \in Windows /\ fieldPorts[t] = p
      /\ windows \in [Windows -> WindowStates]
  BY <1>1 DEF FieldPortCurrent, Parts, FieldsSound, FieldSide, Typed
<1>3. \A v \in Windows : windows[v].field # None /\ windows[v].field.tab = t => v = w
  <2> SUFFICES ASSUME NEW v \in Windows, windows[v].field # None, windows[v].field.tab = t
               PROVE  v = w
    OBVIOUS
  <2>1. captured[p] = [tab |-> t, window |-> v]
    BY <1>1, <1>2 DEF Roles
  <2> QED BY <2>1
<1>4. CASE Holds(w, t)
  <2>1. r.windows = ws1 /\ r.tabs = {}
    BY <1>4 DEF FieldPortGone, Cleared, Result, WithField
  <2>2. /\ ws1 \in [Windows -> WindowStates] /\ ws1[w].field = None
        /\ \A v \in Windows : v # w => ws1[v] = windows[v]
    BY <1>2 DEF WindowStates, Window
  <2> HIDE DEF ws1, w
  <2>3. \A v \in Windows : Lost1(windows, ws1, v) => v = w
    BY <2>2 DEF Lost1
  <2>4. windows[w].field.tab = t
    BY <1>4 DEF Holds
  <2>5. \A v \in Windows : Lost1(windows, ws1, v) =>
          ~(scout[windows[v].field.tab].port = fieldPorts[windows[v].field.tab])
    BY <1>2, <2>3, <2>4
  <2>6. \A v \in Windows : ws1[v].field = windows[v].field \/ ws1[v].field = None
    BY <2>2
  <2>7. LoseStep(ports, scout, windows, fieldPorts, ports, ws1)
    BY <2>5, <2>6 DEF LoseStep
  <2>8. Typed(ports, scout, ws1, captured, fieldPorts, consent, dropped)
    BY <2>2 DEF FieldsSound, FieldSide, Typed
  <2>9. FieldSide(ports, scout, ws1, captured, fieldPorts, consent, dropped)
    BY <2>7, <2>8, LoseKeeps DEF FieldsSound
  <2>10. \A v \in Windows : ws1[v].field # None => ws1[v].field.tab # t
    BY <1>3, <2>2
  <2> QED BY <2>1, <2>2, <2>9, <2>10
<1>5. CASE ~Holds(w, t)
  <2>1. r.windows = windows /\ r.tabs = {}
    BY <1>5 DEF FieldPortGone, Nothing, Result
  <2>2. \A v \in Windows : windows[v].field # None => windows[v].field.tab # t
    BY <1>3, <1>5 DEF Holds
  <2> QED BY <1>2, <2>1, <2>2 DEF FieldsSound
<1> QED BY <1>4, <1>5

\* Another port of the tab still speaks after it: the script has left p.
LEMMA LeftBehind ==
  ASSUME FieldsSound, NEW p \in FieldPorts, ports[p] # None, ports[p].up # <<>>,
         captured[p] = None, NEW o \in FieldPorts, captured[o] # None,
         captured[o].tab = ports[p].of
  PROVE  scout[ports[p].of].port # o
<1>1. /\ Parts(ports, scout, windows, captured, fieldPorts)
      /\ Roles(ports, scout, windows, captured, fieldPorts)
  BY TypedFacts, SideFacts DEF FieldsSound, FieldSide
<1>2. ports[o] # None /\ ports[o].of = ports[p].of /\ ports[p].of \in Tabs /\ o # p
  BY <1>1 DEF Roles, Parts
<1>3. ports[p].live
  BY DEF FieldsSound, FieldSide, PortsShaped, Shape
<1>4. ~(p < o)
  BY <1>2, <1>3 DEF FieldsSound, FieldSide, PortsInOrder
<1>5. o < p /\ o # None
  BY <1>1, <1>2, <1>4 DEF Parts
<1>6. OwnPort(ports, scout[ports[p].of], captured, fieldPorts, ports[p].of)
  BY <1>2 DEF FieldsSound, FieldSide, OwnPorts
<1>7. ASSUME scout[ports[p].of].port = o PROVE FALSE
  <2>1. p <= o
    BY <1>5, <1>6, <1>7 DEF OwnPort
  <2> QED BY <1>1, <1>5, <2>1 DEF Parts
<1> QED BY <1>7

LEMMA HearsOpen ==
  ASSUME FieldsSound, NEW p \in FieldPorts, ports[p] # None, ports[p].up # <<>>, InTurn(ports, p),
         NEW m, m = Head(ports[p].up), m.type = "open", NEW t, t = ports[p].of,
         NEW r, r = OnFieldPortOpens(t, m.window),
         NEW cap2, cap2 = [captured EXCEPT ![p] = [tab |-> t, window |-> m.window]],
         NEW fps2, fps2 = [fieldPorts EXCEPT ![t] = p]
  PROVE  FieldSide(PortsAfter([ports EXCEPT ![p] = Heard(ports[p], m)], r), scout, r.windows,
                   cap2, fps2, consent, dropped)
<1> DEFINE heard == [ports EXCEPT ![p] = Heard(ports[p], m)]
<1>1. /\ Parts(ports, scout, windows, captured, fieldPorts)
      /\ Roles(ports, scout, windows, captured, fieldPorts)
  BY TypedFacts, SideFacts DEF FieldsSound, FieldSide
<1>2. /\ m \in FieldSays /\ m = ports[p].up[1] /\ t \in Tabs /\ captured[p] = None
      /\ m.window \in Windows /\ p # None
  BY FirstWord, SaysFacts, SetsAssumption
<1>3. /\ ports \in [FieldPorts -> PortWire \cup {None}] /\ ports[p] \in PortWire
      /\ captured \in [FieldPorts -> [tab : Tabs, window : Windows] \cup {None}]
      /\ fieldPorts \in [Tabs -> FieldPorts \cup {None}]
  BY DEF FieldsSound, FieldSide, Typed
<1>4. /\ Heard(ports[p], m) \in PortWire /\ Heard(ports[p], m) # None
      /\ Heard(ports[p], m).of = t /\ Heard(ports[p], m).down = ports[p].down
      /\ Heard(ports[p], m).up = Tail(ports[p].up)
      /\ Heard(ports[p], m).live = ports[p].live
  BY <1>3, HeardFacts, WireFacts
<1>5. /\ heard \in [FieldPorts -> PortWire \cup {None}] /\ heard[p] = Heard(ports[p], m)
      /\ \A e \in FieldPorts : e # p => heard[e] = ports[e]
  BY <1>3, <1>4
<1> HIDE DEF heard
<1>6. Popped(ports, heard, p)
  BY <1>4, <1>5 DEF Popped, Detaches
<1>7. /\ r.tabs = {} /\ FieldSide(ports, scout, r.windows, captured, fieldPorts, consent, dropped)
      /\ \A v \in Windows : r.windows[v].field # None => r.windows[v].field.tab # t
  <2>1. CASE fieldPorts[t] = None
    <3>1. r.tabs = {} /\ r.windows = windows
      BY <2>1 DEF OnFieldPortOpens, Nothing, Result
    <3>2. \A v \in Windows : windows[v].field # None => windows[v].field.tab # t
      BY <1>1, <2>1 DEF Roles
    <3> QED BY <3>1, <3>2 DEF FieldsSound
  <2>2. CASE fieldPorts[t] # None
    <3> DEFINE o == fieldPorts[t]
    <3>1. o \in FieldPorts /\ captured[o] # None /\ captured[o].tab = t /\ FieldPortCurrent(o)
      BY <1>1, <1>2, <2>2 DEF Roles, FieldPortCurrent
    <3>2. r = FieldPortGone(captured[o].window, t)
      BY <2>2, <3>1 DEF OnFieldPortOpens, Evicted
    <3>3. scout[t].port # o
      BY <1>2, <3>1, LeftBehind
    <3>4. t = captured[o].tab
      BY <3>1
    <3> HIDE DEF o
    <3>5. LetGo(r, t)
      BY <1>2, <3>1, <3>2, <3>3, <3>4, GoneKeeps
    <3> QED BY <3>5 DEF LetGo
  <2> QED BY <2>1, <2>2
<1>8. PortsAfter(heard, r) = heard
  BY <1>5, <1>7, NobodyTold
<1>9. cap2 \in [FieldPorts -> [tab : Tabs, window : Windows] \cup {None}]
      /\ fps2 \in [Tabs -> FieldPorts \cup {None}]
  BY <1>2, <1>3
<1>10. Typed(heard, scout, r.windows, cap2, fps2, consent, dropped)
  BY <1>5, <1>7, <1>9 DEF FieldSide, Typed
<1>11. EdgeStep(ports, r.windows, captured, fieldPorts, p, m, t, heard, cap2, fps2)
  <2>1. \A e \in FieldPorts : e < p /\ ports[e] # None /\ ports[e].of = t => ~IsFirst(ports[e])
    <3>1. IsFirst(ports[p])
      BY DEF IsFirst, FirstWords
    <3> QED BY <1>3, <3>1 DEF InTurn
  <2>2. cap2[p] # None /\ cap2[p].tab = t
    BY <1>2, <1>3, SetsAssumption
  <2>3. heard[p].live = ports[p].live
    BY <1>4, <1>5
  <2> QED BY <1>2, <1>3, <1>6, <1>7, <2>1, <2>2, <2>3 DEF EdgeStep
<1>12. FieldSide(heard, scout, r.windows, cap2, fps2, consent, dropped)
  BY <1>7, <1>10, <1>11, EdgeKeeps
<1> QED BY <1>8, <1>12 DEF heard

LEMMA HearsClosed ==
  ASSUME FieldsSound, NEW p \in FieldPorts, ports[p] # None, ports[p].up # <<>>,
         NEW m, m = Head(ports[p].up), m.type = "closed", captured[p] # None,
         NEW r, r = OnFieldPortCloses(p),
         NEW fps2, fps2 = IF FieldPortCurrent(p)
                            THEN [fieldPorts EXCEPT ![captured[p].tab] = None] ELSE fieldPorts
  PROVE  FieldSide(PortsAfter([ports EXCEPT ![p] = Heard(ports[p], m)], r), scout, r.windows,
                   captured, fps2, consent, dropped)
<1> DEFINE heard == [ports EXCEPT ![p] = Heard(ports[p], m)]
           t == ports[p].of
<1>1. /\ Parts(ports, scout, windows, captured, fieldPorts)
      /\ Roles(ports, scout, windows, captured, fieldPorts)
  BY TypedFacts, SideFacts DEF FieldsSound, FieldSide
<1>2. /\ m \in FieldSays /\ m = ports[p].up[1] /\ t \in Tabs /\ captured[p].tab = t
      /\ p # None /\ 1 \in 1..Len(ports[p].up)
  BY FirstWord, SetsAssumption
<1>3. /\ ports \in [FieldPorts -> PortWire \cup {None}] /\ ports[p] \in PortWire
      /\ fieldPorts \in [Tabs -> FieldPorts \cup {None}]
  BY DEF FieldsSound, FieldSide, Typed
<1>4. /\ Heard(ports[p], m) \in PortWire /\ Heard(ports[p], m) # None
      /\ Heard(ports[p], m).of = t /\ Heard(ports[p], m).down = ports[p].down
      /\ Heard(ports[p], m).up = Tail(ports[p].up)
      /\ Heard(ports[p], m).live = FALSE
  BY <1>3, HeardFacts, WireFacts
<1>5. /\ heard \in [FieldPorts -> PortWire \cup {None}] /\ heard[p] = Heard(ports[p], m)
      /\ \A e \in FieldPorts : e # p => heard[e] = ports[e]
  BY <1>3, <1>4
<1> HIDE DEF heard
<1>6. Popped(ports, heard, p)
  BY <1>4, <1>5 DEF Popped, Detaches
<1>7. scout[t].port # p
  BY <1>2 DEF FieldsSound, FieldSide, OwnPorts, OwnPort, Idx
<1>8. /\ r.tabs = {} /\ FieldSide(ports, scout, r.windows, captured, fieldPorts, consent, dropped)
      /\ FieldPortCurrent(p) =>
           \A v \in Windows : r.windows[v].field # None => r.windows[v].field.tab # t
  <2>1. CASE ~FieldPortCurrent(p)
    <3>1. r.tabs = {} /\ r.windows = windows
      BY <2>1 DEF OnFieldPortCloses, Nothing, Result
    <3> QED BY <2>1, <3>1 DEF FieldsSound
  <2>2. CASE FieldPortCurrent(p)
    <3>1. r = FieldPortGone(captured[p].window, t)
      BY <1>2, <2>2 DEF OnFieldPortCloses
    <3>2. t = captured[p].tab
      BY <1>2
    <3> HIDE DEF t
    <3>3. LetGo(r, t)
      BY <1>2, <1>7, <2>2, <3>1, <3>2, GoneKeeps
    <3> QED BY <3>3 DEF LetGo
  <2> QED BY <2>1, <2>2
<1>9. PortsAfter(heard, r) = heard
  BY <1>5, <1>8, NobodyTold
<1>10. /\ fps2 \in [Tabs -> FieldPorts \cup {None}] /\ \A u \in Tabs : u # t => fps2[u] = fieldPorts[u]
       /\ fps2[t] = IF fieldPorts[t] = p THEN None ELSE fieldPorts[t]
       /\ ~FieldPortCurrent(p) => fieldPorts[t] # p
  BY <1>2, <1>3 DEF FieldPortCurrent
<1>11. Typed(heard, scout, r.windows, captured, fps2, consent, dropped)
  BY <1>5, <1>8, <1>10 DEF FieldSide, Typed
<1>12. EdgeStep(ports, r.windows, captured, fieldPorts, p, m, t, heard, captured, fps2)
  <2>1. \A v \in Windows : r.windows[v].field # None /\ r.windows[v].field.tab = t =>
          fps2[t] = fieldPorts[t] /\ fieldPorts[t] # p
    BY <1>8, <1>10
  <2>2. heard[p].live = FALSE
    BY <1>4, <1>5
  <2> QED BY <1>2, <1>6, <1>10, <2>1, <2>2 DEF EdgeStep
<1>13. FieldSide(heard, scout, r.windows, captured, fps2, consent, dropped)
  <2> HIDE DEF t
  <2> QED BY <1>8, <1>11, <1>12, EdgeKeeps
<1> QED BY <1>9, <1>13 DEF heard

LEMMA HearsFieldSound ==
  ASSUME Inv, FieldsSound, NEW p \in FieldPorts, WorkerHearsField(p)
  PROVE  FieldsSound'
<1> DEFINE t == ports[p].of
           m == Head(ports[p].up)
           heard == [ports EXCEPT ![p] = Heard(ports[p], m)]
<1>1. /\ ports[p] # None /\ ports[p].up # <<>> /\ InTurn(ports, p)
      /\ m.type = "open" =>
           /\ Answers(heard, lines, OnFieldPortOpens(t, m.window))
           /\ Execute(OnFieldPortOpens(t, m.window))
           /\ captured' = [captured EXCEPT ![p] = [tab |-> t, window |-> m.window]]
           /\ fieldPorts' = [fieldPorts EXCEPT ![t] = p]
      /\ m.type = "closed" =>
           Answers(heard, lines, OnFieldPortCloses(p)) /\ FieldPortCloses(p)
      /\ m.type \notin {"open", "closed"} =>
           /\ Answers(heard, lines, OnFieldMessage(p, m))
           /\ Execute(OnFieldMessage(p, m))
           /\ UNCHANGED portVars
  BY DEF WorkerHearsField
<1>2. ASSUME NEW r, Answers(heard, lines, r), Execute(r)
      PROVE  /\ ports' = PortsAfter(heard, r) /\ windows' = r.windows
             /\ UNCHANGED <<scout, consent, dropped>>
  BY <1>2 DEF Answers, Execute
<1>h. heard = [ports EXCEPT ![p] = Heard(ports[p], m)] /\ m = Head(ports[p].up) /\ t = ports[p].of
  OBVIOUS
<1> HIDE DEF heard, m, t
<1>3. CASE m.type = "open"
  <2> DEFINE r == OnFieldPortOpens(t, m.window)
  <2>1. /\ Answers(heard, lines, r) /\ Execute(r)
        /\ captured' = [captured EXCEPT ![p] = [tab |-> t, window |-> m.window]]
        /\ fieldPorts' = [fieldPorts EXCEPT ![t] = p]
    BY <1>1, <1>3
  <2>r. r = OnFieldPortOpens(t, m.window)
    OBVIOUS
  <2> HIDE DEF r
  <2>2. ports' = PortsAfter(heard, r) /\ windows' = r.windows /\ UNCHANGED <<scout, consent, dropped>>
    BY <1>2, <2>1
  <2>3. FieldSide(PortsAfter(heard, r), scout, r.windows, captured', fieldPorts', consent, dropped)
    BY <1>1, <1>3, <1>h, <2>1, <2>r, HearsOpen
  <2> QED BY <2>2, <2>3 DEF FieldsSound
<1>4. CASE m.type = "closed"
  <2> DEFINE r == OnFieldPortCloses(p)
  <2>1. /\ Answers(heard, lines, r) /\ Execute(r) /\ captured[p] # None
        /\ captured' = captured
        /\ fieldPorts' = IF FieldPortCurrent(p)
                           THEN [fieldPorts EXCEPT ![captured[p].tab] = None] ELSE fieldPorts
    BY <1>1, <1>4 DEF FieldPortCloses
  <2>r. r = OnFieldPortCloses(p)
    OBVIOUS
  <2> HIDE DEF r
  <2>2. ports' = PortsAfter(heard, r) /\ windows' = r.windows /\ UNCHANGED <<scout, consent, dropped>>
    BY <1>2, <2>1
  <2>3. FieldSide(PortsAfter(heard, r), scout, r.windows, captured, fieldPorts', consent, dropped)
    BY <1>1, <1>4, <1>h, <2>1, <2>r, HearsClosed
  <2> QED BY <2>1, <2>2, <2>3 DEF FieldsSound
<1>5. CASE m.type \notin {"open", "closed"}
  <2> DEFINE r == OnFieldMessage(p, m)
  <2>1. Answers(heard, lines, r) /\ Execute(r) /\ UNCHANGED <<captured, fieldPorts>>
    BY <1>1, <1>5 DEF portVars
  <2>r. r = OnFieldMessage(p, m)
    OBVIOUS
  <2> HIDE DEF r
  <2>2. ports' = PortsAfter(heard, r) /\ windows' = r.windows /\ UNCHANGED <<scout, consent, dropped>>
    BY <1>2, <2>1
  <2>3. FieldSide(PortsAfter(heard, r), scout, r.windows, captured, fieldPorts, consent, dropped)
    BY <1>1, <1>5, <1>h, <2>r, HearsMessage
  <2> QED BY <2>1, <2>2, <2>3 DEF FieldsSound
<1> QED BY <1>3, <1>4, <1>5

\* A panel becomes ready or not, or asks a field to disconnect.
LEMMA PanelTellsSound ==
  ASSUME FieldsSound, NEW r, \A x \in r.tabs : x.tab \in Tabs /\ x.msg = [type |-> "disconnect"],
         ports' = PortsAfter(ports, r), windows' \in [Windows -> WindowStates],
         \A w \in Windows : windows'[w].field = windows[w].field,
         UNCHANGED <<scout, captured, fieldPorts, consent, dropped>>
  PROVE  FieldsSound'
<1> DEFINE mid == PortsAfter(ports, r)
<1>1. ports \in [FieldPorts -> PortWire \cup {None}]
  BY DEF FieldsSound, FieldSide, Typed
<1>2. \A x \in r.tabs : x.tab \in Tabs /\ x.msg \in FieldIsTold /\ x.msg.type # "detach"
  BY DEF FieldIsTold
<1>3. Told(ports, mid, r)
  BY <1>1, <1>2, PortsAfterFacts
<1>m. ports' = mid
  OBVIOUS
<1> HIDE DEF mid
<1>4. LoseStep(ports, scout, windows, fieldPorts, mid, windows')
  BY <1>2, <1>3 DEF LoseStep, Lost1, Told
<1>5. Typed(mid, scout, windows', captured, fieldPorts, consent, dropped)
  BY <1>3 DEF FieldsSound, FieldSide, Typed, Told
<1>6. FieldSide(mid, scout, windows', captured, fieldPorts, consent, dropped)
  BY <1>4, <1>5, LoseKeeps DEF FieldsSound
<1> QED BY <1>6, <1>m DEF FieldsSound

LEMMA ReadyResult ==
  ASSUME windows \in [Windows -> WindowStates], NEW w \in Windows, NEW ready \in BOOLEAN
  PROVE  /\ PanelReady(w, ready).tabs = {}
         /\ PanelReady(w, ready).windows \in [Windows -> WindowStates]
         /\ \A v \in Windows : PanelReady(w, ready).windows[v].field = windows[v].field
BY DEF PanelReady, Nothing, Result, Window, WindowStates

LEMMA HearsPanelSound ==
  ASSUME Inv, ClientTypeOK, FieldsSound, NEW q \in PanelPorts, WorkerHearsPanel(q)
  PROVE  FieldsSound'
<1> DEFINE w == lines[q].of
           m == Head(lines[q].up)
           heard == [lines EXCEPT ![q] = Heard(lines[q], m)]
<1>1. /\ lines[q] # None /\ lines[q].up # <<>>
      /\ m.type = "panelHello" => Answers(ports, heard, Nothing) /\ PanelHello(q, w)
      /\ m.type = "closed" =>
           /\ Answers(ports, heard, Nothing)
           /\ IF PanelPortCurrent(q) THEN PanelPortCloses(q) ELSE UNCHANGED registryState
      /\ m.type \notin {"panelHello", "closed"} =>
           Answers(ports, heard, OnPanelMessage(q, m)) /\ PanelPortSays(q, m)
  BY DEF WorkerHearsPanel
<1>2. /\ windows \in [Windows -> WindowStates] /\ ports \in [FieldPorts -> PortWire \cup {None}]
      /\ Nothing.tabs = {} /\ Nothing.windows = windows
  BY DEF FieldsSound, FieldSide, Typed, Nothing, Result
<1>3. w \in Windows /\ m \in PanelSpeaks
  <2>1. lines[q] \in LineWire
    BY <1>1 DEF ClientTypeOK
  <2>2. lines[q].up \in Seq(PanelSpeaks) /\ w \in Windows
    BY <2>1 DEF LineWire
  <2> QED BY <1>1, <2>2, TailFacts
<1>4. \A e \in PanelPorts : hello[e] # None => hello[e] \in Windows
  BY DEF Inv, TypeOK
<1> HIDE DEF w, m, heard
<1>5. CASE m.type = "panelHello"
  <2>1. /\ ports' = PortsAfter(ports, Nothing) /\ UNCHANGED <<scout, captured, fieldPorts, consent, dropped>>
        /\ windows' = NotReadyYet(q, w).windows
    BY <1>1, <1>5 DEF Answers, PanelHello, ExecuteForgetting
  <2>2. /\ NotReadyYet(q, w).windows \in [Windows -> WindowStates]
        /\ \A v \in Windows : NotReadyYet(q, w).windows[v].field = windows[v].field
    BY <1>2, <1>3, ReadyResult DEF NotReadyYet
  <2> QED BY <1>2, <2>1, <2>2, PanelTellsSound
<1>6. CASE m.type = "closed"
  <2>1. ports' = PortsAfter(ports, Nothing) /\ UNCHANGED <<scout, consent, dropped>>
    BY <1>1, <1>6 DEF Answers
  <2>2. UNCHANGED <<captured, fieldPorts>> /\ windows' \in [Windows -> WindowStates]
        /\ \A v \in Windows : windows'[v].field = windows[v].field
    <3>1. CASE PanelPortCurrent(q)
      <4>1. UNCHANGED <<captured, fieldPorts>> /\ windows' = PanelReady(hello[q], FALSE).windows
        BY <1>1, <1>6, <3>1 DEF PanelPortCloses, ExecuteForgetting
      <4>2. hello[q] \in Windows
        BY <1>4, <3>1 DEF PanelPortCurrent
      <4> QED BY <1>2, <4>1, <4>2, ReadyResult
    <3>2. CASE ~PanelPortCurrent(q)
      BY <1>1, <1>2, <1>6, <3>2 DEF registryState, registryVars, portVars
    <3> QED BY <3>1, <3>2
  <2> QED BY <1>2, <2>1, <2>2, PanelTellsSound
<1>7. CASE m.type \notin {"panelHello", "closed"}
  <2> DEFINE r == OnPanelMessage(q, m)
  <2>1. /\ ports' = PortsAfter(ports, r) /\ UNCHANGED <<scout, captured, fieldPorts, consent, dropped>>
        /\ windows' = r.windows
    BY <1>1, <1>7 DEF Answers, PanelPortSays, Execute, ExecuteForgetting, portVars
  <2>2. m.type = "disconnect" \/ (m.type = "embedReady" /\ m.ready \in BOOLEAN)
    BY <1>3, <1>7 DEF PanelSpeaks
  <2>3. CASE ~PanelPortCurrent(q)
    <3>1. r = Nothing
      BY <2>3 DEF OnPanelMessage
    <3> QED BY <1>2, <2>1, <3>1, PanelTellsSound
  <2>4. CASE PanelPortCurrent(q) /\ m.type = "embedReady"
    <3>1. r = PanelReady(hello[q], m.ready) /\ hello[q] \in Windows /\ m.ready \in BOOLEAN
      BY <1>4, <2>2, <2>4 DEF OnPanelMessage, PanelPortCurrent
    <3>2. /\ r.tabs = {} /\ r.windows \in [Windows -> WindowStates]
          /\ \A v \in Windows : r.windows[v].field = windows[v].field
      BY <1>2, <3>1, ReadyResult
    <3> HIDE DEF r
    <3> QED BY <2>1, <3>2, PanelTellsSound
  <2>5. CASE PanelPortCurrent(q) /\ m.type = "disconnect"
    <3> DEFINE v == hello[q]
    <3>1. r = DisconnectRequested(v) /\ v \in Windows
      BY <1>4, <2>5 DEF OnPanelMessage, PanelPortCurrent
    <3> HIDE DEF v
    <3>2. windows[v].field # None => windows[v].field.tab \in Tabs
      BY <1>2, <3>1 DEF WindowStates, FieldState
    <3>3. r.windows = windows /\ \A x \in r.tabs : x.tab \in Tabs /\ x.msg = [type |-> "disconnect"]
      BY <3>1, <3>2 DEF DisconnectRequested, Nothing, Result, ToField
    <3> HIDE DEF r
    <3> QED BY <1>2, <2>1, <3>3, PanelTellsSound
  <2> QED BY <2>2, <2>3, <2>4, <2>5
<1> QED BY <1>5, <1>6, <1>7

LEMMA WorkerServerSound ==
  ASSUME Inv, FieldsSound, WorkerServer
  PROVE  FieldsSound'
<1> DEFINE r == ServerChanged
           ws1 == [w \in Windows |-> Window(None, windows[w].panelReady)]
           mid == PortsAfter(ports, r)
           Goodbye(w) == [tab |-> windows[w].field.tab, msg |-> Detach(windows[w].field)]
<1>1. /\ ports' = mid /\ windows' = ws1
      /\ UNCHANGED <<scout, captured, fieldPorts, consent, dropped>>
  BY DEF WorkerServer, ServerUrlChanged, ServerChanged, Result, portVars
<1>2. /\ windows \in [Windows -> WindowStates] /\ ports \in [FieldPorts -> PortWire \cup {None}]
  BY DEF FieldsSound, FieldSide, Typed
<1>3. /\ Parts(ports, scout, windows, captured, fieldPorts)
      /\ Roles(ports, scout, windows, captured, fieldPorts)
  BY TypedFacts, SideFacts DEF FieldsSound, FieldSide
<1>4. r.tabs = UNION {ToField(w, Detach(windows[w].field)) : w \in {v \in Windows : windows[v].field # None}}
  BY DEF ServerChanged, Result
<1>5. /\ \A x \in r.tabs : \E w \in Windows : windows[w].field # None /\ x = Goodbye(w)
      /\ \A w \in Windows : windows[w].field # None => Goodbye(w) \in r.tabs
  BY <1>4 DEF ToField
<1>6. \A w \in Windows : windows[w].field # None =>
        /\ Goodbye(w).tab = windows[w].field.tab /\ windows[w].field.tab \in Tabs
        /\ Goodbye(w).msg \in FieldIsTold /\ Goodbye(w).msg.type = "detach"
        /\ Goodbye(w).msg.id = windows[w].field.id
  BY <1>3 DEF Parts, Detach, FieldIsTold
<1> HIDE DEF r, Goodbye, ws1
<1>7. \A x \in r.tabs : x.tab \in Tabs /\ x.msg \in FieldIsTold
  BY <1>5, <1>6
<1>8. /\ Told(ports, mid, r)
      /\ \A x \in r.tabs :
              /\ x.msg.type = "detach" /\ scout[x.tab].port = fieldPorts[x.tab]
              /\ fieldPorts[x.tab] # None /\ ports[fieldPorts[x.tab]].live
              /\ \A y \in r.tabs : y.tab = x.tab => y = x
              => x.msg.id \in Detaches(mid[fieldPorts[x.tab]])
  BY <1>2, <1>7, PortsAfterFacts
<1> HIDE DEF mid
<1>9. ws1 \in [Windows -> WindowStates] /\ \A w \in Windows : ws1[w].field = None
  BY <1>2 DEF ws1, Window, WindowStates
<1>10. LoseStep(ports, scout, windows, fieldPorts, mid, ws1)
  <2>1. ASSUME NEW e \in FieldPorts, ports[e] # None, NEW g \in Detaches(mid[e])
        PROVE  g \in Detaches(ports[e]) \/ \E w \in Windows : Lost1(windows, ws1, w) /\ windows[w].field.id = g
    <3>1. g \in Detaches(ports[e]) \/ \E x \in r.tabs : x.msg.type = "detach" /\ x.msg.id = g
      BY <1>8, <2>1 DEF Told
    <3> QED BY <1>5, <1>6, <1>9, <3>1 DEF Lost1
  <2>2. ASSUME NEW w \in Windows, Lost1(windows, ws1, w),
               scout[windows[w].field.tab].port = fieldPorts[windows[w].field.tab]
        PROVE  windows[w].field.id \in Detaches(mid[fieldPorts[windows[w].field.tab]])
    <3> DEFINE u == windows[w].field.tab
    <3>1. windows[w].field # None
      BY <2>2 DEF Lost1
    <3>2. /\ u \in Tabs /\ fieldPorts[u] # None /\ ports[fieldPorts[u]].live
          /\ captured[fieldPorts[u]] = [tab |-> u, window |-> w]
      BY <1>3, <3>1 DEF Parts, Roles
    <3>3. ASSUME NEW v \in Windows, windows[v].field # None, windows[v].field.tab = u
          PROVE  v = w
      <4>1. captured[fieldPorts[u]] = [tab |-> u, window |-> v]
        BY <1>3, <3>3 DEF Roles
      <4> QED BY <3>2, <4>1
    <3>4. \A y \in r.tabs : y.tab = u => y = Goodbye(w)
      BY <1>5, <1>6, <3>3
    <3>5. Goodbye(w) \in r.tabs /\ Goodbye(w).tab = u /\ Goodbye(w).msg.type = "detach"
          /\ Goodbye(w).msg.id = windows[w].field.id
      BY <1>5, <1>6, <3>1
    <3> QED BY <1>8, <2>2, <3>2, <3>4, <3>5
  <2>3. /\ \A w \in Windows : ws1[w].field = windows[w].field \/ ws1[w].field = None
        /\ \A e \in FieldPorts : mid[e] = None <=> ports[e] = None
        /\ \A e \in FieldPorts : ports[e] # None =>
             /\ mid[e].of = ports[e].of /\ mid[e].live = ports[e].live /\ mid[e].up = ports[e].up
             /\ Detaches(ports[e]) \subseteq Detaches(mid[e])
    BY <1>8, <1>9 DEF Told
  <2> QED BY <2>1, <2>2, <2>3 DEF LoseStep
<1>11. Typed(mid, scout, ws1, captured, fieldPorts, consent, dropped)
  BY <1>8, <1>9 DEF FieldsSound, FieldSide, Typed, Told
<1>12. FieldSide(mid, scout, ws1, captured, fieldPorts, consent, dropped)
  BY <1>10, <1>11, LoseKeeps DEF FieldsSound
<1> QED BY <1>1, <1>12 DEF FieldsSound

LEMMA WorkerDownSound ==
  ASSUME Inv, FieldsSound, WorkerDown
  PROVE  FieldsSound'
<1> DEFINE Dead(x) == [x EXCEPT !.live = FALSE, !.up = <<>>]
<1>1. /\ ports' = [p \in FieldPorts |-> IF ports[p] = None THEN None ELSE Dead(ports[p])]
      /\ windows' = [w \in Windows |-> Window(None, FALSE)]
      /\ fieldPorts' = [t \in Tabs |-> None]
      /\ UNCHANGED <<scout, captured, consent, dropped>>
  BY DEF WorkerDown, WorkerDies
<1>2. ports \in [FieldPorts -> PortWire \cup {None}]
  BY DEF FieldsSound, FieldSide, Typed
<1>3. ASSUME NEW p \in FieldPorts, ports[p] # None
      PROVE  /\ Dead(ports[p]) \in PortWire /\ Dead(ports[p]) # None
             /\ Dead(ports[p]).of = ports[p].of /\ Dead(ports[p]).live = FALSE
             /\ Dead(ports[p]).up = <<>> /\ Dead(ports[p]).down = ports[p].down
  <2>1. ports[p] \in PortWire
    BY <1>2, <1>3
  <2>2. Dead(ports[p]) \in PortWire
    BY <2>1, EmptySeq DEF PortWire
  <2> QED BY <2>1, <2>2, WiresAssumption DEF PortWire
<1> HIDE DEF Dead
<1>4. /\ ports' \in [FieldPorts -> PortWire \cup {None}]
      /\ \A e \in FieldPorts : ports'[e] = None <=> ports[e] = None
      /\ \A e \in FieldPorts : ports[e] # None =>
           /\ ports'[e].of = ports[e].of /\ ports'[e].live = FALSE /\ ports'[e].up = <<>>
           /\ Detaches(ports'[e]) = Detaches(ports[e])
  BY <1>1, <1>3 DEF Detaches
<1>5. /\ windows' \in [Windows -> WindowStates] /\ fieldPorts' \in [Tabs -> FieldPorts \cup {None}]
      /\ \A w \in Windows : windows'[w].field = None
      /\ \A t \in Tabs : fieldPorts'[t] = None
  BY <1>1 DEF Window, WindowStates
<1>6. DieStep(ports, ports', windows', fieldPorts')
  BY <1>4, <1>5 DEF DieStep
<1>7. Typed(ports', scout, windows', captured, fieldPorts', consent, dropped)
  BY <1>4, <1>5 DEF FieldsSound, FieldSide, Typed
<1>8. FieldSide(ports', scout, windows', captured, fieldPorts', consent, dropped)
  BY <1>6, <1>7, DieKeeps DEF FieldsSound
<1> QED BY <1>1, <1>8 DEF FieldsSound

LEMMA FieldsStep ==
  ASSUME Inv, ClientTypeOK, FieldsSound, ExtensionNext
  PROVE  FieldsSound'
<1>1. CASE ChangeServer
  BY <1>1, ElsewhereSound DEF ChangeServer, registryState, registryVars, portVars
<1>2. CASE WorkerNext
  BY <1>2, HearsFieldSound, HearsPanelSound, WorkerServerSound, WorkerDownSound DEF WorkerNext
<1> QED BY <1>1, <1>2, TabSound, PanelActionSound DEF ExtensionNext

-----------------------------------------------------------------------------
(* The ports of the panels: a panel says its hello first, and once, and     *)
(* speaks on a port that it opened.                                         *)
LineShape(x, h) ==
  IF h # None THEN h = x.of /\ \A i \in Idx(x.up) : x.up[i].type # "panelHello"
  ELSE /\ x.live <=> x.up # <<>>
       /\ \A i \in Idx(x.up) : x.up[i].type = "panelHello" <=> i = 1
LinesShaped(ls, he) ==
  \A q \in PanelPorts :
    /\ ls[q] = None => he[q] = None /\ \A e \in PanelPorts : e > q => ls[e] = None
    /\ ls[q] # None => LineShape(ls[q], he[q])
OwnLines(ls, pn) ==
  \A w \in Windows : pn[w].port # None => ls[pn[w].port] # None /\ ls[pn[w].port].of = w
LineSide(ls, pn, he) ==
  /\ ls \in [PanelPorts -> LineWire \cup {None}] /\ pn \in [Windows -> Panel]
  /\ he \in [PanelPorts -> Windows \cup {None}]
  /\ LinesShaped(ls, he) /\ OwnLines(ls, pn)
LinesSound == LineSide(lines, panel, hello)

LEMMA LineFacts ==
  ASSUME NEW x \in LineWire
  PROVE  /\ x.of \in Windows /\ x.live \in BOOLEAN
         /\ x.up \in Seq(PanelSpeaks) /\ x.down \in Seq(PanelIsTold)
         /\ Len(x.up) \in Nat /\ Len(x.down) \in Nat
         /\ \A i \in Idx(x.up) : x.up[i] \in PanelSpeaks
<1>1. /\ x.of \in Windows /\ x.live \in BOOLEAN
      /\ x.up \in Seq(PanelSpeaks) /\ x.down \in Seq(PanelIsTold)
  BY DEF LineWire
<1>2. Len(x.up) \in Nat /\ Len(x.down) \in Nat
  BY <1>1
<1>3. \A i \in Idx(x.up) : x.up[i] \in PanelSpeaks
  BY <1>1, ElementOfSeq DEF Idx
<1> QED BY <1>1, <1>2, <1>3

\* A line of the same window that says what its port may say.
Relined(x, h, y) == y \in LineWire /\ y # None /\ y.of = x.of /\ LineShape(y, h)

LEMMA PanelSaid ==
  ASSUME NEW x \in LineWire, NEW h, LineShape(x, h),
         NEW m \in PanelSpeaks, m.type # "panelHello"
  PROVE  /\ Said(x, <<m>>) \in LineWire /\ Relined(x, h, Said(x, <<m>>))
         /\ Relined(x, h, [Said(x, <<m>>) EXCEPT !.down = <<>>])
         /\ [Said(x, <<m>>) EXCEPT !.down = <<>>].up = Said(x, <<m>>).up
         /\ Said(x, <<m>>).live = x.live /\ Said(x, <<m>>).down = x.down
         /\ Said(x, <<m>>).up = IF x.live THEN Append(x.up, m) ELSE x.up
<1> DEFINE n == Append(x.up, m)
           y == Said(x, <<m>>)
           z == [y EXCEPT !.down = <<>>]
<1>1. /\ n \in Seq(PanelSpeaks) /\ Len(x.up) \in Nat /\ Len(n) = Len(x.up) + 1
      /\ n[Len(x.up) + 1] = m /\ x.up \o <<m>> = n
      /\ \A i \in 1..Len(x.up) : n[i] = x.up[i]
  BY LineFacts, AppendFacts
<1> HIDE DEF n
<1>2. y = IF x.live THEN [x EXCEPT !.up = n] ELSE x
  BY <1>1 DEF Said
<1>3. /\ y \in LineWire /\ y.of = x.of /\ y.live = x.live /\ y.down = x.down
      /\ y.up = IF x.live THEN n ELSE x.up
  BY <1>1, <1>2 DEF LineWire
<1> HIDE DEF y
<1>4. LineShape(y, h)
  <2>1. CASE ~x.live
    BY <1>3, <2>1 DEF LineShape, Idx
  <2>2. CASE x.live
    <3>1. y.up = n /\ n # <<>> /\ y.live
      BY <1>1, <1>3, <2>2
    <3>2. \A i \in Idx(n) : n[i] = m \/ (i \in Idx(x.up) /\ n[i] = x.up[i])
      BY <1>1 DEF Idx
    <3>3. CASE h # None
      BY <1>3, <3>1, <3>2, <3>3 DEF LineShape
    <3>4. CASE h = None
      <4>1. x.up # <<>> /\ \A i \in Idx(x.up) : x.up[i].type = "panelHello" <=> i = 1
        BY <2>2, <3>4 DEF LineShape
      <4>2. Len(x.up) > 0
        BY <4>1, EmptySeq, LineFacts
      <4>3. \A i \in Idx(n) : n[i].type = "panelHello" <=> i = 1
        <5> TAKE i \in Idx(n)
        <5>1. CASE i = Len(x.up) + 1
          BY <1>1, <4>2, <5>1
        <5>2. CASE i # Len(x.up) + 1
          BY <1>1, <4>1, <5>2 DEF Idx
        <5> QED BY <5>1, <5>2
      <4> QED BY <3>1, <3>4, <4>3 DEF LineShape
    <3> QED BY <3>3, <3>4
  <2> QED BY <2>1, <2>2
<1>5. /\ z \in LineWire /\ z.of = y.of /\ z.live = y.live /\ z.up = y.up
  BY <1>3, EmptySeq DEF LineWire
<1> HIDE DEF z
<1>6. LineShape(z, h)
  BY <1>4, <1>5 DEF LineShape
<1>7. Relined(x, h, y) /\ Relined(x, h, z)
  BY <1>3, <1>4, <1>5, <1>6, WiresAssumption DEF Relined
<1> QED BY <1>1, <1>3, <1>5, <1>7 DEF y, z, n

LEMMA LineOnto ==
  ASSUME NEW x \in LineWire, NEW h, LineShape(x, h), NEW m \in PanelIsTold
  PROVE  Relined(x, h, Onto(x, m))
<1> DEFINE n == Append(x.down, m)
           y == Onto(x, m)
<1>1. n \in Seq(PanelIsTold)
  BY LineFacts, AppendFacts
<1> HIDE DEF n
<1>2. y = IF x.live THEN [x EXCEPT !.down = n] ELSE x
  BY DEF Onto, n
<1>3. y \in LineWire /\ y.of = x.of /\ y.live = x.live /\ y.up = x.up
  BY <1>1, <1>2 DEF LineWire
<1> HIDE DEF y
<1>4. Relined(x, h, y)
  BY <1>3, WiresAssumption DEF Relined, LineShape
<1> QED BY <1>4 DEF y

\* Of a line whose hello was heard, or is heard now, the next word is heard.
LEMMA LineHeard ==
  ASSUME NEW x \in LineWire, NEW h, LineShape(x, h), x.up # <<>>,
         NEW g, g = IF h # None THEN h ELSE x.of, None \notin Windows
  PROVE  /\ Relined(x, g, Heard(x, Head(x.up))) /\ Heard(x, Head(x.up)) \in LineWire
         /\ Head(x.up) \in PanelSpeaks
         /\ Head(x.up).type = "panelHello" <=> h = None
<1> DEFINE m == Head(x.up)
           n == Tail(x.up)
           y == Heard(x, m)
<1>1. /\ n \in Seq(PanelSpeaks) /\ Len(x.up) \in Nat /\ Len(x.up) > 0
      /\ Len(n) = Len(x.up) - 1 /\ m = x.up[1] /\ m \in PanelSpeaks
      /\ \A i \in 1..(Len(x.up) - 1) : n[i] = x.up[i + 1]
  BY LineFacts, TailFacts
<1>2. \A i \in Idx(n) : i + 1 \in Idx(x.up) /\ n[i] = x.up[i + 1] /\ i + 1 # 1
  BY <1>1 DEF Idx
<1>3. 1 \in Idx(x.up)
  BY <1>1 DEF Idx
<1> HIDE DEF m, n
<1>4. m.type = "panelHello" <=> h = None
  BY <1>1, <1>3 DEF LineShape
<1>5. y = [x EXCEPT !.up = n, !.live = @ /\ m.type # "closed"]
  BY DEF Heard, m, n
<1>6. y \in LineWire /\ y.of = x.of /\ y.up = n
  BY <1>1, <1>5 DEF LineWire
<1>7. \A i \in Idx(n) : n[i].type # "panelHello"
  BY <1>2 DEF LineShape
<1>8. g # None /\ g = x.of
  BY LineFacts DEF LineShape
<1> HIDE DEF y
<1>9. LineShape(y, g)
  BY <1>6, <1>7, <1>8 DEF LineShape
<1>10. Relined(x, g, y)
  BY <1>6, <1>9, WiresAssumption DEF Relined
<1> QED BY <1>1, <1>4, <1>6, <1>10 DEF y, m

\* No line is opened; the ports of panels stay or go.
RelineStep(ls, pn, he, ls2, pn2, he2) ==
  /\ \A q \in PanelPorts : ls[q] = None => ls2[q] = None /\ he2[q] = he[q]
  /\ \A q \in PanelPorts : ls[q] # None => Relined(ls[q], he2[q], ls2[q])
  /\ \A w \in Windows : pn2[w].port \in {None, pn[w].port}
LEMMA RelineKeeps ==
  ASSUME NEW ls, NEW pn, NEW he, LineSide(ls, pn, he),
         NEW ls2, NEW pn2 \in [Windows -> Panel], NEW he2 \in [PanelPorts -> Windows \cup {None}],
         DOMAIN ls2 = PanelPorts, ls2 = [q \in PanelPorts |-> ls2[q]],
         RelineStep(ls, pn, he, ls2, pn2, he2)
  PROVE  LineSide(ls2, pn2, he2)
<1> USE DEF RelineStep
<1>1. /\ ls \in [PanelPorts -> LineWire \cup {None}] /\ pn \in [Windows -> Panel]
      /\ LinesShaped(ls, he) /\ OwnLines(ls, pn)
  BY DEF LineSide
<1>2. \A q \in PanelPorts : /\ ls2[q] \in LineWire \cup {None}
                            /\ ls2[q] = None <=> ls[q] = None
                            /\ ls[q] # None => ls2[q].of = ls[q].of /\ LineShape(ls2[q], he2[q])
  BY DEF Relined
<1>3. ls2 \in [PanelPorts -> LineWire \cup {None}]
  BY <1>2
<1>4. LinesShaped(ls2, he2)
  BY <1>1, <1>2 DEF LinesShaped
<1>5. OwnLines(ls2, pn2)
  <2> SUFFICES ASSUME NEW w \in Windows, pn2[w].port # None
               PROVE  ls2[pn2[w].port] # None /\ ls2[pn2[w].port].of = w
    BY DEF OwnLines
  <2>1. pn2[w].port = pn[w].port /\ pn[w].port \in PanelPorts
    BY <1>1 DEF Panel
  <2> QED BY <1>1, <1>2, <2>1 DEF OwnLines
<1> QED BY <1>3, <1>4, <1>5 DEF LineSide

-----------------------------------------------------------------------------
(* What the panels do.                                                      *)
LEMMA PanelSide ==
  ASSUME LinesSound, NEW w \in Windows, panel[w].port # None
  PROVE  /\ panel[w].port \in PanelPorts /\ lines[panel[w].port] \in LineWire
         /\ LineShape(lines[panel[w].port], hello[panel[w].port])
         /\ lines[panel[w].port] # None
BY DEF LinesSound, LineSide, Panel, OwnLines, LinesShaped

\* A panel says something, and is gone or not.
LEMMA SpeaksKeeps ==
  ASSUME LinesSound, NEW w \in Windows, panel[w].port # None,
         NEW m \in PanelSpeaks, m.type # "panelHello", NEW new \in Panel,
         new.port \in {None, panel[w].port}, panel' = [panel EXCEPT ![w] = new],
         \/ lines' = [lines EXCEPT ![panel[w].port] = Said(@, <<m>>)]
         \/ lines' = [lines EXCEPT ![panel[w].port] = [Said(@, <<m>>) EXCEPT !.down = <<>>]],
         hello' = hello
  PROVE  LinesSound'
<1> DEFINE q == panel[w].port
<1>1. /\ q \in PanelPorts /\ lines[q] \in LineWire /\ LineShape(lines[q], hello[q])
      /\ lines[q] # None
  BY PanelSide
<1>2. /\ Relined(lines[q], hello[q], Said(lines[q], <<m>>))
      /\ Relined(lines[q], hello[q], [Said(lines[q], <<m>>) EXCEPT !.down = <<>>])
  BY <1>1, PanelSaid
<1>3. lines \in [PanelPorts -> LineWire \cup {None}] /\ panel \in [Windows -> Panel]
      /\ hello \in [PanelPorts -> Windows \cup {None}]
  BY DEF LinesSound, LineSide
<1>4. /\ Relined(lines[q], hello[q], lines'[q])
      /\ \A e \in PanelPorts : e # q => lines'[e] = lines[e]
      /\ lines' = [e \in PanelPorts |-> lines'[e]]
  BY <1>1, <1>2, <1>3
<1> HIDE DEF q
<1>5. \A e \in PanelPorts : lines[e] # None /\ e # q => Relined(lines[e], hello[e], lines'[e])
  BY <1>3, <1>4 DEF Relined, LinesSound, LineSide, LinesShaped
<1>6. panel' \in [Windows -> Panel] /\ \A v \in Windows : panel'[v].port \in {None, panel[v].port}
  BY <1>3
<1>7. RelineStep(lines, panel, hello, lines', panel', hello)
  BY <1>1, <1>4, <1>5, <1>6 DEF RelineStep
<1>8. LineSide(lines', panel', hello)
  BY <1>3, <1>4, <1>6, <1>7, RelineKeeps DEF LinesSound
<1> QED BY <1>8 DEF LinesSound

LEMMA PanelsApart ==
  ASSUME LinesSound, NEW new \in [Windows -> Panel],
         \A w \in Windows : new[w].port \in {None, panel[w].port}
  PROVE  LineSide(lines, new, hello)
BY DEF LinesSound, LineSide, OwnLines

LEMMA PanelKinds ==
  /\ NoPanel \in Panel /\ NoPanel.port = None
  /\ Loading \in Panel /\ Loading.port = None
<1>1. 0 \in Servers
  BY BoundsAssumption DEF Servers
<1>2. NoPanel \in Panel /\ NoPanel.port = None
  BY <1>1 DEF NoPanel, Panel
<1> QED BY <1>2 DEF Loading, Panel

LEMMA OpensSound ==
  ASSUME LinesSound, NEW w \in Windows, PanelOpens(w)
  PROVE  LinesSound'
<1>1. panel' = [panel EXCEPT ![w] = Loading] /\ lines' = lines /\ hello' = hello
  BY DEF PanelOpens, registryState, portVars
<1>2. /\ panel' \in [Windows -> Panel]
      /\ \A v \in Windows : panel'[v].port \in {None, panel[v].port}
  BY <1>1, PanelKinds DEF LinesSound, LineSide
<1>3. LineSide(lines, panel', hello)
  BY <1>2, PanelsApart
<1> QED BY <1>1, <1>3 DEF LinesSound

LEMMA LoadsSound ==
  ASSUME Inv, LinesSound, server \in Servers, NEW w \in Windows, PanelLoads(w)
  PROVE  LinesSound'
<1> DEFINE q == Next1(lines)
           hi == [type |-> "panelHello"]
           x == Said(Wire(w), <<hi>>)
<1>1. /\ panel[w].open /\ panel[w].port = None /\ Fresh(lines) # {}
      /\ panel' = [panel EXCEPT ![w].port = q, ![w].server = server]
      /\ lines' = [lines EXCEPT ![q] = x] /\ hello' = hello
  BY DEF PanelLoads, registryState, portVars
<1>2. /\ lines \in [PanelPorts -> LineWire \cup {None}] /\ panel \in [Windows -> Panel]
      /\ hello \in [PanelPorts -> Windows \cup {None}]
      /\ LinesShaped(lines, hello) /\ OwnLines(lines, panel)
  BY DEF LinesSound, LineSide
<1>3. q \in PanelPorts /\ lines[q] = None /\ \A e \in PanelPorts : e < q => lines[e] # None
  <2>1. DOMAIN lines = PanelPorts /\ PanelPorts \in SUBSET Nat
    BY <1>2, BoundsAssumption
  <2> QED BY <1>1, <2>1, NextIsFree
<1>4. hi \in PanelSpeaks /\ hi.type = "panelHello"
  BY DEF PanelSpeaks
<1> HIDE DEF hi
<1>5. /\ x = [of |-> w, live |-> TRUE, up |-> <<hi>>, down |-> <<>>]
      /\ <<hi>> \in Seq(PanelSpeaks) /\ Len(<<hi>>) = 1 /\ <<hi>>[1] = hi
  <2>1. <<hi>> \in Seq(PanelSpeaks) /\ <<>> \o <<hi>> = <<hi>>
    BY <1>4, ConcatEmptySeq
  <2> QED BY <2>1 DEF Said, Wire
<1>6. x \in LineWire /\ x # None /\ x.of = w /\ x.live = TRUE /\ x.up = <<hi>>
  <2>1. /\ w \in Windows /\ TRUE \in BOOLEAN /\ <<>> \in Seq(PanelIsTold)
    BY EmptySeq
  <2> HIDE DEF x
  <2>2. x \in LineWire /\ x.of = w /\ x.live = TRUE /\ x.up = <<hi>>
    BY <1>5, <2>1 DEF LineWire
  <2> QED BY <2>2, WiresAssumption
<1> HIDE DEF x, q
<1>7. hello[q] = None
  BY <1>2, <1>3 DEF LinesShaped
<1>8. LineShape(x, hello[q])
  BY <1>4, <1>5, <1>6, <1>7 DEF LineShape, Idx
<1>9. /\ lines' \in [PanelPorts -> LineWire \cup {None}] /\ lines'[q] = x
      /\ \A e \in PanelPorts : e # q => lines'[e] = lines[e]
  BY <1>1, <1>2, <1>3, <1>6
<1>10. /\ panel' \in [Windows -> Panel] /\ panel'[w].port = q
       /\ \A v \in Windows : v # w => panel'[v] = panel[v]
  BY <1>1, <1>2, <1>3 DEF Panel
<1>11. LinesShaped(lines', hello)
  BY <1>2, <1>3, <1>6, <1>8, <1>9, BoundsAssumption DEF LinesShaped
<1>12. OwnLines(lines', panel')
  <2> SUFFICES ASSUME NEW v \in Windows, panel'[v].port # None
               PROVE  lines'[panel'[v].port] # None /\ lines'[panel'[v].port].of = v
    BY DEF OwnLines
  <2>1. CASE v = w
    BY <1>6, <1>9, <1>10, <2>1
  <2>2. CASE v # w
    <3>1. panel'[v] = panel[v] /\ panel[v].port \in PanelPorts
      BY <1>2, <1>10, <2>2 DEF Panel
    <3>2. lines[panel[v].port] # None /\ lines[panel[v].port].of = v
      BY <1>2, <3>1 DEF OwnLines
    <3> QED BY <1>3, <1>9, <3>1, <3>2
  <2> QED BY <2>1, <2>2
<1> QED BY <1>1, <1>2, <1>9, <1>10, <1>11, <1>12 DEF LinesSound, LineSide

LEMMA LeavesSound ==
  ASSUME LinesSound, NEW w \in Windows, NEW next \in {NoPanel, Loading}, Leaves(w, next)
  PROVE  LinesSound'
<1>1. /\ panel[w].port # None /\ panel' = [panel EXCEPT ![w] = next]
      /\ lines' = [lines EXCEPT ![panel[w].port] = [Said(@, <<Closed>>) EXCEPT !.down = <<>>]]
      /\ hello' = hello
  BY DEF Leaves, registryState, portVars
<1>2. next \in Panel /\ next.port \in {None, panel[w].port}
  BY PanelKinds
<1>3. Closed \in PanelSpeaks /\ Closed.type # "panelHello"
  BY DEF Closed, PanelSpeaks
<1> QED BY <1>1, <1>2, <1>3, SpeaksKeeps

LEMMA EmbedSound ==
  ASSUME LinesSound, NEW w \in Windows,
         EmbedReadies(w) \/ EmbedReloads(w) \/ PanelDisconnect(w)
  PROVE  LinesSound'
<1>1. panel \in [Windows -> Panel]
  BY DEF LinesSound, LineSide
<1>2. ASSUME NEW m \in PanelSpeaks, m.type # "panelHello", NEW new \in Panel,
             new.port = panel[w].port, panel[w].port # None, panel' = [panel EXCEPT ![w] = new],
             PanelSays(w, m), UNCHANGED registryState
      PROVE  LinesSound'
  BY <1>2, SpeaksKeeps DEF PanelSays, registryState, portVars
<1>3. CASE EmbedReadies(w)
  <2> DEFINE m == [type |-> "embedReady", ready |-> TRUE]
             new == [panel[w] EXCEPT !.ready = TRUE]
  <2>1. m \in PanelSpeaks /\ m.type # "panelHello" /\ new \in Panel /\ new.port = panel[w].port
    BY <1>1 DEF PanelSpeaks, Panel
  <2>2. panel[w].port # None /\ panel' = [panel EXCEPT ![w] = new] /\ PanelSays(w, m)
        /\ UNCHANGED registryState
    BY <1>3 DEF EmbedReadies
  <2> HIDE DEF m, new
  <2> QED BY <1>2, <2>1, <2>2
<1>4. CASE EmbedReloads(w)
  <2> DEFINE m == [type |-> "embedReady", ready |-> FALSE]
             new == [panel[w] EXCEPT !.ready = FALSE, !.shown = None, !.button = FALSE]
  <2>1. m \in PanelSpeaks /\ m.type # "panelHello" /\ new \in Panel /\ new.port = panel[w].port
    BY <1>1 DEF PanelSpeaks, Panel
  <2>2. panel[w].port # None /\ PanelSays(w, m) /\ UNCHANGED registryState
    BY <1>4 DEF EmbedReloads
  <2>3. panel' = [panel EXCEPT ![w] = new]
    <3>1. panel' = [panel EXCEPT ![w].ready = FALSE, ![w].shown = None, ![w].button = FALSE]
      BY <1>4 DEF EmbedReloads
    <3> QED BY <1>1, <3>1
  <2> HIDE DEF m, new
  <2> QED BY <1>2, <2>1, <2>2, <2>3
<1>5. CASE PanelDisconnect(w)
  <2> DEFINE m == [type |-> "disconnect"]
  <2>1. m \in PanelSpeaks /\ m.type # "panelHello"
    BY DEF PanelSpeaks
  <2>2. panel[w].port # None /\ panel' = panel /\ PanelSays(w, m) /\ UNCHANGED registryState
    BY <1>5 DEF PanelDisconnect
  <2>3. panel' = [panel EXCEPT ![w] = panel[w]] /\ panel[w] \in Panel
    BY <1>1, <2>2
  <2> HIDE DEF m
  <2> QED BY <1>2, <2>1, <2>2, <2>3
<1> QED BY <1>3, <1>4, <1>5

-----------------------------------------------------------------------------
(* What the worker tells the panels.                                        *)
LEMMA ViewsFit ==
  ASSUME NEW m \in PanelIsTold, NEW known \in View \cup {None}
  PROVE  Shown(m, known) \in View \cup {None}
BY DEF Shown, View, PanelIsTold

LEMMA PanelHearsSound ==
  ASSUME LinesSound, NEW w \in Windows, PanelHears(w)
  PROVE  LinesSound'
<1> DEFINE q == panel[w].port
           x == lines[q]
           m == Head(x.down)
           y == [x EXCEPT !.down = Tail(x.down)]
<1>1. PICK shown \in {Shown(m, panel[w].shown)} \cup (IF panel[w].ready THEN {} ELSE {panel[w].shown}) :
        panel' = [panel EXCEPT ![w].shown = shown, ![w].button = ButtonAfter(m, @)]
  BY DEF PanelHears
<1>2. /\ q # None /\ x.down # <<>> /\ lines' = [lines EXCEPT ![q] = y] /\ hello' = hello
  BY DEF PanelHears, registryState, portVars
<1>3. /\ lines \in [PanelPorts -> LineWire \cup {None}] /\ panel \in [Windows -> Panel]
      /\ hello \in [PanelPorts -> Windows \cup {None}]
  BY DEF LinesSound, LineSide
<1>4. q \in PanelPorts /\ x \in LineWire /\ LineShape(x, hello[q]) /\ x # None
  BY <1>2, PanelSide
<1>5. m \in PanelIsTold /\ Tail(x.down) \in Seq(PanelIsTold)
  BY <1>2, <1>4, LineFacts, TailFacts
<1>6. shown \in View \cup {None}
  <2>1. panel[w].shown \in View \cup {None}
    BY <1>3 DEF Panel
  <2> QED BY <1>5, <2>1, ViewsFit
<1>7. ButtonAfter(m, panel[w].button) \in BOOLEAN
  BY <1>3 DEF ButtonAfter, Panel
<1>8. /\ panel' \in [Windows -> Panel] /\ \A v \in Windows : panel'[v].port = panel[v].port
  <2> DEFINE new == [panel[w] EXCEPT !.shown = shown, !.button = ButtonAfter(m, panel[w].button)]
  <2>1. new \in Panel /\ new.port = panel[w].port
    BY <1>3, <1>6, <1>7 DEF Panel
  <2>2. panel' = [panel EXCEPT ![w] = new]
    BY <1>1, <1>3
  <2> HIDE DEF new
  <2> QED BY <1>3, <2>1, <2>2
<1>9. y \in LineWire /\ y.of = x.of /\ y.live = x.live /\ y.up = x.up
  BY <1>4, <1>5 DEF LineWire
<1> HIDE DEF y
<1>10. Relined(x, hello[q], y)
  BY <1>4, <1>9, WiresAssumption DEF Relined, LineShape
<1>11. /\ lines' = [e \in PanelPorts |-> lines'[e]] /\ lines'[q] = y
       /\ \A e \in PanelPorts : e # q => lines'[e] = lines[e]
  BY <1>2, <1>3, <1>4
<1>12. \A e \in PanelPorts : lines[e] # None => Relined(lines[e], hello[e], lines'[e])
  BY <1>3, <1>10, <1>11 DEF Relined, LinesSound, LineSide, LinesShaped
<1>13. RelineStep(lines, panel, hello, lines', panel', hello)
  BY <1>4, <1>8, <1>11, <1>12 DEF RelineStep
<1>14. LineSide(lines', panel', hello)
  BY <1>3, <1>8, <1>11, <1>13, RelineKeeps DEF LinesSound
<1> QED BY <1>2, <1>14 DEF LinesSound

\* A panel is told of fields only.
ForPanel(r) == Reaches(r) => r.panel.window \in Windows /\ r.panel.msg \in PanelIsTold

LEMMA FieldsSpeakToPanels ==
  ASSUME Inv, NEW p \in FieldPorts, captured[p] # None, NEW m \in FieldSays,
         m.type \notin {"open", "closed"}
  PROVE  ForPanel(OnFieldMessage(p, m))
<1>1. captured[p].window \in Windows
  BY DEF Inv, TypeOK
<1>2. m \in PanelIsTold
  BY DEF FieldSays, PanelIsTold
<1>3. captured[p].window # None
  BY <1>1, SetsAssumption
<1> QED BY <1>1, <1>2, <1>3 DEF ForPanel, Reaches, OnFieldMessage, FieldConnected, TextChanged,
        HostRelay, Cleared, Nothing, Result, NoMessage, ToPanel

LEMMA PanelsLearnOfEnds ==
  ASSUME Inv, NEW w \in Windows, NEW t
  PROVE  ForPanel(FieldPortGone(w, t))
<1>1. windows[w].field # None => Disconnected(windows[w].field) \in PanelIsTold
  BY DEF Inv, TypeOK, FieldState, Disconnected, PanelIsTold
<1> QED BY <1>1 DEF ForPanel, Reaches, FieldPortGone, Cleared, Nothing, Result, NoMessage,
        ToPanel, Holds

LEMMA PanelsGetReady ==
  ASSUME Inv, NEW w \in Windows, NEW ready
  PROVE  ForPanel(PanelReady(w, ready))
<1>1. windows[w].field # None => Connected(windows[w].field) \in PanelIsTold
  BY DEF Inv, TypeOK, FieldState, Connected, PanelIsTold
<1> QED BY <1>1 DEF ForPanel, Reaches, PanelReady, Nothing, Result, NoMessage

LEMMA NothingForPanels == ForPanel(Nothing)
BY DEF ForPanel, Reaches, Nothing, Result, NoMessage

LEMMA PanelsAskForFields ==
  ASSUME Inv, NEW q \in PanelPorts, hello[q] # None, NEW m
  PROVE  ForPanel(OnPanelMessage(q, m))
<1>1. hello[q] \in Windows
  BY DEF Inv, TypeOK
<1>2. CASE ~PanelPortCurrent(q)
  BY <1>2, NothingForPanels DEF OnPanelMessage
<1>3. CASE PanelPortCurrent(q) /\ m.type = "embedReady"
  <2>1. OnPanelMessage(q, m) = PanelReady(hello[q], m.ready)
    BY <1>3 DEF OnPanelMessage
  <2> QED BY <1>1, <2>1, PanelsGetReady
<1>4. CASE PanelPortCurrent(q) /\ m.type = "disconnect"
  <2>1. OnPanelMessage(q, m) = DisconnectRequested(hello[q])
    BY <1>4 DEF OnPanelMessage
  <2> QED BY <2>1 DEF DisconnectRequested, ForPanel, Reaches, Nothing, Result, NoMessage
<1>5. CASE PanelPortCurrent(q) /\ m.type \notin {"embedReady", "disconnect"}
  <2>1. OnPanelMessage(q, m) = EmbedRelay(hello[q], m)
    BY <1>5 DEF OnPanelMessage
  <2> QED BY <2>1 DEF EmbedRelay, ForPanel, Reaches, Nothing, Result, NoMessage
<1> QED BY <1>2, <1>3, <1>4, <1>5

\* What the worker says to a panel arrives on its line behind the rest.
LEMMA LinesAfterFacts ==
  ASSUME Inv, LinesSound, NEW r, ForPanel(r), NEW h \in [PanelPorts -> Windows \cup {None}],
         \A q \in PanelPorts : hello[q] # None => h[q] = hello[q],
         NEW heard \in [PanelPorts -> LineWire \cup {None}],
         RelineStep(lines, panel, hello, heard, panel, h),
         lines' = LinesAfter(heard, r), panel' = panel, hello' = h
  PROVE  LinesSound'
<1> DEFINE w == r.panel.window
           q == panelPorts[w]
<1>1. LineSide(heard, panel, h)
  <2>1. panel \in [Windows -> Panel]
    BY DEF LinesSound, LineSide
  <2> QED BY <2>1, RelineKeeps DEF LinesSound
<1>2. CASE ~(Reaches(r) /\ panel[w].port = q)
  <2>1. lines' = heard
    BY <1>2 DEF LinesAfter
  <2> QED BY <1>1, <2>1 DEF LinesSound
<1>3. CASE Reaches(r) /\ panel[w].port = q
  <2> DEFINE x == heard[q]
             y == Onto(x, r.panel.msg)
  <2>1. /\ w \in Windows /\ r.panel.msg \in PanelIsTold /\ q # None
    BY <1>3 DEF ForPanel, Reaches
  <2>2. q \in PanelPorts /\ hello[q] # None
    BY <2>1, SetsAssumption DEF Inv, TypeOK, PanelsKnowTheirWindow
  <2>3. x # None /\ x \in LineWire /\ LineShape(x, h[q])
    BY <2>2, <1>1 DEF LineSide, LinesShaped
  <2>4. Relined(x, h[q], y)
    <3> DEFINE k == r.panel.msg
    <3>1. k \in PanelIsTold
      BY <2>1
    <3> HIDE DEF k, x
    <3>2. Relined(x, h[q], Onto(x, k))
      BY <2>3, <3>1, LineOnto
    <3> QED BY <3>2 DEF k, x
  <2>5. lines' = [heard EXCEPT ![q] = y]
    BY <1>3 DEF LinesAfter
  <2> HIDE DEF y
  <2>6. /\ lines' = [e \in PanelPorts |-> lines'[e]] /\ lines'[q] = y
        /\ \A e \in PanelPorts : e # q => lines'[e] = heard[e]
    BY <2>2, <2>5
  <2> HIDE DEF q
  <2>7. \A e \in PanelPorts : heard[e] # None => Relined(heard[e], h[e], lines'[e])
    <3> SUFFICES ASSUME NEW e \in PanelPorts, heard[e] # None
                 PROVE  Relined(heard[e], h[e], lines'[e])
      OBVIOUS
    <3>1. CASE e = q
      BY <2>4, <2>6, <3>1
    <3>2. CASE e # q
      BY <1>1, <2>6, <3>2 DEF Relined, LineSide, LinesShaped
    <3> QED BY <3>1, <3>2
  <2>8. RelineStep(heard, panel, h, lines', panel, h)
    BY <2>2, <2>3, <2>6, <2>7 DEF RelineStep
  <2>9. panel \in [Windows -> Panel]
    BY DEF LinesSound, LineSide
  <2>10. LineSide(lines', panel, h)
    BY <1>1, <2>6, <2>8, <2>9, RelineKeeps
  <2> QED BY <2>10 DEF LinesSound
<1> QED BY <1>2, <1>3

LEMMA SameLines ==
  ASSUME LinesSound
  PROVE  /\ RelineStep(lines, panel, hello, lines, panel, hello)
         /\ lines \in [PanelPorts -> LineWire \cup {None}] /\ panel \in [Windows -> Panel]
         /\ hello \in [PanelPorts -> Windows \cup {None}]
BY DEF LinesSound, LineSide, RelineStep, Relined, LinesShaped

LEMMA HearsFieldLines ==
  ASSUME Inv, FieldsSound, LinesSound, NEW p \in FieldPorts, WorkerHearsField(p)
  PROVE  LinesSound'
<1> DEFINE t == ports[p].of
           m == Head(ports[p].up)
           heard == [ports EXCEPT ![p] = Heard(ports[p], m)]
<1>1. /\ ports[p] # None /\ ports[p].up # <<>>
      /\ m.type = "open" => Answers(heard, lines, OnFieldPortOpens(t, m.window))
                            /\ panelPorts' = panelPorts /\ hello' = hello
      /\ m.type = "closed" => Answers(heard, lines, OnFieldPortCloses(p)) /\ hello' = hello
                              /\ captured[p] # None
      /\ m.type \notin {"open", "closed"} =>
           Answers(heard, lines, OnFieldMessage(p, m)) /\ hello' = hello
  BY DEF WorkerHearsField, FieldPortCloses, portVars
<1>2. ASSUME NEW r, Answers(heard, lines, r), hello' = hello, ForPanel(r) PROVE LinesSound'
  <2>1. lines' = LinesAfter(lines, r) /\ panel' = panel
    BY <1>2 DEF Answers
  <2> QED BY <1>2, <2>1, SameLines, LinesAfterFacts
<1>3. /\ m \in FieldSays /\ t \in Tabs
      /\ m.type = "open" <=> captured[p] = None
  BY <1>1, FirstWord
<1> HIDE DEF m, t, heard
<1>4. CASE m.type = "open"
  <2>1. ForPanel(OnFieldPortOpens(t, m.window))
    <3>1. CASE fieldPorts[t] = None
      BY <3>1, NothingForPanels DEF OnFieldPortOpens
    <3>2. CASE fieldPorts[t] # None
      <4> DEFINE o == fieldPorts[t]
      <4>1. o \in FieldPorts /\ captured[o].window \in Windows
        BY <1>3, <3>2 DEF Inv, TypeOK, PortsKnowTheirTab
      <4>2. OnFieldPortOpens(t, m.window) = FieldPortGone(captured[o].window, captured[o].tab)
        BY <3>2 DEF OnFieldPortOpens, Evicted
      <4> QED BY <4>1, <4>2, PanelsLearnOfEnds
    <3> QED BY <3>1, <3>2
  <2> QED BY <1>1, <1>2, <1>4, <2>1
<1>5. CASE m.type = "closed"
  <2>1. ForPanel(OnFieldPortCloses(p))
    <3>1. captured[p].window \in Windows
      BY <1>1, <1>5 DEF Inv, TypeOK
    <3> QED BY <3>1, PanelsLearnOfEnds, NothingForPanels DEF OnFieldPortCloses
  <2> QED BY <1>1, <1>2, <1>5, <2>1
<1>6. CASE m.type \notin {"open", "closed"}
  <2>1. ForPanel(OnFieldMessage(p, m))
    BY <1>3, <1>6, FieldsSpeakToPanels
  <2> QED BY <1>1, <1>2, <1>6, <2>1
<1> QED BY <1>4, <1>5, <1>6

\* The next word of a panel, and the lines once it is heard.
NextWord(q, m, h, heard) ==
  /\ m \in PanelSpeaks
  /\ m.type = "panelHello" <=> hello[q] = None
  /\ lines[q].of \in Windows
  /\ hello[q] # None => hello[q] = lines[q].of
  /\ heard \in [PanelPorts -> LineWire \cup {None}] /\ h \in [PanelPorts -> Windows \cup {None}]
  /\ \A e \in PanelPorts : hello[e] # None => h[e] = hello[e]
  /\ RelineStep(lines, panel, hello, heard, panel, h)
LEMMA PanelWord ==
  ASSUME LinesSound, NEW q \in PanelPorts, lines[q] # None, lines[q].up # <<>>,
         NEW m, m = Head(lines[q].up), NEW heard, heard = [lines EXCEPT ![q] = Heard(lines[q], m)],
         NEW h, h = IF hello[q] = None THEN [hello EXCEPT ![q] = lines[q].of] ELSE hello
  PROVE  NextWord(q, m, h, heard)
<1> DEFINE x == lines[q]
           y == Heard(x, m)
           g == IF hello[q] # None THEN hello[q] ELSE x.of
<1>1. /\ lines \in [PanelPorts -> LineWire \cup {None}] /\ panel \in [Windows -> Panel]
      /\ hello \in [PanelPorts -> Windows \cup {None}]
      /\ x \in LineWire /\ LineShape(x, hello[q]) /\ None \notin Windows
  BY SetsAssumption DEF LinesSound, LineSide, LinesShaped
<1>2. x.of \in Windows /\ (hello[q] # None => hello[q] = x.of)
  BY <1>1, LineFacts DEF LineShape
<1>3. /\ Relined(x, g, y) /\ m \in PanelSpeaks /\ y \in LineWire
      /\ m.type = "panelHello" <=> hello[q] = None
  <2> DEFINE k == hello[q]
  <2>1. g = IF k # None THEN k ELSE x.of
    OBVIOUS
  <2>2. m = Head(x.up) /\ x.up # <<>> /\ LineShape(x, k) /\ x \in LineWire
    BY <1>1
  <2> HIDE DEF g, k, x
  <2>3. /\ Relined(x, g, Heard(x, m)) /\ m \in PanelSpeaks /\ Heard(x, m) \in LineWire
        /\ m.type = "panelHello" <=> k = None
    BY <1>1, <2>1, <2>2, LineHeard
  <2> QED BY <2>3 DEF g, k, x
<1>4. /\ h \in [PanelPorts -> Windows \cup {None}] /\ h[q] = g
      /\ \A e \in PanelPorts : e # q => h[e] = hello[e]
  BY <1>1, <1>2
<1>5. /\ heard \in [PanelPorts -> LineWire \cup {None}] /\ heard[q] = y
      /\ \A e \in PanelPorts : e # q => heard[e] = lines[e]
  BY <1>1, <1>3
<1> HIDE DEF y, g
<1>6. \A e \in PanelPorts : lines[e] # None => Relined(lines[e], h[e], heard[e])
  <2> SUFFICES ASSUME NEW e \in PanelPorts, lines[e] # None
               PROVE  Relined(lines[e], h[e], heard[e])
    OBVIOUS
  <2>1. CASE e = q
    BY <1>3, <1>4, <1>5, <2>1
  <2>2. CASE e # q
    BY <1>1, <1>4, <1>5, <2>2 DEF Relined, LinesSound, LineSide, LinesShaped
  <2> QED BY <2>1, <2>2
<1>7. RelineStep(lines, panel, hello, heard, panel, h)
  BY <1>4, <1>5, <1>6 DEF RelineStep
<1>8. \A e \in PanelPorts : hello[e] # None => h[e] = hello[e]
  OBVIOUS
<1> QED BY <1>2, <1>3, <1>4, <1>5, <1>7, <1>8 DEF NextWord

LEMMA HearsPanelLines ==
  ASSUME Inv, LinesSound, NEW q \in PanelPorts, WorkerHearsPanel(q)
  PROVE  LinesSound'
<1> DEFINE w == lines[q].of
           m == Head(lines[q].up)
           heard == [lines EXCEPT ![q] = Heard(lines[q], m)]
           h == IF hello[q] = None THEN [hello EXCEPT ![q] = lines[q].of] ELSE hello
<1>1. /\ lines[q] # None /\ lines[q].up # <<>>
      /\ m.type = "panelHello" =>
           Answers(ports, heard, Nothing) /\ hello' = [hello EXCEPT ![q] = w]
      /\ m.type = "closed" => Answers(ports, heard, Nothing) /\ hello' = hello
      /\ m.type \notin {"panelHello", "closed"} =>
           Answers(ports, heard, OnPanelMessage(q, m)) /\ hello' = hello
  BY DEF WorkerHearsPanel, PanelHello, PanelPortCloses, PanelPortSays, registryState, portVars
<1>2. NextWord(q, m, h, heard)
  <2> HIDE DEF m, heard, h
  <2> QED BY <1>1, PanelWord DEF m, heard, h
<1>3. hello' = h
  BY <1>1, <1>2 DEF NextWord
<1>4. ASSUME NEW r, Answers(ports, heard, r), ForPanel(r) PROVE LinesSound'
  <2>1. lines' = LinesAfter(heard, r) /\ panel' = panel
    BY <1>4 DEF Answers
  <2> HIDE DEF heard, h
  <2> QED BY <1>2, <1>3, <1>4, <2>1, LinesAfterFacts DEF NextWord
<1> HIDE DEF m, heard, h
<1>5. CASE m.type \in {"panelHello", "closed"}
  BY <1>1, <1>4, <1>5, NothingForPanels
<1>6. CASE m.type \notin {"panelHello", "closed"}
  <2>1. ForPanel(OnPanelMessage(q, m))
    BY <1>2, <1>6, PanelsAskForFields DEF NextWord
  <2> QED BY <1>1, <1>4, <1>6, <2>1
<1> QED BY <1>5, <1>6

LEMMA DownLines ==
  ASSUME LinesSound, WorkerDown
  PROVE  LinesSound'
<1> DEFINE Dead(x) == [x EXCEPT !.live = FALSE, !.up = <<>>]
<1>1. /\ lines' = [q \in PanelPorts |-> IF lines[q] = None THEN None ELSE Dead(lines[q])]
      /\ panel' = panel /\ hello' = hello
  BY DEF WorkerDown, WorkerDies
<1>2. /\ lines \in [PanelPorts -> LineWire \cup {None}] /\ panel \in [Windows -> Panel]
      /\ hello \in [PanelPorts -> Windows \cup {None}] /\ LinesShaped(lines, hello)
  BY DEF LinesSound, LineSide
<1>3. ASSUME NEW q \in PanelPorts, lines[q] # None
      PROVE  Relined(lines[q], hello[q], Dead(lines[q]))
  <2> DEFINE y == Dead(lines[q])
  <2>1. lines[q] \in LineWire /\ LineShape(lines[q], hello[q])
    BY <1>2, <1>3 DEF LinesShaped
  <2>2. y \in LineWire /\ y.of = lines[q].of /\ y.live = FALSE /\ y.up = <<>>
    BY <2>1, EmptySeq DEF LineWire
  <2> HIDE DEF y
  <2>3. Idx(y.up) = {}
    BY <2>2, EmptySeq DEF Idx
  <2>4. Relined(lines[q], hello[q], y)
    BY <2>1, <2>2, <2>3, WiresAssumption DEF Relined, LineShape
  <2> QED BY <2>4 DEF y
<1> HIDE DEF Dead
<1>4. /\ lines' = [q \in PanelPorts |-> lines'[q]]
      /\ RelineStep(lines, panel, hello, lines', panel, hello)
  BY <1>1, <1>3 DEF RelineStep
<1>5. LineSide(lines', panel, hello)
  BY <1>2, <1>4, RelineKeeps DEF LinesSound
<1> QED BY <1>1, <1>5 DEF LinesSound

LEMMA LinesStep ==
  ASSUME Inv, ClientTypeOK, FieldsSound, LinesSound, ExtensionNext
  PROVE  LinesSound'
<1>0. server \in Servers
  BY DEF ClientTypeOK
<1>1. CASE ChangeServer \/ WorkerServer \/ \E t \in Tabs : TabNext(t)
  <2>1. UNCHANGED <<lines, panel, hello>>
    BY <1>1 DEF ChangeServer, WorkerServer, ServerUrlChanged, TabNext, Connect, Hover, Stop,
       StopSession, Type, Vanish, Reacquire, GiveUp, Navigate, Drag, ScoutHears, ScoutPortGone,
       ScoutServer, registryState, portVars
  <2> QED BY <2>1 DEF LinesSound
<1>2. ASSUME NEW w \in Windows, PanelNext(w) PROVE LinesSound'
  <2>1. CASE PanelCloses(w) \/ PanelServer(w) \/ PanelPortGone(w)
    BY <2>1, LeavesSound DEF PanelCloses, PanelServer, PanelPortGone
  <2> QED BY <1>0, <1>2, <2>1, OpensSound, LoadsSound, EmbedSound, PanelHearsSound DEF PanelNext
<1>3. CASE WorkerNext
  BY <1>1, <1>3, HearsFieldLines, HearsPanelLines, DownLines DEF WorkerNext
<1> QED BY <1>1, <1>2, <1>3 DEF ExtensionNext

-----------------------------------------------------------------------------
(* Types, and how often the server may have changed.                        *)
Counted == faults \in 0..MaxFaults /\ server \in 0..faults

LEMMA CountedStep ==
  ASSUME Counted, ExtensionNext
  PROVE  Counted'
<1>1. MaxFaults \in Nat
  BY BoundsAssumption
<1>2. CASE ChangeServer
  BY <1>1, <1>2 DEF ChangeServer, Failing, Counted
<1>3. CASE WorkerNext
  <2>1. server' = server /\ (faults' = faults \/ (faults < MaxFaults /\ faults' = faults + 1))
    BY <1>3 DEF WorkerNext, WorkerHearsField, WorkerHearsPanel, WorkerServer, WorkerDown, Answers,
       Running, Failing
  <2> QED BY <1>1, <2>1 DEF Counted
<1>4. ASSUME NEW t \in Tabs, TabNext(t) PROVE Counted'
  <2>1. server' = server /\ faults' = faults
    BY <1>4 DEF TabNext, Connect, Hover, Stop, Type, Vanish, Reacquire, GiveUp, Navigate, Drag,
       ScoutHears, ScoutPortGone, ScoutServer, Moving, Acting, Running
  <2> QED BY <2>1 DEF Counted
<1>5. ASSUME NEW w \in Windows, PanelNext(w) PROVE Counted'
  <2>1. server' = server /\ (faults' = faults \/ (faults < MaxFaults /\ faults' = faults + 1))
    BY <1>5 DEF PanelNext, PanelOpens, PanelLoads, PanelCloses, PanelServer, PanelPortGone,
       Leaves, EmbedReadies, EmbedReloads, PanelHears, PanelDisconnect, Moving, Acting, Running,
       Failing
  <2> QED BY <1>1, <2>1 DEF Counted
<1> QED BY <1>2, <1>3, <1>4, <1>5 DEF ExtensionNext

LEMMA WhereStep ==
  ASSUME ClientTypeOK, ExtensionNext
  PROVE  /\ location' \in [Tabs -> Windows]
         /\ unheard' \subseteq {Worker} \cup Tabs \cup Windows
<1>1. location \in [Tabs -> Windows] /\ unheard \subseteq {Worker} \cup Tabs \cup Windows
  BY DEF ClientTypeOK
<1>2. CASE ChangeServer
  BY <1>1, <1>2 DEF ChangeServer
<1>3. CASE WorkerNext
  BY <1>1, <1>3 DEF WorkerNext, WorkerHearsField, WorkerHearsPanel, WorkerServer, WorkerDown,
     Answers
<1>4. ASSUME NEW t \in Tabs, TabNext(t)
      PROVE  /\ location' \in [Tabs -> Windows]
             /\ unheard' \subseteq {Worker} \cup Tabs \cup Windows
  <2>1. CASE Drag(t)
    BY <1>1, <2>1 DEF Drag
  <2> QED BY <1>1, <1>4, <2>1 DEF TabNext, Connect, Hover, Stop, Type, Vanish, Reacquire, GiveUp,
       Navigate, ScoutHears, ScoutPortGone, ScoutServer
<1>5. ASSUME NEW w \in Windows, PanelNext(w)
      PROVE  /\ location' \in [Tabs -> Windows]
             /\ unheard' \subseteq {Worker} \cup Tabs \cup Windows
  BY <1>1, <1>5 DEF PanelNext, PanelOpens, PanelLoads, PanelCloses, PanelServer, PanelPortGone,
     Leaves, EmbedReadies, EmbedReloads, PanelHears, PanelDisconnect
<1> QED BY <1>2, <1>3, <1>4, <1>5 DEF ExtensionNext

LEMMA TypesStep ==
  ASSUME Inv, ClientTypeOK, Counted, FieldsSound, LinesSound, ExtensionNext
  PROVE  ClientTypeOK'
<1>1. Counted' /\ FieldsSound' /\ LinesSound'
  BY CountedStep, FieldsStep, LinesStep
<1>2. server' \in Servers
  BY <1>1, BoundsAssumption DEF Counted, Servers
<1>3. /\ scout' \in [Tabs -> Scout] /\ ports' \in [FieldPorts -> PortWire \cup {None}]
      /\ consent' \in [Fields -> Servers \cup {None}] /\ dropped' \subseteq Fields
  BY <1>1 DEF FieldsSound, FieldSide, Typed
<1>4. panel' \in [Windows -> Panel] /\ lines' \in [PanelPorts -> LineWire \cup {None}]
  BY <1>1 DEF LinesSound, LineSide
<1> QED BY <1>2, <1>3, <1>4, WhereStep DEF ClientTypeOK

-----------------------------------------------------------------------------
(* Every step of the extension is one of the registry, or none.             *)
LEMMA FieldEvents ==
  ASSUME Inv, FieldsSound, NEW p \in FieldPorts, WorkerHearsField(p)
  PROVE  Next
<1> DEFINE t == ports[p].of
           m == Head(ports[p].up)
<1>1. /\ ports[p] # None /\ ports[p].up # <<>>
      /\ m.type = "open" =>
           /\ Execute(OnFieldPortOpens(t, m.window))
           /\ captured' = [captured EXCEPT ![p] = [tab |-> t, window |-> m.window]]
           /\ fieldPorts' = [fieldPorts EXCEPT ![t] = p]
           /\ UNCHANGED <<panelPorts, hello>>
      /\ m.type = "closed" => FieldPortCloses(p)
      /\ m.type \notin {"open", "closed"} =>
           Execute(OnFieldMessage(p, m)) /\ UNCHANGED portVars
  BY DEF WorkerHearsField
<1>2. /\ m \in FieldSays /\ t \in Tabs /\ m = ports[p].up[1] /\ 1 \in 1..Len(ports[p].up)
      /\ m.type = "open" <=> captured[p] = None
      /\ captured[p] # None => captured[p].tab = t /\ captured[p].window \in Windows
  BY <1>1, FirstWord
<1> HIDE DEF m, t
<1>3. CASE m.type = "open"
  <2>1. m.window \in Windows
    BY <1>2, <1>3, SaysFacts
  <2>2. FieldPortOpens(p, t, m.window)
    BY <1>1, <1>2, <1>3 DEF FieldPortOpens
  <2> QED BY <1>2, <2>1, <2>2 DEF Next
<1>4. CASE m.type = "closed"
  BY <1>1, <1>4 DEF Next
<1>5. CASE m.type \notin {"open", "closed"}
  <2>1. m \in FieldMessages /\ captured[p] # None
    BY <1>2, <1>5 DEF FieldSays, FieldMessages
  <2>2. Speaks(p, m)
    <3> SUFFICES ASSUME m.type \in {"textChanged", "fieldDisconnected"}, FieldPortCurrent(p),
                        Holds(captured[p].window, captured[p].tab)
                 PROVE  windows[captured[p].window].field.id = m.id
      BY DEF Speaks
    <3>1. /\ Now(windows, captured, fieldPorts, p) = windows[captured[p].window].field.id
          /\ Now(windows, captured, fieldPorts, p) # None
      <4>1. windows[captured[p].window].field \in FieldState
        BY <1>2, <2>1 DEF Inv, TypeOK, Holds
      <4> QED BY <4>1, SetsAssumption DEF Now, HoldsIn, FieldPortCurrent, Holds, FieldState
    <3>2. Speech(ports[p].up, Now(windows, captured, fieldPorts, p))
      BY <1>1 DEF FieldsSound, FieldSide, Spoken
    <3>3. Tells(m) /\ ~\E k \in 1..(1 - 1) : Connects(ports[p].up[k])
      BY DEF Tells
    <3> QED BY <1>2, <3>1, <3>2, <3>3 DEF Speech, Idx
  <2>3. FieldPortSays(p, m)
    BY <1>1, <1>5, <2>1, <2>2 DEF FieldPortSays
  <2> QED BY <2>1, <2>3 DEF Next
<1> QED BY <1>3, <1>4, <1>5

LEMMA PanelEvents ==
  ASSUME LinesSound, NEW q \in PanelPorts, WorkerHearsPanel(q)
  PROVE  Next \/ UNCHANGED registryState
<1> DEFINE w == lines[q].of
           m == Head(lines[q].up)
           heard == [lines EXCEPT ![q] = Heard(lines[q], m)]
           h == IF hello[q] = None THEN [hello EXCEPT ![q] = lines[q].of] ELSE hello
<1>1. /\ lines[q] # None /\ lines[q].up # <<>>
      /\ m.type = "panelHello" => PanelHello(q, w)
      /\ m.type = "closed" =>
           IF PanelPortCurrent(q) THEN PanelPortCloses(q) ELSE UNCHANGED registryState
      /\ m.type \notin {"panelHello", "closed"} => PanelPortSays(q, m)
  BY DEF WorkerHearsPanel
<1>2. NextWord(q, m, h, heard)
  <2> HIDE DEF m, heard, h
  <2> QED BY <1>1, PanelWord DEF m, heard, h
<1>3. m \in PanelSpeaks /\ w \in Windows
  BY <1>2 DEF NextWord
<1> HIDE DEF m, w
<1>4. CASE m.type = "panelHello"
  BY <1>1, <1>3, <1>4 DEF Next
<1>5. CASE m.type = "closed"
  BY <1>1, <1>5 DEF Next
<1>6. CASE m.type \notin {"panelHello", "closed"}
  <2>1. m \in PanelMessages
    BY <1>3, <1>6 DEF PanelSpeaks, PanelMessages
  <2> QED BY <1>1, <1>6, <2>1 DEF Next
<1> QED BY <1>4, <1>5, <1>6

LEMMA RegistryStep ==
  ASSUME Inv, FieldsSound, LinesSound, ExtensionNext
  PROVE  [Next]_registryState
<1>1. CASE WorkerNext
  <2>1. CASE WorkerServer \/ WorkerDown
    BY <2>1 DEF WorkerServer, WorkerDown, Next
  <2> QED BY <1>1, <2>1, FieldEvents, PanelEvents DEF WorkerNext
<1>2. CASE ~WorkerNext
  <2>1. UNCHANGED registryState
    BY <1>2 DEF ExtensionNext, ChangeServer, TabNext, Connect, Hover, Stop, Type, Vanish,
       Reacquire, GiveUp, Navigate, Drag, ScoutHears, ScoutPortGone, ScoutServer, PanelNext,
       PanelOpens, PanelLoads, PanelCloses, PanelServer, PanelPortGone, Leaves, EmbedReadies,
       EmbedReloads, PanelHears, PanelDisconnect
  <2> QED BY <2>1
<1> QED BY <1>1, <1>2

EInv == Inv /\ ClientTypeOK /\ Counted /\ FieldsSound /\ LinesSound

LEMMA EInvInit == ExtensionInit => EInv
<1> SUFFICES ASSUME ExtensionInit PROVE EInv
  OBVIOUS
<1>1. Inv
  BY InitInv DEF ExtensionInit
<1>2. /\ scout = [t \in Tabs |-> NoScout] /\ ports = [p \in FieldPorts |-> None]
      /\ panel = [w \in Windows |-> NoPanel] /\ lines = [q \in PanelPorts |-> None]
      /\ consent = [f \in Fields |-> None] /\ dropped = {} /\ server = 0 /\ faults = 0
      /\ location \in [Tabs -> Windows] /\ unheard = {}
      /\ windows = [w \in Windows |-> Window(None, FALSE)]
      /\ captured = [p \in FieldPorts |-> None] /\ fieldPorts = [t \in Tabs |-> None]
      /\ hello = [q \in PanelPorts |-> None]
  BY DEF ExtensionInit, Init
<1>3. 0 \in Servers /\ 0 \in Texts /\ MaxFaults \in Nat
  BY BoundsAssumption DEF Servers
<1>4. NoScout \in Scout /\ NoScout.port = None /\ NoScout.session = None
  BY <1>3 DEF NoScout, Scout
<1>5. NoPanel \in Panel /\ NoPanel.port = None
  BY PanelKinds
<1>6. Typed(ports, scout, windows, captured, fieldPorts, consent, dropped)
  BY <1>2, <1>4 DEF Typed, Window, WindowStates
<1>7. FieldsSound
  <2>1. /\ \A p \in FieldPorts : ports[p] = None /\ captured[p] = None
        /\ \A t \in Tabs : scout[t].port = None /\ scout[t].session = None /\ fieldPorts[t] = None
        /\ \A w \in Windows : windows[w].field = None
    BY <1>2, <1>4 DEF Window
  <2> QED BY <1>6, <2>1 DEF FieldsSound, FieldSide, PortsShaped, PortsInOrder, Registered,
       OwnPorts, OwnPort, Housed, Spoken, Sessions, Typings, AllFollowed, Names, OneWindow,
       OneGreeting, Farewells, Detached, Consented
<1>8. LinesSound
  BY <1>2, <1>5 DEF LinesSound, LineSide, LinesShaped, OwnLines
<1>9. ClientTypeOK /\ Counted
  BY <1>2, <1>3, <1>4, <1>5 DEF ClientTypeOK, Counted
<1> QED BY <1>1, <1>7, <1>8, <1>9 DEF EInv

LEMMA EInvStep == EInv /\ [ExtensionNext]_allVars => EInv' /\ [Next]_registryState
<1> SUFFICES ASSUME EInv, [ExtensionNext]_allVars PROVE EInv' /\ [Next]_registryState
  OBVIOUS
<1> USE DEF EInv
<1>1. CASE ExtensionNext
  <2>1. [Next]_registryState
    BY <1>1, RegistryStep
  <2>2. Inv'
    BY <2>1, StepInv
  <2> QED BY <1>1, <2>1, <2>2, FieldsStep, LinesStep, CountedStep, TypesStep
<1>2. CASE UNCHANGED allVars
  <2>1. /\ UNCHANGED registryState
        /\ UNCHANGED <<location, scout, ports, panel, lines, server, unheard, consent, dropped, faults>>
    BY <1>2 DEF allVars, clientVars
  <2>2. UNCHANGED <<windows, captured, fieldPorts, hello>> /\ [Next]_registryState
    BY <2>1 DEF registryState, registryVars, portVars
  <2>3. Inv'
    BY <2>2, StepInv
  <2> QED BY <2>1, <2>2, <2>3 DEF ClientTypeOK, Counted, FieldsSound, LinesSound
<1> QED BY <1>1, <1>2

LEMMA EInvHolds == ExtensionSpec => []EInv
BY EInvInit, EInvStep, PTL DEF ExtensionSpec

-----------------------------------------------------------------------------
(* When all is said.                                                        *)
LEMMA QuietSessions == EInv => SessionsAgree
<1> SUFFICES ASSUME EInv, Quiet, NEW t \in Tabs
             PROVE  /\ scout[t].session # None =>
                         \E w \in Windows : Holds(w, t) /\ windows[w].field.id = scout[t].session
                    /\ \A w \in Windows : Holds(w, t) /\ windows[w].field.id \notin dropped =>
                         windows[w].field.id = scout[t].session
  BY DEF SessionsAgree
<1>1. /\ Parts(ports, scout, windows, captured, fieldPorts)
      /\ Roles(ports, scout, windows, captured, fieldPorts)
  BY TypedFacts, SideFacts DEF EInv, FieldsSound, FieldSide
<1>2. ASSUME NEW p \in FieldPorts, ports[p] # None
      PROVE  /\ Idx(ports[p].up) = {} /\ Detaches(ports[p]) = {}
             /\ ports[p].live \/ scout[ports[p].of].port # p
  <2>1. /\ ports[p].up = <<>> /\ ports[p].down = <<>>
        /\ ports[p].live \/ scout[ports[p].of].port # p
    BY <1>2 DEF Quiet
  <2> QED BY <2>1, EmptySeq DEF Idx, Detaches
<1>3. ASSUME scout[t].session # None
      PROVE  \E w \in Windows : Holds(w, t) /\ windows[w].field.id = scout[t].session
  <2> DEFINE p == scout[t].port
  <2>1. p \in FieldPorts /\ ports[p] # None /\ ports[p].of = t
    BY <1>1, <1>3 DEF Roles
  <2>2. ports[p].live /\ Idx(ports[p].up) = {} /\ Detaches(ports[p]) = {}
    BY <1>2, <2>1
  <2>3. Session(ports[p].up, Detaches(ports[p]), Now(windows, captured, fieldPorts, p),
                scout[t].session)
    BY <1>3, <2>2 DEF EInv, FieldsSound, FieldSide, Sessions
  <2>4. Now(windows, captured, fieldPorts, p) = scout[t].session
    BY <2>2, <2>3 DEF Session
  <2>5. /\ captured[p] # None /\ HoldsIn(windows, captured[p].window, captured[p].tab)
        /\ windows[captured[p].window].field.id = scout[t].session
    BY <1>1, <1>3, <2>1, <2>4 DEF Roles
  <2>6. captured[p].tab = t /\ captured[p].window \in Windows
    BY <1>1, <2>1, <2>5 DEF Roles, Parts
  <2> QED BY <2>5, <2>6 DEF HoldsIn, Holds
<1>4. ASSUME NEW w \in Windows, Holds(w, t), windows[w].field.id \notin dropped
      PROVE  windows[w].field.id = scout[t].session
  <2> DEFINE p == fieldPorts[t]
  <2>1. windows[w].field # None /\ windows[w].field.tab = t
    BY <1>4 DEF Holds
  <2>2. p \in FieldPorts /\ ports[p] # None
    BY <1>1, <2>1 DEF Roles
  <2>3. Idx(ports[p].up) = {}
    BY <1>2, <2>2
  <2>4. Followed(ports[p].up, scout[t], dropped, p, 0, windows[w].field.id)
    BY <2>1 DEF EInv, FieldsSound, FieldSide, AllFollowed
  <2> QED BY <1>4, <2>3, <2>4 DEF Followed
<1> QED BY <1>3, <1>4

(* Type correctness of scripts, panels and everything under way.            *)
THEOREM ClientTypes == ExtensionSpec => []ClientTypeOK
BY EInvHolds, PTL DEF EInv

(* Whatever scripts and panels send, and whenever the worker dies, it makes *)
(* the steps of FieldRegistry and no other: the assumptions made there of   *)
(* what ports say and when are kept by those that say it.                   *)
THEOREM RegistryImplemented == ExtensionSpec => ImplementsRegistry
<1>1. ExtensionInit => Init
  BY DEF ExtensionInit
<1>2. EInv /\ [ExtensionNext]_allVars => [Next]_registryState
  BY EInvStep
<1> QED BY <1>1, <1>2, EInvHolds, PTL DEF ExtensionSpec, ImplementsRegistry, Spec

(* So a tab that moved leaves no ghost behind in this world either, and an  *)
(* embed was told of the field and the text the worker has.                 *)
THEOREM RegistryKept == ExtensionSpec => [](FieldHasItsPort /\ PanelMatchesRegistry /\ BadgeMeansField)
BY EInvHolds, PTL DEF EInv, Inv

(* When all is said, script and worker agree which field is connected,      *)
(* whatever was replaced, detached, moved, lost or restarted on the way.    *)
THEOREM SessionsAgreed == ExtensionSpec => []SessionsAgree
BY EInvHolds, QuietSessions, PTL
=============================================================================
