CONSTANTS
  Windows = {w1, w2}
  Tabs = {t1, t2}
  FieldPorts = {1, 2, 3}
  PanelPorts = {1, 2}
  Fields = {1, 2}
  Texts = {0, 1}
  None = None
  MaxMoves = 3
  MaxFaults = 1
  Acts = {"type", "stop", "vanish", "navigate", "drag", "reload", "server", "die", "disconnect"}
SPECIFICATION ExtensionSpec
SYMMETRY Symmetry
INVARIANT SessionsAgree
INVARIANT EmbedAgrees
PROPERTY ImplementsRegistry
CHECK_DEADLOCK FALSE
