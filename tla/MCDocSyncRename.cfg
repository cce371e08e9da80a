SPECIFICATION Spec
CONSTANTS
  u1 = u1
  u2 = u2
  e1 = e1
  e2 = e2
  Users = {u1, u2}
  Nobody = Nobody
  Edits = {e1, e2}
  TextEdits = {e1, e2}
  Docs <- ThreeDocs
  MaxFaults = 2
  Scenes <- RenamingAbroad
SYMMETRY MCSymmetry
PROPERTY ImplementsHistory
CHECK_DEADLOCK FALSE
