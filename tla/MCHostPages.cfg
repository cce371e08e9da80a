SPECIFICATION MCSpec
CONSTANTS
  Fields = {"plain", "rich"}
  Rich = {"rich"}
  Users = {"u1", "u2"}
  None = None
  Typed <- MCTyped
  Inserts <- MCInserts
  Originals <- MCOriginals
  Flagged = "x"
  MaxLen = 4
  MaxRequests = 2
  Loads <- MCLoads
  f1 = f1
  f2 = f2
  f3 = f3
  f4 = f4
  g1 = g1
  g2 = g2
  d = d
  e = e
  i = i
  body = body
  note = note
  A = A
  B = B
  C = C
  One = One
  Colon = Colon
  Bare = Bare
  Null = Null
  Nodes <- MCNodes
  Look <- MCLook
  Forms <- MCForms
  Title <- MCTitle
  Places <- MCPlaces
  Coloned <- MCColoned
  Scenes <- MCScenes
  MaxTurns = 4
INVARIANTS InStep PanelIsOwn AnswersAreTrue FindsTheReplacement
PROPERTIES OnlyWhatWasShown HandsOverWithin
CHECK_DEADLOCK FALSE
