SPECIFICATION MCSpec
CONSTANTS
  Users = {"u1", "u2", "admin"}
  Admins = {"admin"}
  Nobody = Nobody
  Ids = {1, 2, 3, 4, 5, 6, 7, 8, 9}
  Kind <- MCKind
  Docs = {1, 2}
  Names = {"a", "b"}
  Standard = "Standard"
  Example = "Example"
  ProductDocs = "ProductDocs"
  Reqs = {"r1", "r2", "r3", "r4"}
  Loads <- MCLoads
  a = a
  b = b
  d1 = d1
  d2 = d2
  d3 = d3
  e1 = e1
  g1 = g1
  g2 = g2
  n1 = n1
  en = en
  de = de
  x = x
  y = y
  fast = fast
  best = best
  all = all
  few = few
  None = None
  People <- MCPeople
  Managers <- MCManagers
  DocIds <- MCDocIds
  Profs <- MCProfs
  Langs <- MCLangs
  Doms <- MCDoms
  Llms <- MCLlms
  Rules <- MCRules
  Default <- MCDefault
  HeaderScenes <- MCHeaderScenes
  globe = globe
  owned = owned
  later = later
  t1 = t1
  t2 = t2
  t3 = t3
  one = one
  two = two
  both = both
  Makers <- MCMakers
  Domains <- MCDomains
  Terms <- MCTerms
  Labels <- MCLabels
  Words <- MCWords
  Parts <- MCParts
  Drafts <- MCDrafts
  TermsScenes <- MCTermsScenes
INVARIANTS SeededOnce SweepsAreWhole ProfilesFit ChoicesLand RowsFit PageIsCurrent
PROPERTIES EditsAreKept PrefsAreKept OpenedStays
CHECK_DEADLOCK FALSE
