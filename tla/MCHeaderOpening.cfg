SPECIFICATION HeaderSpec
CONSTANTS
  a = a
  b = b
  d1 = d1
  d2 = d2
  d3 = d3
  e1 = e1
  g1 = g1
  g2 = g2
  n1 = n1
  en = en
  de = de
  x = x
  y = y
  fast = fast
  best = best
  all = all
  few = few
  None = None
  People <- MCPeople
  Managers <- MCManagers
  DocIds <- MCDocIds
  Profs <- MCProfs
  Langs <- MCLangs
  Doms <- MCDoms
  Llms <- MCLlms
  Rules <- MCRules
  Default <- MCDefault
  HeaderScenes <- MCOpening
PROPERTIES OpeningKeepsSettings
CHECK_DEADLOCK FALSE
