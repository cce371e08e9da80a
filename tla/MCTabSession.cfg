SPECIFICATION MCSpec
CONSTANTS
  t1 = t1
  t2 = t2
  ada = ada
  bea = bea
  Tabs = {t1, t2}
  Users = {ada, bea}
  None = None
  MaxSessions = 2
  MaxRotations = 1
  Loads <- MCLoads
  Stop = "."
  Absent = Absent
  Rules <- MCRules
  Domains <- MCDomains
  Dictionary = {"use", "utilize", "very", "often", "USE", "Use"}
  Alike <- MCAlike
  Writers = {"u1", "u2"}
  MaxLen = 7
  Pastes <- MCPastes
  Proposals <- MCProposals
  Raws <- MCRaws
  Scenes <- MCSuggestScenes
INVARIANTS SessionHolds NoForeignSuggestions AcceptedIsClean
PROPERTIES EndsForItsOwn CachesSurviveChecks
SYMMETRY Symmetry
CHECK_DEADLOCK FALSE
