SPECIFICATION MCSpec
CONSTANTS
  o1 = o1
  o2 = o2
  o3 = o3
  d1 = d1
  d2 = d2
  Owners = {o1, o2, o3}
  NoOwner = NoOwner
  Readers = {d1, d2}
  MaxJobs = 1
  MaxPerOwner = 1
  MaxCreates = 3
  MaxProgress = 1
  LlmJobs = {1, 2}
  Watched = {1}
  r1 = r1
  r2 = r2
  r3 = r3
  ann = ann
  bob = bob
  free = free
  admin = admin
  Unreported = Unreported
  Runs = {r1, r2}
  Callers = {ann}
  Tiers = {free, admin}
  UserCap <- MCUserCap
  ServerCap = 2
  Windows = {"hour", "day"}
  Length <- MCLength
  Budget <- MCBudget
  Estimate = 1
  Costs = {3}
  MaxAge = 1
  MaxTime = 2
  Nobody = Nobody
  Providers = {"ollama", "claude", "qwen"}
  Known = {"ollama", "claude"}
  Models = {"m1", "m2"}
  Languages = {"en"}
  Plans <- MCPlans
  AdminChars = 3
  DefaultProvider = "ollama"
  DefaultModel <- MCDefaultModel
  Routing <- MCRouting
  Unset = Unset
  Overlap = TRUE
INVARIANTS ReadersAreServed
PROPERTIES StreamsEnd SlotsAreReleased
CONSTRAINT OwnersInOrder
CHECK_DEADLOCK FALSE
