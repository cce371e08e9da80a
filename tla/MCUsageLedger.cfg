SPECIFICATION Spec
CONSTANTS
  r1 = r1
  r2 = r2
  r3 = r3
  ann = ann
  bob = bob
  free = free
  admin = admin
  Unreported = Unreported
  Runs = {r1, r2, r3}
  Callers = {ann, bob}
  Tiers = {free, admin}
  UserCap <- MCUserCap
  ServerCap = 2
  Windows = {"hour", "day"}
  Length <- MCLength
  Budget <- MCBudget
  Estimate = 1
  Costs = {3}
  MaxAge = 1
  MaxTime = 2
  Nobody = Nobody
  Providers = {"ollama", "claude", "qwen"}
  Known = {"ollama", "claude"}
  Models = {"m1", "m2"}
  Languages = {"en"}
  Plans <- MCPlans
  AdminChars = 3
  DefaultProvider = "ollama"
  DefaultModel <- MCDefaultModel
  Routing <- MCRouting
  Unset = Unset
  Overlap = FALSE
SYMMETRY LedgerSymmetry
INVARIANTS SlotsAreHeld OvershootBounded
PROPERTY OnlyFreshRunsThrottle
CHECK_DEADLOCK FALSE
