SPECIFICATION MCSpec
CONSTANTS
  a = a
  b = b
  c = c
  Reqs = {a, b, c}
  Emails = {e1}
  SeedEmail = e1
  Locks = {l1, l2}
  Nothing = Nothing
  Subjects = {s1, s2}
  Stranger = Stranger
  Operator = Operator
  Loads <- MCLoads
  Leeway = 0
  t1 = t1
  t2 = t2
  home = home
  spray1 = spray1
  spray2 = spray2
  Threads = {t1, t2}
  Keys = {home, spray1, spray2}
  Known = {home}
  Threshold = 2
  BaseDelay = 1
  MaxDelay = 2
  EntryTtl = 2
  MaxEntries = 2
  Stall = 1
  Bounds <- MCBounds
SYMMETRY LoginSymmetry
INVARIANTS AccountsAreSingle TokensFollowPassword
PROPERTIES CreationsAreHonest BlocksHold
CHECK_DEADLOCK FALSE
