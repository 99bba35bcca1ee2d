CONSTANTS
  Kinds = {"position", "plans", "orders"}
  MaxPrice = 2
  Qty = 2
  Quirk = {"fail", "glitch", "lost", "stuck", "vanish", "move", "reduce", "restart", "trail"}
  MaxQuirk = 3
  MaxLife = 2
  MaxOrder = 4
SPECIFICATION FairSpec
INVARIANTS TypeOK NoFalseClose
PROPERTIES HandRemembered NoStackedStops MissingIsAnswered
CHECK_DEADLOCK FALSE
