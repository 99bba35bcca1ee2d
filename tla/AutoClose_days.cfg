SPECIFICATION MCSpec
CONSTANTS
  nq = nq gc = gc btc = btc x = x y = y j1 = j1 j2 = j2
  Scenes = {"retries", "accounts", "assets", "bitcoin"}
  NoJob = NoJob
  Job = {j1}
  Asset = {nq}
  JobAsset <- Nq
  Acct = {x}
  JobAcct <- OnX
  DueAt <- Second
  Window = 2
  DayLen = 5
  Days = 2
  Sunday = {}
  Block = {}
  Expiry = {}
  Tiers = {"autopilot"}
  EntryAt <- Daily
  Early <- EarlyAt1
  MaxGen = 2
  Quirk = {"stop", "sleep", "overlap"}
CHECK_DEADLOCK FALSE
INVARIANTS
  NoneHeldSilently
PROPERTIES
  ToldOnce
  GivenUpTruly
  NoneKilledEarly
