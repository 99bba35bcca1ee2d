SPECIFICATION MCSpec
CONSTANTS
  a = a
  b = b
  Scenes = {"alone", "pair", "legs", "crypto", "repeat"}
  Dev = {a, b}
  Leg = {1, 2}
  Labels = {1, 2}
  Kinds = {"px", "oco", "nt8"}
  Policies = {"market", "limit"}
  Standbys = {b}
  MaxTry = 2
  MaxLife = 2
  MaxFault = 2
  Fault = {"list", "disk", "query", "stop", "claim", "close", "send", "refuse",
           "cancel", "adverse", "passed", "account", "other"}
CHECK_DEADLOCK FALSE
INVARIANTS
  Types
  OneEntry
  OneRunEnters
  NoneUnknown
PROPERTIES
  WatchAnswers
