SPECIFICATION MCSpec
CONSTANTS
  Scenes = {"cutoff", "record", "report", "secret", "flatten", "pass", "bridge", "rows", "starts"}
  Cutoff = {"9:00", "15:00"}
  HourOf <- Hours
  Padded = {"9:00", "15:00"}
  Days = 2
  MaxRun = 2
  Fault = {"busy", "move", "mark", "swap", "disk", "copy", "answer", "server", "day", "list", "close", "cancel", "entry", "blip", "outage", "ack", "addon", "crash"}
  MaxFault = 2
  ReportFaults = 4
  SecretFaults = 1
  Writer = {"NQ", "BTC"}
  MaxRec = 3
  MaxReport = 3
  MaxQueue = 2
  Ticks = {1, 2}
  Stores = {"open", "shut", "mute"}
  MaxValue = 1
  Contract = {a, b}
  Kinds = {"px", "ibkr", "tradovate", "bybit", "bitget", "nt8"}
  MaxCall = 2
  MaxTry = 2
  MaxEntry = 2
  Caller = {1, 2}
  Tid = {a, b}
  MaxCommand = 3
  Asset = {"NQ"}
  Account = {a, b}
  Gates = {"auto", "use", "none", "kill", "offline", "revoked"}
  MaxRow = 2
  MaxTest = 2
  MaxSignal = 1
  MaxChange = 3
CHECK_DEADLOCK FALSE
SYMMETRY Alike
INVARIANTS
  Types
  OncePerCutoff
  CutoffCalled
  SentRight
  MarksStay
  ReportKept
  SecretKept
  FlatIsFlat
  OpenKeepsStop
  PassIsClosed
  PassKeepsStop
  StopHolds
  SigHasClose
  KeysFollow
  ArmedIsTested
  NoneLeftParked
PROPERTIES
  BridgeDelivers
