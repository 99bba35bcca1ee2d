CONSTANTS
  Kinds = {"position"}
  MaxPrice = 2
  Qty = 1
  Quirk = {"move", "restart", "trail"}
  MaxQuirk = 3
  MaxLife = 1
  MaxOrder = 4
SPECIFICATION Spec
PROPERTY HandIsRespected
CHECK_DEADLOCK FALSE
