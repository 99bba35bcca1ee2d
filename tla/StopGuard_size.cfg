CONSTANTS
  Kinds = {"orders"}
  MaxPrice = 1
  Qty = 3
  Quirk = {"reduce"}
  MaxQuirk = 2
  MaxLife = 1
  MaxOrder = 4
SPECIFICATION FairSpec
PROPERTY SizeIsAnswered
CHECK_DEADLOCK FALSE
