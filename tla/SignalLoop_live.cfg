SPECIFICATION FairSpec
CONSTANTS
  a1 = a1
  a2 = a2
  t1 = t1
  t2 = t2
  Target = {t1}
  Asset = {a1, a2}
  TargetAsset <- OneAssetOf
  Manual = {}
  Editable = {t1}
  NSig = 2
  SigAsset <- Alternating
  Key = {a1, a2}
  SigKey <- Alternating
  SigDay <- OneDay
  NoTrade = {2}
  Unusable = {}
  MaxGen = 2
  MaxBoot = 2
CHECK_DEADLOCK FALSE
PROPERTIES
  RecordOutlivesRestart
  DueIsAnswered
