SPECIFICATION Spec
CONSTANTS
  a1 = a1
  a2 = a2
  t1 = t1
  t2 = t2
  Target = {t1, t2}
  Asset = {a1, a2}
  TargetAsset <- OneAssetOf
  Manual = {t2}
  Editable = {t1}
  NSig = 3
  SigAsset <- Alternating
  Key = {a1, a2}
  SigKey <- Alternating
  SigDay <- OneDay
  NoTrade = {}
  Unusable = {}
  MaxGen = 2
  MaxBoot = 1
CHECK_DEADLOCK FALSE
INVARIANTS
  TypeOK
  OncePerDay
  OncePerSignal
  NoOrphanMark
