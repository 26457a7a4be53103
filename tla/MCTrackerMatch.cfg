SPECIFICATION Spec
CONSTANTS
  hero = hero
  balance = balance
  Kinds <- MCKinds
  BalanceKinds <- MCBalanceKinds
  NoKind = NoKind
  Window = 5
  UpdateCap = 4
  MinDetectCount = 3
  MaxTempLostCount = 2
  Priorities = {0, 1}
  Distances = {0, 1}
  MaxArmors = 2
INVARIANT MatchIsAnArmor
