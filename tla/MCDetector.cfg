SPECIFICATION Spec
CONSTANTS
  MaxBars = 4
  Names <- MCNames
  Confidences = {0, 1, 2}
  MinConfidence = 0
  Areas = {1, 2}
INVARIANTS SharesNoLightbar RemovedForRival NoBalanceArmor
