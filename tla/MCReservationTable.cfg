CONSTANTS
  Inputs = {i1, i2}
  Outputs = {o1, o2}
  VCs = {v1, v2, v3}
  AtTurn = {o2}
SPECIFICATION FairSpec
INVARIANTS TypeOK IndexInRange VcExclusive OneOutput
PROPERTIES TurnKept EveryoneGetsATurn
