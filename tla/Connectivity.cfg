SPECIFICATION FairSpec
CONSTANTS
  de = de
  l1 = l1
  l2 = l2
  b1 = b1
  b2 = b2
  b3 = b3
  Source = {de}
  Building = {b1, b2, b3}
  Register <- RegisterMC
  Truth <- TruthMC
  Halved = {de}
  Glossing = {de}
  Nobody = Nobody
  Newest <- NewestMC
  Limit = 1
INVARIANTS TypeOK NothingMeansNothing
PROPERTY BacklogDrains
