SPECIFICATION FairSpec
CONSTANTS
  Listing = {l1}
  Address = {a1, a2}
  NoPlace = NoPlace
  None = None

PROPERTY EveryRowIsAskedAbout
