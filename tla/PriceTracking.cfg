SPECIFICATION FairSpec
CONSTANTS
  Advert = {a}
  Price = {100, 102, 120}
  NoPrice = NoPrice
  Threshold = 5
  MaxMoves = 2
INVARIANT CurrentIsLastPoint
PROPERTIES
  PriceCatchesUp
  QuietPortalQuietFredy
