SPECIFICATION Spec
CONSTANTS
  home = home
  work = work
  office = office
  shop = shop
  Label = {home, work}
  Rail = {office}
  Road = {}
  Nearby = {shop}
  Books <- BooksMC
  Spot = {s1, s2}
  Run = {job, add}
  NoPlace = NoPlace
  None = None
  Limit = 1
  MaxBusy = 2
  MaxEvents = 1

INVARIANT JourneysStand
PROPERTIES ValidJourneysStay
SYMMETRY Symmetry
