SPECIFICATION Spec
CONSTANTS
  User = {u1, u2}
  Id = {i1, i2}
  Call = {c1, c2}
  Writer = {w1}
  Channel = {ch1}
  Nobody = Nobody
  NoPlace = NoPlace
  Content = {1, 2, 3}
  Value = {1, 2}
  MaxPairs = 3
  MaxInterviews = 2
  MaxRestores = 2
  Latest = 2
  Elsewhere = TRUE
  MaxTickets = 2
  MaxWrites = 3
  Households <- HouseholdsMC
  Surcharges = {0, 25}
  Equities = {0, 600}
  Terms <- TermsMC
  Discount <- DiscountMC
  Payments = {0, 12}
  Prices <- PricesMC
  Threshold = 300
  Rounded <- RoundedMC
SYMMETRY Symmetry
INVARIANTS
  AccountsSound GrantsSound DraftsSound RestoreSound StoreSound VerdictsAgree CacheIsCurrent LocationSound
PROPERTIES
  EndedStaysEnded SweepCostsNothing ListNeverGoesBack LaterAnswersKeepThePin
CHECK_DEADLOCK FALSE
