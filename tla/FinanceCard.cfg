SPECIFICATION Spec
CONSTANTS
  Households <- MCHouseholds
  Surcharges = {0, 25}
  Equities = {0, 600}
  Terms <- MCTerms
  Discount <- MCDiscount
  Payments = {0, 12}
  Prices <- MCPrices
  Threshold = 300
  Rounded <- MCRounded
INVARIANT CardIsChip
CHECK_DEADLOCK FALSE
