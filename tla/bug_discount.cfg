\* One web process, one code, two requests.
SPECIFICATION Spec
CONSTANTS
  p = p
  q = q
  s = s
  home = home
  away = away
  None = None
  All = All
  Gone = Gone
  Products = {p}
  Systems = {s}
  SystemOf <- OneShop
  Price <- Prices
  Codes <- OneCode
  Countries = {home, away}
  TaxRate <- AwayTaxed
  Baskets = {b1, b2}
  Workers = {w1}
  Profile = home
  Places = {home, away}
  Rules <- SomeRules
  Quantities = {1}
  MaxRequests = 2
  MaxEdits = 0
  MaxItems = 2
INVARIANTS TotalHasDiscounts
CHECK_DEADLOCK FALSE
