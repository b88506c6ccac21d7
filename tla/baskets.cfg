\* Two web processes, three requests, two products, a customer of home who is away,
\* one change of the blocks or by the basketitems endpoint.
SPECIFICATION Spec
CONSTANTS
  p = p
  q = q
  s = s
  home = home
  away = away
  None = None
  All = All
  Gone = Gone
  Products = {p, q}
  Systems = {s}
  SystemOf <- OneShop
  Price <- Prices
  Codes <- OneCode
  Countries = {home, away}
  TaxRate <- AwayTaxed
  Baskets = {b1, b2}
  Workers = {w1, w2}
  Profile = home
  Places = {away}
  Rules <- SomeRules
  Quantities = {1}
  MaxRequests = 3
  MaxEdits = 1
  MaxItems = 2
INVARIANTS TypeOK BlockedGoNoFurther OneAtATime CentsAgree
SYMMETRY Alike
CHECK_DEADLOCK FALSE
