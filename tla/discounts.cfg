\* Two customers, one code on its way to one basket at a time, two administrators with
\* three runs between them, two days.
SPECIFICATION Spec
CONSTANTS
  u1 = u1
  u2 = u2
  b1 = b1
  b2 = b2
  p = p
  s = s
  c1 = c1
  None = None
  Unknown = Unknown
  Codes = {c1}
  Users = {u1, u2}
  Baskets = {b1, b2}
  OwnerOf <- Owners
  ShopOf <- Shops
  Products = {p}
  Systems = {s}
  SystemOf <- Catalog
  Saving <- Savings
  Offers <- SomeOffers
  Changes <- SomeChanges
  Visits = {v1}
  Admins = {a1, a2}
  MaxDay = 1
  MaxRows = 1
  MaxRuns = 3
  Limits = {0, 1}
INVARIANTS TypeOK MeantForThem
PROPERTIES ClosedStaysClosed SettledIsKept
SYMMETRY Alike
CHECK_DEADLOCK FALSE
