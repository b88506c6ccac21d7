\* Two customers, a product that is free and whose versions change, one code:
\* baskets and orders of the one next to those of the other.
SPECIFICATION Spec
CONSTANTS
  A = A
  B = B
  code = code
  shop = shop
  other = other
  None = None
  Users = {u1, u2}
  Systems = {shop}
  Products = {A}
  SystemOf <- OneShop
  WebhookSystems = {shop}
  Workers = {w1, w2}
  Discounts = {code}
  DiscountProduct <- NoCodes
  MaxRedemptions <- NoLimit
  Saving <- Equal
  Automatic = {}
  Decisions = {"accepted", "declined"}
  TxIdPresent = {TRUE}
  Free <- AFree
  MaxVersion = 2
  MaxOrders = 2
  MaxBaskets = 2
  MaxPayments = 0
  MaxFaults = 0
  MaxRows = 1
INVARIANTS OwnOrder TotalOfLines
SYMMETRY AlikeWorkers
CHECK_DEADLOCK FALSE
