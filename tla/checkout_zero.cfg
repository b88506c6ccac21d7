\* Product A is free: checkouts that skip the gateway race with payments.
SPECIFICATION Spec
CONSTANTS
  A = A
  B = B
  code = code
  shop = shop
  other = other
  None = None
  Users = {u}
  Systems = {shop}
  Products = {A, B}
  SystemOf <- OneShop
  WebhookSystems = {shop}
  Workers = {w1, w2}
  Discounts = {}
  DiscountProduct <- NoCodes
  MaxRedemptions <- NoLimit
  Saving <- Equal
  Automatic = {}
  Decisions = {"accepted", "declined"}
  TxIdPresent = {TRUE}
  Free <- AFree
  MaxVersion = 1
  MaxOrders = 1
  MaxBaskets = 1
  MaxPayments = 2
  MaxFaults = 1
  MaxRows = 0
INVARIANTS IInv
PROPERTIES NeverReopened
SYMMETRY AlikeWorkers
CHECK_DEADLOCK FALSE
