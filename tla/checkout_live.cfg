\* Liveness: one product, one code, two web processes; no symmetry.
SPECIFICATION FairSpec
CONSTANTS
  A = A
  B = B
  code = code
  shop = shop
  other = other
  None = None
  Users = {u}
  Systems = {shop}
  Products = {A}
  SystemOf <- OneShop
  WebhookSystems = {shop}
  Workers = {w1, w2}
  Discounts = {code}
  DiscountProduct <- NoCodes
  MaxRedemptions <- NoLimit
  Saving <- Equal
  Automatic = {}
  Decisions = {"accepted", "declined"}
  TxIdPresent = {TRUE}
  Free <- NothingFree
  MaxVersion = 1
  MaxOrders = 2
  MaxBaskets = 1
  MaxPayments = 1
  MaxFaults = 1
  MaxRows = 2
PROPERTIES AcceptedIsSettled RequestEnds
CHECK_DEADLOCK FALSE
