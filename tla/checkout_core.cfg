\* Nothing is free: one customer, two products, two web processes that race
\* for one order, two payments, with and without a
\* transaction id, one crash or broker failure.
SPECIFICATION Spec
CONSTANTS
  A = A
  B = B
  code = code
  shop = shop
  other = other
  None = None
  Users = {u}
  Systems = {shop}
  Products = {A, B}
  SystemOf <- OneShop
  WebhookSystems = {shop}
  Workers = {w1, w2}
  Discounts = {}
  DiscountProduct <- NoCodes
  MaxRedemptions <- NoLimit
  Saving <- Equal
  Automatic = {}
  Decisions = {"accepted", "cancelled"}
  TxIdPresent = {TRUE, FALSE}
  Free <- NothingFree
  MaxVersion = 1
  MaxOrders = 1
  MaxBaskets = 1
  MaxPayments = 2
  MaxFaults = 1
  MaxRows = 0
INVARIANTS PaidOnce TxnOfSale FulfilledHasTxn SaleAnnounced AnnouncedOnce
PROPERTIES SettledLinesFixed FinalIsFinal KeepsPromises
SYMMETRY AlikeProducts
CHECK_DEADLOCK FALSE
