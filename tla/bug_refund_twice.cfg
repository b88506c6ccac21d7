\* One worker, which dies once.
SPECIFICATION Spec
CONSTANTS
  paid = paid
  gratis = gratis
  odd = odd
  l1 = l1
  l2 = l2
  l3 = l3
  l4 = l4
  x = x
  y = y
  z = z
  None = None
  Other = "paypal"
  Orders = {paid, gratis, odd}
  Lines = {l1, l2, l3, l4}
  OrderOf <- LinesOfOrders
  FreeLines = {l3}
  PaidBy <- Payments
  Rows = {x}
  RowLine <- OneRowEach
  Recipients = {"staff"}
  Workers = {w1}
  SheetWorkers = {w1}
  MaxRequests = 2
  MaxFaults = 1
  MaxEdits = 0
  Custom = Custom
  Null = Null
INVARIANTS LineRefundedOnce
CHECK_DEADLOCK FALSE
