\* An order paid by card, a row for one of its lines, two workers that may both run
\* the sheet, three requests, one of them edited or with a row that a user has added,
\* no crash.
SPECIFICATION Spec
CONSTANTS
  paid = paid
  gratis = gratis
  odd = odd
  l1 = l1
  l2 = l2
  l3 = l3
  l4 = l4
  x = x
  y = y
  z = z
  None = None
  Other = "paypal"
  Orders = {paid}
  Lines = {l1}
  OrderOf <- LinesOfOrders
  FreeLines = {}
  PaidBy <- Payments
  Rows = {x}
  RowLine <- OneRowEach
  Recipients = {}
  Workers = {w1, w2}
  SheetWorkers = {w1, w2}
  MaxRequests = 3
  MaxFaults = 0
  MaxEdits = 1
  Custom = Custom
  Null = Null
INVARIANTS RefundsBounded
SYMMETRY AlikeWorkers
CHECK_DEADLOCK FALSE
