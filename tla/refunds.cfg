\* An order paid by card, of which one line was free, a row for the other one, two
\* workers that may both run the sheet, two requests, one of them edited or with a
\* row that a user has added, one crash.
SPECIFICATION Spec
CONSTANTS
  paid = paid
  gratis = gratis
  odd = odd
  l1 = l1
  l2 = l2
  l3 = l3
  l4 = l4
  x = x
  y = y
  z = z
  None = None
  Other = "paypal"
  Orders = {paid}
  Lines = {l1, l2}
  OrderOf <- LinesOfOrders
  FreeLines = {l2}
  PaidBy <- Payments
  Rows = {x}
  RowLine <- OneRowEach
  Recipients = {"staff"}
  Workers = {w1, w2}
  SheetWorkers = {w1, w2}
  MaxRequests = 2
  MaxFaults = 1
  MaxEdits = 1
  Custom = Custom
  Null = Null
INVARIANTS RefundInv RequestRefundedOnce RecordedRefund CompleteIsRefunded WebhookOnce CodesForOpen
PROPERTIES StatusPath
SYMMETRY AlikeWorkers
CHECK_DEADLOCK FALSE
