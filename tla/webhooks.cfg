\* A sale of two systems and an addition to a basket, two Celery workers, three
\* tries, one edit of a system, one crash.
SPECIFICATION Spec
CONSTANTS
  sale = sale
  refund = refund
  add = add
  s1 = s1
  s2 = s2
  Mail = Mail
  None = None
  Systems = {s1, s2}
  Announcements = {sale, add}
  Kind <- Kinds
  SystemsOf <- Told
  Workers = {w1, w2}
  RetryMax = 3
  MaxEdits = 1
  MaxFaults = 1
INVARIANTS TypeOK OneTask GivenUpAfterRetries AllTold MailIsLast
PROPERTIES KeepsItsPromise
CHECK_DEADLOCK FALSE
