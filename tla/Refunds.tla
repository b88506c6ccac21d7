------------------------------- MODULE Refunds -------------------------------
(***************************************************************************)
(* From a fulfilled order to the returned money: refunds/api.py,           *)
(* refunds/models.py, refunds/tasks.py, the hooks, and the routed views.   *)
(*                                                                         *)
(* A request for a refund comes from the customer (create_from_order) or   *)
(* from a row of a Google sheet, which a periodic task or a command hands  *)
(* to process_gsheet_request_row.  The customer's request is approved by a *)
(* hook if it is worth nothing, and processed by a Celery task; otherwise  *)
(* codes are sent to those who may decide it, and there the program ends:  *)
(* accept_code has no route, Request.deny no caller.  A row's request is   *)
(* approved and processed on the spot.                                     *)
(*                                                                         *)
(* Statements commit one by one, except those of process_approved_refund.  *)
(* No row is locked before it is written.  Amounts are sets of order lines *)
(* as they are sets of versions in Checkout; FreeLines cost nothing.  A    *)
(* user may add rows to any request, with an amount of their choice: such  *)
(* an amount is Custom, whatever it is, or Null if it is no number.        *)
(***************************************************************************)
EXTENDS Naturals, FiniteSets

CONSTANTS
  Orders,       \* orders, fulfilled at the start
  Lines,        \* their lines
  OrderOf,      \* the order of a line
  FreeLines,    \* lines with total price zero
  PaidBy,       \* an order's payment transaction: "card", "paypal" or "none"
  Rows,         \* rows of the sheet
  RowLine,      \* the line a row names
  Recipients,   \* mail addresses that get access codes
  Workers,      \* web processes and Celery workers
  SheetWorkers, \* those that run the sheet task or command, at most
  MaxRequests, MaxFaults, \* bounds
  MaxEdits,     \* ... and of requests that are edited and that get rows posted
  Custom, Null, \* amounts of rows that were posted
  None

Requests == 1 .. MaxRequests
Statuses == {"absent", "created", "approved", "approved-complete", "deleted"}
Results  == {"processed", "failed"}

LinesOf(o)   == {l \in Lines : OrderOf[l] = o}
Amounts      == SUBSET (Lines \cup {Custom, Null})
Zero(amount) == amount \subseteq FreeLines

ASSUME RefundConstants ==
  /\ OrderOf \in [Lines -> Orders]
  /\ FreeLines \subseteq Lines
  /\ PaidBy \in [Orders -> {"card", "paypal", "none"}]
  /\ RowLine \in [Rows -> Lines]
  /\ SheetWorkers \subseteq Workers /\ IsFiniteSet(SheetWorkers)
  /\ MaxRequests \in Nat /\ MaxFaults \in Nat /\ MaxEdits \in Nat

ASSUME RefundNone ==
  /\ None \notin Rows /\ None \notin Results /\ None \notin Nat
  /\ Custom \notin Lines /\ Null \notin Lines /\ Custom # Null

VARIABLES
  \* tables
  ostate,    \* ostate[o]: Order.state
  rstatus,   \* rstatus[r]: Request.status; "deleted" after the customer's DELETE
  rorder,    \* rorder[r]: Request.order
  rlines,    \* rlines[r]: its RequestLine rows
  rapproved, \* rapproved[r]: their refunded_amounts: the lines for which it is the
             \* total price, and Custom or Null if a row was posted with another
  codes,     \* RequestProcessingCode rows: request and address
  txns,      \* Transaction rows of type refund
  \* outside the database
  ledger,    \* refunds the gateway made; n numbers those of one request
  sheet,     \* sheet[i]: the result noted in row i, None if there is none yet
  queue,     \* queue[r]: queue_process_approved_refund tasks for request r
  webhook,   \* webhook[r]: refund webhooks queued for request r
  \* history
  faults,    \* crashes, time limits and broker failures so far
  edits,     \* requests the customer has edited
  posted,    \* requests that had a row POSTed to refunds/lines
  \* what each worker does
  pc,        \* the next step
  word,      \* the order it has loaded
  wreq,      \* the request it works on
  wrow,      \* the row of the sheet it works on, None if it is no sheet run
  wamount,   \* the refund it asks the gateway for
  wresult,   \* the result it will note in the row
  wstatus    \* the status of the request it edits, as it has read it

Ledger     == [request : Requests, n : Nat, lines : Amounts]
RefundTxns == [request : Requests, amount : Amounts]

tables  == <<rstatus, rorder, rlines, rapproved, codes>>
money   == <<ostate, txns>>
outside == <<sheet, queue, webhook>>
history == <<faults, edits, posted>>
locals  == <<word, wreq, wrow, wamount, wresult, wstatus>>
vars    == <<tables, money, ledger, outside, history, pc, locals>>

Stages == {"idle", "insert", "lines", "save", "hook", "total", "check", "approve",
           "amounts", "enqueue", "codes", "process", "sum", "gateway", "apply",
           "commit", "report", "edit"}

TypeOK ==
  /\ ostate \in [Orders -> {"fulfilled", "refunded"}]
  /\ rstatus \in [Requests -> Statuses]
  /\ rorder \in [Requests -> Orders \cup {None}]
  /\ rlines \in [Requests -> SUBSET Lines]
  /\ rapproved \in [Requests -> Amounts]
  /\ codes \subseteq Requests \X Recipients
  /\ txns \subseteq RefundTxns
  /\ ledger \subseteq Ledger
  /\ sheet \in [Rows -> Results \cup {None}]
  /\ queue \in [Requests -> Nat]
  /\ webhook \in [Requests -> Nat]
  /\ faults \in 0 .. MaxFaults
  /\ edits \subseteq Requests
  /\ posted \subseteq Requests
  /\ pc \in [Workers -> Stages]
  /\ word \in [Workers -> Orders \cup {None}]
  /\ wreq \in [Workers -> Requests \cup {None}]
  /\ wrow \in [Workers -> Rows \cup {None}]
  /\ wamount \in [Workers -> Amounts]
  /\ wresult \in [Workers -> Results \cup {None}]
  /\ wstatus \in [Workers -> Statuses \cup {None}]

Init ==
  /\ ostate = [o \in Orders |-> "fulfilled"]
  /\ rstatus = [r \in Requests |-> "absent"]
  /\ rorder = [r \in Requests |-> None]
  /\ rlines = [r \in Requests |-> {}]
  /\ rapproved = [r \in Requests |-> {}]
  /\ codes = {}
  /\ txns = {}
  /\ ledger = {}
  /\ sheet = [i \in Rows |-> None]
  /\ queue = [r \in Requests |-> 0]
  /\ webhook = [r \in Requests |-> 0]
  /\ faults = 0
  /\ edits = {}
  /\ posted = {}
  /\ pc = [w \in Workers |-> "idle"]
  /\ word = [w \in Workers |-> None]
  /\ wreq = [w \in Workers |-> None]
  /\ wrow = [w \in Workers |-> None]
  /\ wamount = [w \in Workers |-> {}]
  /\ wresult = [w \in Workers |-> None]
  /\ wstatus = [w \in Workers |-> None]

-----------------------------------------------------------------------------
(* The steps of a worker.                                                  *)

At(w, stage) == pc[w] = stage
Goto(w, stage) == pc' = [pc EXCEPT ![w] = stage] /\ UNCHANGED locals

\* The end of a request, task or row; also where an exception ends it.
Finish(w) ==
  /\ pc'      = [pc EXCEPT ![w] = "idle"]
  /\ word'    = [word EXCEPT ![w] = None]
  /\ wreq'    = [wreq EXCEPT ![w] = None]
  /\ wrow'    = [wrow EXCEPT ![w] = None]
  /\ wamount' = [wamount EXCEPT ![w] = {}]
  /\ wresult' = [wresult EXCEPT ![w] = None]
  /\ wstatus' = [wstatus EXCEPT ![w] = None]

\* The row's result is returned, and the sheet's handler will note it.
Return(w, result) ==
  /\ pc' = [pc EXCEPT ![w] = "report"]
  /\ wresult' = [wresult EXCEPT ![w] = result]
  /\ UNCHANGED <<word, wreq, wrow, wamount, wstatus>>

-----------------------------------------------------------------------------
(* Creating a request.                                                     *)

\* create_from_order: the customer's fulfilled order.
CreateFromOrder(w, o) ==
  /\ At(w, "idle")
  /\ ostate[o] = "fulfilled"
  /\ pc' = [pc EXCEPT ![w] = "insert"]
  /\ word' = [word EXCEPT ![w] = o]
  /\ UNCHANGED <<tables, money, ledger, outside, history,
                 wreq, wrow, wamount, wresult, wstatus>>

\* The handler of the sheet hands out a row without a result.
HandOut(w, i) ==
  /\ w \in SheetWorkers
  /\ At(w, "idle")
  /\ sheet[i] = None

\* _preflight_gsheet_request_row finds the line worth something, and
\* create_request_from_order the order, loaded with it, fulfilled.
TakeRow(w, i) ==
  /\ HandOut(w, i)
  /\ RowLine[i] \notin FreeLines
  /\ ostate[OrderOf[RowLine[i]]] = "fulfilled"
  /\ pc' = [pc EXCEPT ![w] = "insert"]
  /\ wrow' = [wrow EXCEPT ![w] = i]
  /\ word' = [word EXCEPT ![w] = OrderOf[RowLine[i]]]
  /\ UNCHANGED <<tables, money, ledger, outside, history, wreq, wamount, wresult, wstatus>>

\* ... or they do not.
RefuseRow(w, i) ==
  /\ HandOut(w, i)
  /\ RowLine[i] \in FreeLines \/ ostate[OrderOf[RowLine[i]]] # "fulfilled"
  /\ pc' = [pc EXCEPT ![w] = "report"]
  /\ wrow' = [wrow EXCEPT ![w] = i]
  /\ wresult' = [wresult EXCEPT ![w] = "failed"]
  /\ UNCHANGED <<tables, money, ledger, outside, history, word, wreq, wamount, wstatus>>

\* Request.objects.create
InsertRequest(w) ==
  /\ At(w, "insert")
  /\ \E r \in Requests :
       /\ rstatus[r] = "absent"
       /\ \A earlier \in 1 .. (r - 1) : rstatus[earlier] # "absent"
       /\ rstatus' = [rstatus EXCEPT ![r] = "created"]
       /\ rorder' = [rorder EXCEPT ![r] = word[w]]
       /\ wreq' = [wreq EXCEPT ![w] = r]
  /\ pc' = [pc EXCEPT ![w] = "lines"]
  /\ UNCHANGED <<rlines, rapproved, codes, money, ledger, outside, history,
                 word, wrow, wamount, wresult, wstatus>>

\* RequestLine.objects.create, for the row's line or all of the order's, and
\* for a row the refresh from the database that follows.
AddLines(w) ==
  /\ At(w, "lines")
  /\ rstatus[wreq[w]] = "created"
  /\ rlines' = [rlines EXCEPT ![wreq[w]] =
                  @ \cup IF wrow[w] = None THEN LinesOf(word[w]) ELSE {RowLine[wrow[w]]}]
  /\ Goto(w, IF wrow[w] = None THEN "hook" ELSE "save")
  /\ UNCHANGED <<rstatus, rorder, rapproved, codes, money, ledger, outside, history>>

\* process_gsheet_request_row saves the request once more: it inserts it, if it
\* has been deleted since it was refreshed.
SaveCreated(w) ==
  /\ At(w, "save")
  /\ rstatus' = [rstatus EXCEPT ![wreq[w]] = "created"]
  /\ Goto(w, "check")
  /\ UNCHANGED <<rorder, rlines, rapproved, codes, money, ledger, outside, history>>

\* The customer named lines: they come as numbers, and numbers have no order.
\* The request stays, without lines.
NamedLinesFail(w) ==
  /\ At(w, "lines")
  /\ wrow[w] = None
  /\ Finish(w)
  /\ UNCHANGED <<tables, money, ledger, outside, history>>

\* DoesNotExist, or a foreign key that points nowhere: the customer has
\* deleted the request while it, or its lines, were being written.
LostRequest(w) ==
  /\ pc[w] \in {"lines", "save", "hook", "amounts"}
  /\ rstatus[wreq[w]] = "deleted"
  /\ Finish(w)
  /\ UNCHANGED <<tables, money, ledger, outside, history>>

\* RefundCreatedHooks: auto_approve_refund comes first, loads the request ...
LoadCreated(w) ==
  /\ At(w, "hook")
  /\ rstatus[wreq[w]] = "created"
  /\ Goto(w, "total")
  /\ UNCHANGED <<tables, money, ledger, outside, history>>

\* ... and approves it if its lines, read now, are worth nothing.
AutoApprove(w) ==
  /\ At(w, "total")
  /\ Goto(w, IF Zero(rlines[wreq[w]]) THEN "check" ELSE "codes")
  /\ UNCHANGED <<tables, money, ledger, outside, history>>

\* Mutant: _resolve_refund_request does not ask for status CREATED.
CodesUnresolved(w, e) ==
  /\ At(w, "codes")
  /\ rstatus[wreq[w]] # "deleted"
  /\ <<wreq[w], e>> \notin codes
  /\ codes' = codes \cup {<<wreq[w], e>>}
  /\ UNCHANGED <<rstatus, rorder, rlines, rapproved, money, ledger, outside, history,
                 pc, locals>>

\* create_request_access_codes: one code after the other, if the request is
\* (still) CREATED.
SendCode(w, e) ==
  /\ At(w, "codes")
  /\ rstatus[wreq[w]] = "created"
  /\ <<wreq[w], e>> \notin codes
  /\ codes' = codes \cup {<<wreq[w], e>>}
  /\ UNCHANGED <<rstatus, rorder, rlines, rapproved, money, ledger, outside, history,
                 pc, locals>>

\* Mutant: the request, as it was created, is saved instead of refreshed.
SavedNotRefreshed(w) ==
  /\ At(w, "codes")
  /\ rstatus[wreq[w]] = "created" => \A e \in Recipients : <<wreq[w], e>> \in codes
  /\ rstatus' = [rstatus EXCEPT ![wreq[w]] = "created"]
  /\ Finish(w)
  /\ UNCHANGED <<rorder, rlines, rapproved, codes, money, ledger, outside, history>>

CreateDone(w) ==
  /\ At(w, "codes")
  /\ rstatus[wreq[w]] = "created" => \A e \in Recipients : <<wreq[w], e>> \in codes
  /\ Finish(w)
  /\ UNCHANGED <<tables, money, ledger, outside, history>>

-----------------------------------------------------------------------------
(* Approving it.                                                           *)

\* Request._check_status_prerequisites.  The request is as it was loaded,
\* CREATED; the order is loaded now.
PrerequisitesHold(w) ==
  /\ At(w, "check")
  /\ ostate[rorder[wreq[w]]] = "fulfilled"
  /\ Goto(w, "approve")
  /\ UNCHANGED <<tables, money, ledger, outside, history>>

\* RefundOrderImproperStateError, which neither the hook nor
\* process_gsheet_request_row catches.
PrerequisitesFail(w) ==
  /\ At(w, "check")
  /\ ostate[rorder[wreq[w]]] # "fulfilled"
  /\ Finish(w)
  /\ UNCHANGED <<tables, money, ledger, outside, history>>

\* Request.approve saves the request (inserts it, if it has been deleted) ...
Approve(w) ==
  /\ At(w, "approve")
  /\ rstatus' = [rstatus EXCEPT ![wreq[w]] = "approved"]
  /\ Goto(w, "amounts")
  /\ UNCHANGED <<rorder, rlines, rapproved, codes, money, ledger, outside, history>>

\* Mutant: skip_process_delay does not keep the task from being queued.
ApproveAndQueue(w) ==
  /\ At(w, "amounts")
  /\ rapproved' = [rapproved EXCEPT ![wreq[w]] = rlines[wreq[w]]]
  /\ Goto(w, IF wrow[w] = None THEN "codes" ELSE "process")
  /\ queue' = [queue EXCEPT ![wreq[w]] = @ + 1]
  /\ UNCHANGED <<rstatus, rorder, rlines, codes, money, ledger, sheet, webhook, history>>

\* ... and its lines, and processes a row's request at once.
ApproveLines(w) ==
  /\ At(w, "amounts")
  /\ rapproved' = [rapproved EXCEPT ![wreq[w]] = rlines[wreq[w]]]
  /\ Goto(w, IF wrow[w] = None THEN "enqueue" ELSE "process")
  /\ UNCHANGED <<rstatus, rorder, rlines, codes, money, ledger, outside, history>>

\* queue_process_approved_refund.delay
Enqueue(w) ==
  /\ At(w, "enqueue")
  /\ queue' = [queue EXCEPT ![wreq[w]] = @ + 1]
  /\ Goto(w, "codes")
  /\ UNCHANGED <<tables, money, ledger, sheet, webhook, history>>

-----------------------------------------------------------------------------
(* Processing it: queue_process_approved_refund, process_approved_refund.  *)

\* Mutant: a task is acknowledged late, and the broker delivers it again.
TaskRedelivered(w, r) ==
  /\ At(w, "idle")
  /\ queue[r] > 0
  /\ pc' = [pc EXCEPT ![w] = "process"]
  /\ wreq' = [wreq EXCEPT ![w] = r]
  /\ UNCHANGED <<tables, money, ledger, outside, history,
                 word, wrow, wamount, wresult, wstatus>>

\* Celery delivers a task once, and takes it off the queue before it runs.
TakeTask(w, r) ==
  /\ At(w, "idle")
  /\ queue[r] > 0
  /\ queue' = [queue EXCEPT ![r] = @ - 1]
  /\ pc' = [pc EXCEPT ![w] = "process"]
  /\ wreq' = [wreq EXCEPT ![w] = r]
  /\ UNCHANGED <<tables, money, ledger, sheet, webhook, history,
                 word, wrow, wamount, wresult, wstatus>>

CanProcess(r) == rstatus[r] = "approved" /\ PaidBy[rorder[r]] = "card"

\* The order's state is not looked at.
Process(w) ==
  /\ At(w, "process")
  /\ CanProcess(wreq[w])
  /\ Goto(w, "sum")
  /\ UNCHANGED <<tables, money, ledger, outside, history>>

\* The amount is what has been approved of the lines, read now.
SumLines(w) ==
  /\ At(w, "sum")
  /\ Null \notin rapproved[wreq[w]]
  /\ wamount' = [wamount EXCEPT ![w] = rapproved[wreq[w]]]
  /\ pc' = [pc EXCEPT ![w] = IF Zero(rapproved[wreq[w]]) THEN "apply" ELSE "gateway"]
  /\ UNCHANGED <<tables, money, ledger, outside, history, word, wreq, wrow, wresult, wstatus>>

\* Amounts of the user's choice may make it zero: they can be negative.
SumCancels(w) ==
  /\ At(w, "sum")
  /\ Custom \in rapproved[wreq[w]] /\ Null \notin rapproved[wreq[w]]
  /\ wamount' = [wamount EXCEPT ![w] = {}]
  /\ pc' = [pc EXCEPT ![w] = "apply"]
  /\ UNCHANGED <<tables, money, ledger, outside, history, word, wreq, wrow, wresult, wstatus>>

\* TypeError, which nobody catches: one of them is no number.
SumFails(w) ==
  /\ At(w, "sum")
  /\ Null \in rapproved[wreq[w]]
  /\ Finish(w)
  /\ UNCHANGED <<tables, money, ledger, outside, history>>

\* A deleted request is an exception nobody catches; an order without a
\* payment transaction makes it return as if all were well; a PayPal order
\* and a request that is not approved fail.
CannotProcess(w) ==
  LET r == wreq[w] IN
  /\ At(w, "process")
  /\ ~ CanProcess(r)
  /\ IF wrow[w] = None \/ rstatus[r] = "deleted" THEN Finish(w)
     ELSE Return(w, IF rstatus[r] = "approved" /\ PaidBy[rorder[r]] = "none"
                    THEN "processed" ELSE "failed")
  /\ UNCHANGED <<tables, money, ledger, outside, history>>

Refunded(r) == {x \in ledger : x.request = r}

\* Mutant: the call is repeated when the answer does not come in time.
GatewayRetried(w) ==
  /\ At(w, "gateway")
  /\ ledger' = ledger \cup {[request |-> wreq[w], n |-> Cardinality(Refunded(wreq[w])) + 1,
                             lines |-> wamount[w]]}
  /\ UNCHANGED <<tables, money, outside, history, pc, locals>>

\* The gateway makes the refund.
GatewayAccepts(w) ==
  /\ At(w, "gateway")
  /\ ledger' = ledger \cup {[request |-> wreq[w], n |-> Cardinality(Refunded(wreq[w])) + 1,
                             lines |-> wamount[w]]}
  /\ Goto(w, "apply")
  /\ UNCHANGED <<tables, money, outside, history>>

\* Mutant: the state of the gateway's response is not looked at.
RefusalRecorded(w) ==
  /\ At(w, "gateway")
  /\ Goto(w, "apply")
  /\ UNCHANGED <<tables, money, ledger, outside, history>>

\* The gateway refuses.  FAILED is saved, then RefundTransactionFailedError
\* takes it back with the transaction; the exception has no msg, therefore its
\* handler in process_gsheet_request_row fails too, and the row gets no result.
GatewayRefuses(w) ==
  /\ At(w, "gateway")
  /\ Finish(w)
  /\ UNCHANGED <<tables, money, ledger, outside, history>>

\* The rows are written, which waits for others that have written the same
\* order's, and the hooks of refund_issued queue the webhook.
ApplyRefund(w) ==
  /\ At(w, "apply")
  /\ \A v \in Workers : At(v, "commit") => rorder[wreq[v]] # rorder[wreq[w]]
  /\ webhook' = [webhook EXCEPT ![wreq[w]] = @ + 1]
  /\ Goto(w, "commit")
  /\ UNCHANGED <<tables, money, ledger, sheet, queue, history>>

\* Mutant: the order is not saved.
CommitRequestOnly(w) ==
  LET r == wreq[w] IN
  /\ At(w, "commit")
  /\ rstatus' = [rstatus EXCEPT ![r] = "approved-complete"]
  /\ txns' = IF Zero(wamount[w]) THEN txns
             ELSE txns \cup {[request |-> r, amount |-> wamount[w]]}
  /\ IF wrow[w] = None THEN Finish(w) ELSE Return(w, "processed")
  /\ UNCHANGED <<ostate, rorder, rlines, rapproved, codes, ledger, outside, history>>

\* The transaction becomes visible.
Commit(w) ==
  LET r == wreq[w] IN
  /\ At(w, "commit")
  /\ rstatus' = [rstatus EXCEPT ![r] = "approved-complete"]
  /\ ostate' = [ostate EXCEPT ![rorder[r]] = "refunded"]
  /\ txns' = IF Zero(wamount[w]) THEN txns
             ELSE txns \cup {[request |-> r, amount |-> wamount[w]]}
  /\ IF wrow[w] = None THEN Finish(w) ELSE Return(w, "processed")
  /\ UNCHANGED <<rorder, rlines, rapproved, codes, ledger, outside, history>>

\* The handler notes the result in the sheet.
Report(w) ==
  /\ At(w, "report")
  /\ sheet' = [sheet EXCEPT ![wrow[w]] = wresult[w]]
  /\ Finish(w)
  /\ UNCHANGED <<tables, money, ledger, queue, webhook, history>>

-----------------------------------------------------------------------------

\* RefundRequestViewSet lets a customer delete a request of theirs; lines and
\* codes go with it.  A transaction that has written the request comes first.
DeleteRequest(r) ==
  /\ rstatus[r] \notin {"absent", "deleted"}
  /\ \A w \in Workers : At(w, "commit") => wreq[w] # r
  /\ rstatus' = [rstatus EXCEPT ![r] = "deleted"]
  /\ rlines' = [rlines EXCEPT ![r] = {}]
  /\ rapproved' = [rapproved EXCEPT ![r] = {}]
  /\ codes' = {c \in codes : c[1] # r}
  /\ UNCHANGED <<rorder, money, ledger, outside, history, pc, locals>>

\* RefundRequestLineViewSet lets a user add a row to any request, at any time,
\* for any line.  The amount that its serializer means to keep them from
\* writing has another name there: it may be zero, any other, or none.
PostLine(r, l, amount) ==
  /\ rstatus[r] \notin {"absent", "deleted"}
  /\ Cardinality(edits) + Cardinality(posted \cup {r}) <= MaxEdits
  /\ posted' = posted \cup {r}
  /\ rlines' = [rlines EXCEPT ![r] = @ \cup {l}]
  /\ rapproved' = [rapproved EXCEPT ![r] = @ \cup amount]
  /\ UNCHANGED <<rstatus, rorder, codes, money, ledger, outside, faults, edits, pc, locals>>

\* The customer may also edit a request (PATCH): it is read ...
LoadEdit(w, r) ==
  /\ At(w, "idle")
  /\ rstatus[r] \notin {"absent", "deleted"}
  /\ Cardinality(edits \cup {r}) + Cardinality(posted) <= MaxEdits
  /\ edits' = edits \cup {r}
  /\ pc' = [pc EXCEPT ![w] = "edit"]
  /\ wreq' = [wreq EXCEPT ![w] = r]
  /\ wstatus' = [wstatus EXCEPT ![w] = rstatus[r]]
  /\ UNCHANGED <<tables, money, ledger, outside, faults, posted,
                 word, wrow, wamount, wresult>>

\* ... and saved with all of its columns, and so with the status it had.
SaveEdit(w) ==
  /\ At(w, "edit")
  /\ \A v \in Workers : At(v, "commit") => wreq[v] # wreq[w]
  /\ rstatus' = [rstatus EXCEPT ![wreq[w]] = wstatus[w]]
  /\ Finish(w)
  /\ UNCHANGED <<rorder, rlines, rapproved, codes, money, ledger, outside, history>>

\* A process dies, process_google_sheets_requests exceeds its time limit, or
\* the broker refuses a task.
Crash(w) ==
  /\ ~ At(w, "idle")
  /\ faults < MaxFaults
  /\ faults' = faults + 1
  /\ Finish(w)
  /\ UNCHANGED <<tables, money, ledger, outside, edits, posted>>

Next ==
  \/ \E w \in Workers, o \in Orders : CreateFromOrder(w, o)
  \/ \E w \in Workers, i \in Rows : TakeRow(w, i) \/ RefuseRow(w, i)
  \/ \E w \in Workers, r \in Requests : TakeTask(w, r) \/ LoadEdit(w, r)
  \/ \E w \in Workers, e \in Recipients : SendCode(w, e)
  \/ \E w \in Workers :
       \/ InsertRequest(w) \/ AddLines(w) \/ NamedLinesFail(w) \/ LostRequest(w)
       \/ SaveCreated(w) \/ LoadCreated(w) \/ AutoApprove(w) \/ CreateDone(w)
       \/ PrerequisitesHold(w) \/ PrerequisitesFail(w)
       \/ Approve(w) \/ ApproveLines(w) \/ Enqueue(w)
       \/ Process(w) \/ SumLines(w) \/ SumCancels(w) \/ SumFails(w) \/ CannotProcess(w)
       \/ GatewayAccepts(w) \/ GatewayRefuses(w)
       \/ ApplyRefund(w) \/ Commit(w) \/ Report(w)
       \/ SaveEdit(w) \/ Crash(w)
  \/ \E r \in Requests : DeleteRequest(r)
  \/ \E r \in Requests, l \in Lines, amount \in {{}, {Custom}, {Null}} :
       PostLine(r, l, amount)

Spec == Init /\ [][Next]_vars

-----------------------------------------------------------------------------
(* Properties.                                                             *)

\* The gateway makes one refund at most for a request: what approves it
\* either processes it or queues the one task that does.
RequestRefundedOnce == \A a, b \in ledger : a.request = b.request => a = b

\* A refund transaction stands for money the gateway returned, for the same
\* request and the same lines.
RecordedRefund ==
  \A t \in txns : \E a \in ledger : a.request = t.request /\ a.lines = t.amount

\* A completed request has refunded its order, told the integrated system,
\* and has its transaction if it was for anything, unless users have added
\* rows to it.
HasRefunded(r) ==
  /\ ostate[rorder[r]] = "refunded"
  /\ webhook[r] = 1
  /\ r \notin posted =>
       Zero(rapproved[r]) \/ [request |-> r, amount |-> rapproved[r]] \in txns

CompleteIsRefunded ==
  \A r \in Requests : rstatus[r] = "approved-complete" => HasRefunded(r)

\* The integrated system hears of a request once at most, whatever crashes.
WebhookOnce == \A r \in Requests : webhook[r] <= 1

\* An order is refunded as often as sheet runs work at the same time, once
\* more for each one that dies between the gateway and its commit, and once
\* for each request of it that users have added rows to: those may be
\* processed for an amount that no sheet run and nobody else has approved.
RefundsBounded ==
  \A o \in Orders :
    Cardinality({a \in ledger : rorder[a.request] = o})
      <= Cardinality(SheetWorkers) + faults + Cardinality({r \in posted : rorder[r] = o})

\* Only requests that wait for a decision have access codes, unless their
\* customer has edited them.
CodesForOpen == \A c \in codes : c[1] \notin edits => rstatus[c[1]] = "created"

\* A request that its customer has not edited is never taken back: what is
\* complete stays so until it is deleted, and what is approved is not CREATED
\* again unless it was deleted.
StatusPath ==
  [][\A r \in Requests \ edits :
       /\ rstatus[r] = "approved-complete" => rstatus'[r] \in {"approved-complete", "deleted"}
       /\ rstatus[r] = "approved" => rstatus'[r] \notin {"absent", "created"}]_vars

\* A line is refunded once: a row that is run again after its refund must
\* fail (refunds/api_test.py, test_process_gsheet_request_row with test_rerun).
LineRefundedOnce == \A a, b \in ledger : a.lines \cap b.lines \cap Lines # {} => a = b

-----------------------------------------------------------------------------
(* The inductive invariant: a request is in one pair of hands.             *)

\* Stages in which a worker may still change its request: before approval,
\* after it, and around the gateway.
Opening    == {"lines", "save", "hook", "total", "check", "approve"}
Approved   == {"amounts", "enqueue", "process", "sum", "gateway", "apply", "commit"}
Handling   == Opening \cup Approved
Untouched  == Handling \ {"apply", "commit"}

\* The gateway has not been asked to refund r.
NotAsked(r) == \A a \in ledger : a.request # r
Handled(r)  == \E w \in Workers : pc[w] \in Handling /\ wreq[w] = r

AssignedWork ==
  \A w \in Workers :
    /\ pc[w] = "insert" => word[w] \in Orders
    /\ pc[w] \in Handling \cup {"codes", "edit"} => wreq[w] \in Requests
    /\ pc[w] = "edit" => /\ wstatus[w] \in Statuses \ {"absent", "deleted"}
                         /\ wreq[w] \in edits
    /\ pc[w] = "report" => wrow[w] \in Rows
    /\ wreq[w] \in Requests => rstatus[wreq[w]] # "absent"

\* Of a request that does not exist there is nothing.
NoTrace ==
  \A r \in Requests :
    /\ rstatus[r] = "absent" => /\ NotAsked(r)
                                /\ webhook[r] = 0
                                /\ queue[r] = 0
                                /\ \A c \in codes : c[1] # r
    /\ rstatus[r] # "absent" => rorder[r] \in Orders

\* While a request is open, nobody else works on it in any way.
OneHandler ==
  \A v, w \in Workers :
    /\ wreq[v] = wreq[w]
    /\ \/ pc[v] \in Handling /\ pc[w] \in Handling
       \/ pc[v] \in Opening /\ pc[w] = "codes"
    => v = w

\* A queued request is approved (or edited), untouched, and nobody else's.
QueuedWork ==
  \A r \in Requests : queue[r] > 0 =>
    /\ queue[r] = 1
    /\ ~ Handled(r)
    /\ r \in edits \/ rstatus[r] \in {"approved", "deleted"}
    /\ NotAsked(r)
    /\ webhook[r] = 0

HandledStatus ==
  \A w \in Workers :
    /\ wreq[w] \notin edits =>
         /\ pc[w] \in Opening  => rstatus[wreq[w]] \in {"created", "deleted"}
         /\ pc[w] \in Approved => rstatus[wreq[w]] \in {"approved", "deleted"}
    /\ pc[w] \in Untouched => NotAsked(wreq[w]) /\ webhook[wreq[w]] = 0
    /\ pc[w] = "apply" => webhook[wreq[w]] = 0
    /\ pc[w] = "commit" => webhook[wreq[w]] = 1

\* What was asked of the gateway is what was approved, unless the customer
\* has deleted it since, or users have added rows to it.  Only those have
\* amounts of their own.
AskedAmount ==
  /\ \A r \in Requests \ posted : rapproved[r] \subseteq Lines
  /\ \A w \in Workers :
       /\ pc[w] \in {"gateway", "apply", "commit"} /\ wreq[w] \notin posted =>
            rapproved[wreq[w]] = wamount[w] \/ rapproved[wreq[w]] = {}
       /\ pc[w] \in {"apply", "commit"} =>
            \/ Zero(wamount[w])
            \/ \E a \in ledger : a.request = wreq[w] /\ a.lines = wamount[w]

\* Requests with codes, or about to get some, are left alone but for edits.
CodesLeftAlone ==
  /\ \A c \in codes : c[1] \notin edits => rstatus[c[1]] = "created" /\ ~ Handled(c[1])
  /\ \A w \in Workers :
       pc[w] = "codes" /\ rstatus[wreq[w]] = "created" /\ wreq[w] \notin edits
         => ~ Handled(wreq[w])

\* An edit makes a request complete only if it has been complete.
CompleteEdits ==
  \A w \in Workers :
    pc[w] = "edit" /\ wstatus[w] = "approved-complete" => HasRefunded(wreq[w])

RefundInv ==
  /\ TypeOK /\ AssignedWork /\ NoTrace /\ OneHandler /\ QueuedWork /\ HandledStatus
  /\ AskedAmount /\ CodesLeftAlone /\ CompleteEdits
  /\ RequestRefundedOnce /\ RecordedRefund /\ CompleteIsRefunded /\ WebhookOnce

=============================================================================
