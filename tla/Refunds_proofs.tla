---------------------------- MODULE Refunds_proofs ----------------------------
(***************************************************************************)
(* Proofs about Refunds, for every number of orders, rows, workers,        *)
(* requests and crashes.                                                   *)
(*                                                                         *)
(* RefundInv is shown to be inductive, one lemma for each action.  What    *)
(* carries the argument is that a request is in one pair of hands: a       *)
(* worker's (OneHandler), or the queue's (QueuedWork), and goes from one   *)
(* to the other in one step.  Whoever has it knows how far it has come     *)
(* (HandledStatus), so the gateway is asked, and the hooks run, once.      *)
(***************************************************************************)
EXTENDS Refunds, FiniteSetTheorems, TLAPS

USE DEF Requests, Amounts, tables, money, outside, history, locals, At, HasRefunded

-----------------------------------------------------------------------------
(* Steps that end, or only move on, what a worker does.                    *)

LEMMA RowsUntouched ==
  ASSUME NoTrace, RequestRefundedOnce, RecordedRefund, CompleteIsRefunded, WebhookOnce,
         UNCHANGED <<tables, money, ledger, outside, posted>>
  PROVE  /\ NoTrace' /\ RequestRefundedOnce' /\ RecordedRefund'
         /\ CompleteIsRefunded' /\ WebhookOnce'
BY DEF NoTrace, NotAsked, RequestRefundedOnce, RecordedRefund, CompleteIsRefunded, WebhookOnce

\* A request, task or row ends, and nothing else happens.
LEMMA FinishKeeps ==
  ASSUME RefundInv, NEW w \in Workers, Finish(w), faults' \in 0 .. MaxFaults,
         UNCHANGED <<tables, money, ledger, outside, edits, posted>>
  PROVE  RefundInv'
<1>1. TypeOK'
  BY DEF RefundInv, TypeOK, Finish, Stages
<1>2. AssignedWork'
  BY RefundNone DEF RefundInv, AssignedWork, TypeOK, Finish, Handling, Opening, Approved
<1>3. OneHandler'
  BY DEF RefundInv, OneHandler, TypeOK, Finish, Handling, Opening, Approved
<1>4. QueuedWork'
  BY DEF RefundInv, QueuedWork, TypeOK, Finish, Handled, Handling, Opening, Approved,
         NotAsked, Untouched
<1>5. HandledStatus'
  BY DEF RefundInv, HandledStatus, TypeOK, Finish, Handling, Opening, Approved,
         Untouched, NotAsked
<1>6. AskedAmount' /\ CompleteEdits'
  BY DEF RefundInv, AskedAmount, CompleteEdits, TypeOK, Finish
<1>7. CodesLeftAlone'
  BY DEF RefundInv, CodesLeftAlone, TypeOK, Finish, Handled, Handling, Opening, Approved
<1>8. /\ NoTrace' /\ RequestRefundedOnce' /\ RecordedRefund' /\ CompleteIsRefunded'
      /\ WebhookOnce'
  BY RowsUntouched DEF RefundInv
<1>9. QED BY <1>1, <1>2, <1>3, <1>4, <1>5, <1>6, <1>7, <1>8 DEF RefundInv

\* A row gets its result, which is not noted yet.
LEMMA ReturnKeeps ==
  ASSUME RefundInv, NEW w \in Workers, wrow[w] # None,
         NEW result \in Results, Return(w, result),
         UNCHANGED <<tables, money, ledger, outside, history>>
  PROVE  RefundInv'
<1>1. TypeOK'
  BY DEF RefundInv, TypeOK, Return, Stages
<1>2. AssignedWork'
  BY DEF RefundInv, AssignedWork, TypeOK, Return, Handling, Opening, Approved
<1>3. OneHandler'
  BY DEF RefundInv, OneHandler, TypeOK, Return, Handling, Opening, Approved
<1>4. QueuedWork'
  BY DEF RefundInv, QueuedWork, TypeOK, Return, Handled, Handling, Opening, Approved,
         NotAsked, Untouched
<1>5. HandledStatus'
  BY DEF RefundInv, HandledStatus, TypeOK, Return, Handling, Opening, Approved,
         Untouched, NotAsked
<1>6. AskedAmount' /\ CompleteEdits'
  BY DEF RefundInv, AskedAmount, CompleteEdits, TypeOK, Return
<1>7. CodesLeftAlone'
  BY DEF RefundInv, CodesLeftAlone, TypeOK, Return, Handled, Handling, Opening, Approved
<1>8. /\ NoTrace' /\ RequestRefundedOnce' /\ RecordedRefund' /\ CompleteIsRefunded'
      /\ WebhookOnce'
  BY RowsUntouched DEF RefundInv
<1>9. QED BY <1>1, <1>2, <1>3, <1>4, <1>5, <1>6, <1>7, <1>8 DEF RefundInv

LEMMA CreateFromOrderKeeps ==
  ASSUME RefundInv, NEW w \in Workers, NEW o \in Orders, CreateFromOrder(w, o)
  PROVE  RefundInv'
<1>1. TypeOK'
  BY DEF RefundInv, TypeOK, CreateFromOrder, Stages
<1>2. AssignedWork'
  BY DEF RefundInv, AssignedWork, TypeOK, CreateFromOrder, Handling, Opening, Approved
<1>3. OneHandler'
  BY DEF RefundInv, OneHandler, TypeOK, CreateFromOrder, Handling, Opening, Approved
<1>4. QueuedWork'
  BY DEF RefundInv, QueuedWork, TypeOK, CreateFromOrder, Handled, Handling, Opening,
         Approved, NotAsked, Untouched
<1>5. HandledStatus'
  BY DEF RefundInv, HandledStatus, TypeOK, CreateFromOrder, Handling, Opening, Approved,
         Untouched, NotAsked
<1>6. AskedAmount' /\ CompleteEdits'
  BY DEF RefundInv, AskedAmount, CompleteEdits, TypeOK, CreateFromOrder
<1>7. CodesLeftAlone'
  BY DEF RefundInv, CodesLeftAlone, TypeOK, CreateFromOrder, Handled, Handling, Opening,
         Approved
<1>8. /\ NoTrace' /\ RequestRefundedOnce' /\ RecordedRefund' /\ CompleteIsRefunded'
      /\ WebhookOnce'
  BY RowsUntouched DEF RefundInv, CreateFromOrder
<1>9. QED BY <1>1, <1>2, <1>3, <1>4, <1>5, <1>6, <1>7, <1>8 DEF RefundInv

LEMMA TakeRowKeeps ==
  ASSUME RefundInv, NEW w \in Workers, NEW i \in Rows, TakeRow(w, i)
  PROVE  RefundInv'
<1>1. TypeOK'
  BY RefundConstants DEF RefundInv, TypeOK, TakeRow, HandOut, Stages
<1>2. AssignedWork'
  BY RefundConstants
  DEF RefundInv, AssignedWork, TypeOK, TakeRow, HandOut, Handling, Opening, Approved
<1>3. OneHandler'
  BY DEF RefundInv, OneHandler, TypeOK, TakeRow, HandOut, Handling, Opening, Approved
<1>4. QueuedWork'
  BY DEF RefundInv, QueuedWork, TypeOK, TakeRow, HandOut, Handled, Handling, Opening,
         Approved, NotAsked, Untouched
<1>5. HandledStatus'
  BY DEF RefundInv, HandledStatus, TypeOK, TakeRow, HandOut, Handling, Opening, Approved,
         Untouched, NotAsked
<1>6. AskedAmount' /\ CompleteEdits'
  BY DEF RefundInv, AskedAmount, CompleteEdits, TypeOK, TakeRow, HandOut
<1>7. CodesLeftAlone'
  BY DEF RefundInv, CodesLeftAlone, TypeOK, TakeRow, HandOut, Handled, Handling, Opening,
         Approved
<1>8. /\ NoTrace' /\ RequestRefundedOnce' /\ RecordedRefund' /\ CompleteIsRefunded'
      /\ WebhookOnce'
  BY RowsUntouched DEF RefundInv, TakeRow
<1>9. QED BY <1>1, <1>2, <1>3, <1>4, <1>5, <1>6, <1>7, <1>8 DEF RefundInv

LEMMA RefuseRowKeeps ==
  ASSUME RefundInv, NEW w \in Workers, NEW i \in Rows, RefuseRow(w, i)
  PROVE  RefundInv'
<1>1. TypeOK'
  BY DEF RefundInv, TypeOK, RefuseRow, HandOut, Stages, Results, Statuses
<1>2. AssignedWork'
  BY DEF RefundInv, AssignedWork, TypeOK, RefuseRow, HandOut, Handling, Opening, Approved
<1>3. OneHandler'
  BY DEF RefundInv, OneHandler, TypeOK, RefuseRow, HandOut, Handling, Opening, Approved
<1>4. QueuedWork'
  BY DEF RefundInv, QueuedWork, TypeOK, RefuseRow, HandOut, Handled, Handling, Opening,
         Approved, NotAsked, Untouched
<1>5. HandledStatus'
  BY DEF RefundInv, HandledStatus, TypeOK, RefuseRow, HandOut, Handling, Opening,
         Approved, Untouched, NotAsked
<1>6. AskedAmount' /\ CompleteEdits'
  BY DEF RefundInv, AskedAmount, CompleteEdits, TypeOK, RefuseRow, HandOut
<1>7. CodesLeftAlone'
  BY DEF RefundInv, CodesLeftAlone, TypeOK, RefuseRow, HandOut, Handled, Handling,
         Opening, Approved
<1>8. /\ NoTrace' /\ RequestRefundedOnce' /\ RecordedRefund' /\ CompleteIsRefunded'
      /\ WebhookOnce'
  BY RowsUntouched DEF RefundInv, RefuseRow
<1>9. QED BY <1>1, <1>2, <1>3, <1>4, <1>5, <1>6, <1>7, <1>8 DEF RefundInv

\* Steps that only look at the tables, and move on to the next stage.
LEMMA MovesKeep ==
  ASSUME RefundInv, NEW w \in Workers,
         LoadCreated(w) \/ AutoApprove(w) \/ PrerequisitesHold(w) \/ Process(w)
  PROVE  RefundInv'
<1>1. PICK stage :
        /\ Goto(w, stage)
        /\ UNCHANGED <<tables, money, ledger, outside, history>>
        /\ \/ /\ pc[w] \in {"hook", "total", "check"}
              /\ stage \in {"total", "check", "approve", "codes"}
           \/ pc[w] = "process" /\ stage = "sum"
  BY DEF LoadCreated, AutoApprove, PrerequisitesHold, Process
<1>2. TypeOK'
  BY <1>1 DEF RefundInv, TypeOK, Goto, Stages
<1>3. AssignedWork'
  BY <1>1 DEF RefundInv, AssignedWork, TypeOK, Goto, Handling, Opening, Approved
<1>4. OneHandler'
  BY <1>1 DEF RefundInv, OneHandler, TypeOK, Goto, Handling, Opening, Approved
<1>5. QueuedWork'
  BY <1>1 DEF RefundInv, QueuedWork, TypeOK, Goto, Handled, Handling, Opening, Approved,
              NotAsked
<1>6. HandledStatus'
  BY <1>1 DEF RefundInv, HandledStatus, TypeOK, Goto, Handling, Opening, Approved, Untouched,
              NotAsked
<1>7. AskedAmount' /\ CompleteEdits'
  BY <1>1 DEF RefundInv, AskedAmount, CompleteEdits, TypeOK, Goto
<1>8. CodesLeftAlone'
  BY <1>1 DEF RefundInv, CodesLeftAlone, OneHandler, TypeOK, Goto, Handled, Handling, Opening,
              Approved
<1>9. /\ NoTrace' /\ RequestRefundedOnce' /\ RecordedRefund' /\ CompleteIsRefunded'
      /\ WebhookOnce'
  BY <1>1, RowsUntouched DEF RefundInv, Goto
<1>10. QED BY <1>2, <1>3, <1>4, <1>5, <1>6, <1>7, <1>8, <1>9 DEF RefundInv

\* What is asked for is what is approved now, or nothing.
LEMMA SumLinesKeeps ==
  ASSUME RefundInv, NEW w \in Workers, SumLines(w) \/ SumCancels(w)
  PROVE  RefundInv'
<1>1. pc[w] = "sum" /\ wreq[w] \in Requests
  BY DEF SumLines, SumCancels, RefundInv, AssignedWork, Handling, Approved
<1>2. PICK amount \in Amounts :
        /\ wamount' = [wamount EXCEPT ![w] = amount]
        /\ pc' = [pc EXCEPT ![w] = IF Zero(amount) THEN "apply" ELSE "gateway"]
        /\ wreq[w] \notin posted => amount = rapproved[wreq[w]]
        /\ UNCHANGED <<tables, money, ledger, outside, history, word, wreq, wrow, wresult,
                       wstatus>>
  <2>1. CASE SumLines(w)
    <3>1. rapproved[wreq[w]] \in Amounts
      BY <1>1 DEF RefundInv, TypeOK
    <3>2. QED BY <2>1, <3>1 DEF SumLines
  <2>2. CASE SumCancels(w)
    <3>1. wreq[w] \in posted
      BY <1>1, <2>2, RefundNone DEF SumCancels, RefundInv, AskedAmount
    <3>2. Zero({}) /\ {} \in Amounts
      BY DEF Zero
    <3>3. QED BY <2>2, <3>1, <3>2 DEF SumCancels
  <2>3. QED BY <2>1, <2>2
<1>3. TypeOK'
  BY <1>2 DEF RefundInv, TypeOK, Stages
<1>4. AssignedWork'
  BY <1>1, <1>2 DEF RefundInv, AssignedWork, TypeOK, Handling, Opening, Approved
<1>5. OneHandler'
  BY <1>1, <1>2 DEF RefundInv, OneHandler, TypeOK, Handling, Opening, Approved
<1>6. QueuedWork'
  BY <1>1, <1>2 DEF RefundInv, QueuedWork, TypeOK, Handled, Handling, Opening, Approved,
                    NotAsked, Untouched
<1>7. HandledStatus'
  BY <1>1, <1>2 DEF RefundInv, HandledStatus, TypeOK, Handling, Opening, Approved, Untouched,
                    NotAsked
<1>8. AskedAmount' /\ CompleteEdits'
  BY <1>1, <1>2 DEF RefundInv, AskedAmount, CompleteEdits, TypeOK
<1>9. CodesLeftAlone'
  BY <1>1, <1>2 DEF RefundInv, CodesLeftAlone, TypeOK, Handled, Handling, Opening, Approved
<1>10. /\ NoTrace' /\ RequestRefundedOnce' /\ RecordedRefund' /\ CompleteIsRefunded'
       /\ WebhookOnce'
  BY <1>2, RowsUntouched DEF RefundInv
<1>11. QED BY <1>3, <1>4, <1>5, <1>6, <1>7, <1>8, <1>9, <1>10 DEF RefundInv

\* A queued request changes hands, from the queue to the worker.
LEMMA TakeTaskKeeps ==
  ASSUME RefundInv, NEW w \in Workers, NEW r \in Requests, TakeTask(w, r)
  PROVE  RefundInv'
<1>1. TypeOK'
  BY DEF RefundInv, TypeOK, TakeTask, Stages
<1>2. AssignedWork'
  BY DEF RefundInv, AssignedWork, NoTrace, TypeOK, TakeTask, Handling, Opening, Approved
<1>3. NoTrace'
  BY DEF RefundInv, NoTrace, TypeOK, TakeTask, NotAsked
<1>4. OneHandler'
  BY DEF RefundInv, OneHandler, TypeOK, TakeTask, Handling, Opening, Approved,
         AssignedWork, Untouched, NotAsked, Handled, QueuedWork
<1>5. QueuedWork'
  BY DEF RefundInv, QueuedWork, TypeOK, TakeTask, Handled, Handling, Opening, Approved,
         NotAsked, Untouched
<1>6. HandledStatus'
  BY DEF RefundInv, HandledStatus, QueuedWork, TypeOK, TakeTask, NotAsked,
         Handling, Opening, Approved, Untouched
<1>7. AskedAmount' /\ CompleteEdits'
  BY DEF RefundInv, AskedAmount, CompleteEdits, TypeOK, TakeTask
<1>8. CodesLeftAlone'
  BY DEF RefundInv, CodesLeftAlone, QueuedWork, AssignedWork, TypeOK, TakeTask, Handled,
         Handling, Opening, Approved
<1>9. RequestRefundedOnce' /\ RecordedRefund' /\ CompleteIsRefunded' /\ WebhookOnce'
  BY DEF RefundInv, RequestRefundedOnce, RecordedRefund, CompleteIsRefunded, WebhookOnce,
         TakeTask
<1>10. QED BY <1>1, <1>2, <1>3, <1>4, <1>5, <1>6, <1>7, <1>8, <1>9 DEF RefundInv

LEMMA SendCodeKeeps ==
  ASSUME RefundInv, NEW w \in Workers, NEW e \in Recipients, SendCode(w, e)
  PROVE  RefundInv'
<1>1. TypeOK'
  BY DEF RefundInv, TypeOK, SendCode, Stages, Results, Statuses, AssignedWork, Handling,
         Opening, Approved
<1>2. NoTrace'
  BY DEF RefundInv, NoTrace, TypeOK, SendCode, NotAsked
<1>3. CodesLeftAlone'
  BY DEF RefundInv, CodesLeftAlone, TypeOK, SendCode, Handled
<1>4. /\ AssignedWork' /\ OneHandler' /\ QueuedWork' /\ HandledStatus' /\ AskedAmount'
      /\ CompleteEdits' /\ RequestRefundedOnce' /\ RecordedRefund' /\ CompleteIsRefunded'
      /\ WebhookOnce'
  BY DEF RefundInv, AssignedWork, OneHandler, QueuedWork, HandledStatus, AskedAmount,
         CompleteEdits, RequestRefundedOnce, RecordedRefund, CompleteIsRefunded, WebhookOnce,
         SendCode, NotAsked, Handled
<1>5. QED BY <1>1, <1>2, <1>3, <1>4 DEF RefundInv

\* A new request is nobody else's, because there was no trace of it.
LEMMA InsertRequestKeeps ==
  ASSUME RefundInv, NEW w \in Workers, InsertRequest(w)
  PROVE  RefundInv'
<1>1. TypeOK'
  BY DEF RefundInv, TypeOK, InsertRequest, Stages, Results, Statuses
<1>2. AssignedWork'
  BY DEF RefundInv, AssignedWork, TypeOK, InsertRequest
<1>3. NoTrace'
  BY DEF RefundInv, NoTrace, TypeOK, InsertRequest, NotAsked, Handling, Opening,
         Approved, AssignedWork
<1>4. OneHandler'
  BY DEF RefundInv, OneHandler, TypeOK, InsertRequest, Handling, Opening, Approved,
         AssignedWork
<1>5. QueuedWork'
  BY DEF RefundInv, QueuedWork, NoTrace, TypeOK, InsertRequest, Handled, Handling, Opening,
         Approved, NotAsked
<1>6. HandledStatus'
  BY DEF RefundInv, HandledStatus, NoTrace, AssignedWork, TypeOK, InsertRequest, NotAsked,
         Handling, Opening, Approved, Untouched
<1>7. AskedAmount' /\ CompleteEdits'
  BY DEF RefundInv, AskedAmount, CompleteEdits, AssignedWork, TypeOK, InsertRequest, Handling
<1>8. CodesLeftAlone'
  BY DEF RefundInv, CodesLeftAlone, TypeOK, InsertRequest, Handled, Handling, Opening,
         Approved, AssignedWork
<1>9. CompleteIsRefunded'
  BY DEF RefundInv, CompleteIsRefunded, InsertRequest
<1>10. RequestRefundedOnce' /\ RecordedRefund' /\ WebhookOnce'
  BY DEF RefundInv, RequestRefundedOnce, RecordedRefund, WebhookOnce, InsertRequest
<1>11. QED BY <1>1, <1>2, <1>3, <1>4, <1>5, <1>6, <1>7, <1>8, <1>9, <1>10 DEF RefundInv

LEMMA AddLinesKeeps ==
  ASSUME RefundInv, NEW w \in Workers, AddLines(w)
  PROVE  RefundInv'
<1>1. TypeOK'
  <2>1. wreq[w] \in Requests
    BY DEF RefundInv, AssignedWork, AddLines, Handling, Opening
  <2>2. LinesOf(word[w]) \subseteq Lines
    BY DEF LinesOf
  <2>3. wrow[w] # None => RowLine[wrow[w]] \in Lines
    BY RefundConstants DEF RefundInv, TypeOK
  <2>4. rlines' \in [Requests -> SUBSET Lines]
    BY <2>1, <2>2, <2>3, RefundNone DEF RefundInv, TypeOK, AddLines
  <2>5. pc' \in [Workers -> Stages]
    BY DEF RefundInv, TypeOK, AddLines, Goto, Stages
  <2>6. QED
    BY <2>4, <2>5 DEF RefundInv, TypeOK, AddLines, Goto
<1>2. AssignedWork'
  BY DEF RefundInv, AssignedWork, TypeOK, AddLines, Goto, Handling, Opening, Approved
<1>3. OneHandler'
  BY DEF RefundInv, OneHandler, TypeOK, AddLines, Goto, Handling, Opening, Approved
<1>4. QueuedWork'
  BY DEF RefundInv, QueuedWork, TypeOK, AddLines, Goto, Handled, Handling, Opening,
         Approved, NotAsked, Untouched
<1>5. HandledStatus'
  BY DEF RefundInv, HandledStatus, TypeOK, AddLines, Goto, Handling, Opening, Approved,
         Untouched, NotAsked
<1>6. AskedAmount' /\ CompleteEdits'
  BY DEF RefundInv, AskedAmount, CompleteEdits, TypeOK, AddLines, Goto
<1>7. CodesLeftAlone'
  BY DEF RefundInv, CodesLeftAlone, TypeOK, AddLines, Goto, Handled, Handling, Opening,
         Approved
<1>8. /\ NoTrace' /\ RequestRefundedOnce' /\ RecordedRefund' /\ CompleteIsRefunded'
      /\ WebhookOnce'
  BY DEF RefundInv, AddLines, NoTrace, NotAsked, RequestRefundedOnce, RecordedRefund,
         CompleteIsRefunded, WebhookOnce
<1>9. QED BY <1>1, <1>2, <1>3, <1>4, <1>5, <1>6, <1>7, <1>8 DEF RefundInv

\* Open again, the request is still in nobody else's hands.
LEMMA SaveCreatedKeeps ==
  ASSUME RefundInv, NEW w \in Workers, SaveCreated(w)
  PROVE  RefundInv'
<1>1. TypeOK'
  BY DEF RefundInv, TypeOK, SaveCreated, Goto, Stages, Results, Statuses
<1>2. AssignedWork'
  BY DEF RefundInv, AssignedWork, TypeOK, SaveCreated, Goto, Handling, Opening, Approved
<1>3. NoTrace'
  BY DEF RefundInv, NoTrace, TypeOK, SaveCreated, Goto, NotAsked, Handling, Opening,
         Approved, AssignedWork
<1>4. OneHandler'
  BY DEF RefundInv, OneHandler, TypeOK, SaveCreated, Goto, Handling, Opening, Approved
<1>5. QueuedWork'
  BY DEF RefundInv, QueuedWork, TypeOK, SaveCreated, Goto, Handled, Handling, Opening,
         Approved, NotAsked, Untouched
<1>6. HandledStatus'
  BY DEF RefundInv, HandledStatus, TypeOK, SaveCreated, Goto, Handling, Opening, Approved,
         Untouched, NotAsked, AssignedWork, OneHandler
<1>7. AskedAmount' /\ CompleteEdits'
  BY DEF RefundInv, AskedAmount, CompleteEdits, TypeOK, SaveCreated, Goto
<1>8. CodesLeftAlone'
  BY DEF RefundInv, CodesLeftAlone, OneHandler, AssignedWork, TypeOK, SaveCreated, Goto,
         Handled, Handling, Opening, Approved
<1>9. CompleteIsRefunded'
  BY DEF RefundInv, CompleteIsRefunded, SaveCreated, Goto
<1>10. RequestRefundedOnce' /\ RecordedRefund' /\ WebhookOnce'
  BY DEF RefundInv, RequestRefundedOnce, RecordedRefund, WebhookOnce, SaveCreated
<1>11. QED BY <1>1, <1>2, <1>3, <1>4, <1>5, <1>6, <1>7, <1>8, <1>9, <1>10 DEF RefundInv

\* Codes have been sent for requests nobody handles; this one is handled.
LEMMA ApproveKeeps ==
  ASSUME RefundInv, NEW w \in Workers, Approve(w)
  PROVE  RefundInv'
<1>1. TypeOK'
  BY DEF RefundInv, TypeOK, Approve, Goto, Stages, Results, Statuses
<1>2. AssignedWork'
  BY DEF RefundInv, AssignedWork, TypeOK, Approve, Goto, Handling, Opening, Approved
<1>3. NoTrace'
  BY DEF RefundInv, NoTrace, TypeOK, Approve, Goto, NotAsked, Handling, Opening,
         Approved, AssignedWork
<1>4. OneHandler'
  BY DEF RefundInv, OneHandler, TypeOK, Approve, Goto, Handling, Opening, Approved
<1>5. QueuedWork'
  BY DEF RefundInv, QueuedWork, TypeOK, Approve, Goto, Handled, Handling, Opening,
         Approved, NotAsked, Untouched
<1>6. HandledStatus'
  BY DEF RefundInv, HandledStatus, TypeOK, Approve, Goto, Handling, Opening, Approved,
         Untouched, NotAsked, AssignedWork, OneHandler
<1>7. AskedAmount' /\ CompleteEdits'
  BY DEF RefundInv, AskedAmount, CompleteEdits, TypeOK, Approve, Goto
<1>8. CodesLeftAlone'
  BY DEF RefundInv, CodesLeftAlone, TypeOK, Approve, Goto, Handled, Handling, Opening,
         Approved
<1>9. CompleteIsRefunded'
  BY DEF RefundInv, CompleteIsRefunded, Approve, Goto
<1>10. RequestRefundedOnce' /\ RecordedRefund' /\ WebhookOnce'
  BY DEF RefundInv, RequestRefundedOnce, RecordedRefund, WebhookOnce, Approve
<1>11. QED BY <1>1, <1>2, <1>3, <1>4, <1>5, <1>6, <1>7, <1>8, <1>9, <1>10 DEF RefundInv

LEMMA ApproveLinesKeeps ==
  ASSUME RefundInv, NEW w \in Workers, ApproveLines(w)
  PROVE  RefundInv'
<1>1. TypeOK'
  BY DEF RefundInv, TypeOK, ApproveLines, Goto, Stages
<1>2. AssignedWork'
  BY DEF RefundInv, AssignedWork, TypeOK, ApproveLines, Goto, Handling, Opening, Approved
<1>3. OneHandler'
  BY DEF RefundInv, OneHandler, TypeOK, ApproveLines, Goto, Handling, Opening, Approved
<1>4. QueuedWork'
  BY DEF RefundInv, QueuedWork, TypeOK, ApproveLines, Goto, Handled, Handling, Opening,
         Approved, NotAsked, Untouched
<1>5. HandledStatus'
  BY DEF RefundInv, HandledStatus, TypeOK, ApproveLines, Goto, Handling, Opening,
         Approved, Untouched, NotAsked
<1>6. AskedAmount'
  BY DEF RefundInv, AskedAmount, TypeOK, ApproveLines, Goto, Handling, Opening, Approved,
         OneHandler
<1>7. CodesLeftAlone'
  BY DEF RefundInv, CodesLeftAlone, TypeOK, ApproveLines, Goto, Handled, Handling,
         Opening, Approved
<1>8. CompleteIsRefunded' /\ CompleteEdits'
  <2>1. wreq[w] \in Requests /\ webhook[wreq[w]] = 0
    BY DEF RefundInv, HandledStatus, AssignedWork, ApproveLines, Handling, Opening, Approved,
           Untouched
  <2>2. /\ \A r \in Requests : r # wreq[w] => rapproved'[r] = rapproved[r]
        /\ UNCHANGED <<rstatus, rorder, ostate, txns, webhook, posted>>
    BY DEF RefundInv, TypeOK, ApproveLines
  <2>3. ASSUME NEW r \in Requests, HasRefunded(r) PROVE HasRefunded(r)'
    <3>1. r # wreq[w]
      BY <2>1, <2>3
    <3>2. rapproved'[r] = rapproved[r]
      BY <2>2, <3>1
    <3>3. QED BY <2>2, <2>3, <3>2
  <2>4. CompleteIsRefunded'
    BY <2>2, <2>3 DEF RefundInv, CompleteIsRefunded
  <2>5. CompleteEdits'
    BY <2>3 DEF RefundInv, CompleteEdits, AssignedWork, TypeOK, ApproveLines, Goto
  <2>6. QED BY <2>4, <2>5
<1>9. NoTrace' /\ RequestRefundedOnce' /\ RecordedRefund' /\ WebhookOnce'
  BY DEF RefundInv, NoTrace, RequestRefundedOnce, RecordedRefund, WebhookOnce,
         ApproveLines, NotAsked
<1>10. QED BY <1>1, <1>2, <1>3, <1>4, <1>5, <1>6, <1>7, <1>8, <1>9 DEF RefundInv

\* A request changes hands, from its maker to the queue.
LEMMA EnqueueKeeps ==
  ASSUME RefundInv, NEW w \in Workers, Enqueue(w)
  PROVE  RefundInv'
<1>1. TypeOK'
  <2>1. wreq[w] \in Requests /\ queue[wreq[w]] \in Nat
    BY DEF RefundInv, TypeOK, AssignedWork, Handling, Approved, Enqueue
  <2>2. QED
    BY <2>1 DEF RefundInv, TypeOK, Enqueue, Goto, Stages
<1>2. AssignedWork'
  BY DEF RefundInv, AssignedWork, TypeOK, Enqueue, Goto, Handling, Opening, Approved
<1>3. NoTrace'
  BY DEF RefundInv, NoTrace, TypeOK, Enqueue, Goto, NotAsked, Handling, Opening,
         Approved, AssignedWork
<1>4. OneHandler'
  BY DEF RefundInv, OneHandler, TypeOK, Enqueue, Goto, Handling, Opening, Approved
<1>5. QueuedWork'
  BY DEF RefundInv, QueuedWork, HandledStatus, OneHandler, AssignedWork, TypeOK, Enqueue, Goto,
         Handled, NotAsked, Handling, Opening, Approved, Untouched
<1>6. HandledStatus'
  BY DEF RefundInv, HandledStatus, TypeOK, Enqueue, Goto, Handling, Opening, Approved,
         Untouched, NotAsked
<1>7. AskedAmount' /\ CompleteEdits'
  BY DEF RefundInv, AskedAmount, CompleteEdits, TypeOK, Enqueue, Goto
<1>8. CodesLeftAlone'
  BY DEF RefundInv, CodesLeftAlone, TypeOK, Enqueue, Goto, Handled, Handling, Opening,
         Approved, OneHandler
<1>9. RequestRefundedOnce' /\ RecordedRefund' /\ CompleteIsRefunded' /\ WebhookOnce'
  BY DEF RefundInv, RequestRefundedOnce, RecordedRefund, CompleteIsRefunded, WebhookOnce,
         Enqueue
<1>10. QED BY <1>1, <1>2, <1>3, <1>4, <1>5, <1>6, <1>7, <1>8, <1>9 DEF RefundInv

LEMMA ApplyRefundKeeps ==
  ASSUME RefundInv, NEW w \in Workers, ApplyRefund(w)
  PROVE  RefundInv'
<1>1. TypeOK'
  <2>1. wreq[w] \in Requests /\ webhook[wreq[w]] \in Nat
    BY DEF RefundInv, TypeOK, AssignedWork, Handling, Approved, ApplyRefund
  <2>2. webhook' \in [Requests -> Nat]
    BY <2>1 DEF RefundInv, TypeOK, ApplyRefund
  <2>3. pc' \in [Workers -> Stages]
    BY DEF RefundInv, TypeOK, ApplyRefund, Goto, Stages
  <2>4. QED BY <2>2, <2>3 DEF RefundInv, TypeOK, ApplyRefund, Goto
<1>2. AssignedWork'
  BY DEF RefundInv, AssignedWork, TypeOK, ApplyRefund, Goto, Handling, Opening, Approved
<1>3. NoTrace'
  BY DEF RefundInv, NoTrace, TypeOK, ApplyRefund, Goto, NotAsked, Handling, Opening,
         Approved, AssignedWork
<1>4. OneHandler'
  BY DEF RefundInv, OneHandler, TypeOK, ApplyRefund, Goto, Handling, Opening, Approved
<1>5. QueuedWork'
  BY DEF RefundInv, QueuedWork, TypeOK, ApplyRefund, Goto, Handled, Handling, Opening,
         Approved, NotAsked, Untouched
<1>6. HandledStatus'
  BY DEF RefundInv, HandledStatus, TypeOK, ApplyRefund, Goto, Handling, Opening,
         Approved, Untouched, NotAsked, AssignedWork, OneHandler
<1>7. AskedAmount' /\ CompleteEdits'
  BY DEF RefundInv, AskedAmount, CompleteEdits, HandledStatus, TypeOK, ApplyRefund, Goto
<1>8. CodesLeftAlone'
  BY DEF RefundInv, CodesLeftAlone, TypeOK, ApplyRefund, Goto, Handled, Handling,
         Opening, Approved
<1>9. CompleteIsRefunded'
  BY DEF RefundInv, CompleteIsRefunded, HandledStatus, AssignedWork, TypeOK, ApplyRefund,
         Handling, Opening, Approved
<1>10. WebhookOnce'
  BY DEF RefundInv, WebhookOnce, HandledStatus, AssignedWork, TypeOK, ApplyRefund,
         Handling, Opening, Approved
<1>11. RequestRefundedOnce' /\ RecordedRefund'
  BY DEF RefundInv, RequestRefundedOnce, RecordedRefund, ApplyRefund
<1>12. QED BY <1>1, <1>2, <1>3, <1>4, <1>5, <1>6, <1>7, <1>8, <1>9, <1>10, <1>11 DEF RefundInv

LEMMA ReportKeeps ==
  ASSUME RefundInv, NEW w \in Workers, Report(w)
  PROVE  RefundInv'
<1>1. TypeOK'
  BY DEF RefundInv, TypeOK, Report, Finish, Stages
<1>2. AssignedWork'
  BY RefundNone DEF RefundInv, AssignedWork, TypeOK, Report, Finish, Handling, Opening,
         Approved
<1>3. OneHandler'
  BY DEF RefundInv, OneHandler, TypeOK, Report, Finish, Handling, Opening, Approved
<1>4. QueuedWork'
  BY DEF RefundInv, QueuedWork, TypeOK, Report, Finish, Handled, Handling, Opening,
         Approved, NotAsked, Untouched
<1>5. HandledStatus'
  BY DEF RefundInv, HandledStatus, TypeOK, Report, Finish, Handling, Opening, Approved,
         Untouched, NotAsked
<1>6. AskedAmount' /\ CompleteEdits'
  BY DEF RefundInv, AskedAmount, CompleteEdits, TypeOK, Report, Finish
<1>7. CodesLeftAlone'
  BY DEF RefundInv, CodesLeftAlone, TypeOK, Report, Finish, Handled, Handling, Opening,
         Approved
<1>8. /\ NoTrace' /\ RequestRefundedOnce' /\ RecordedRefund' /\ CompleteIsRefunded'
      /\ WebhookOnce'
  BY DEF RefundInv, Report, NoTrace, NotAsked, RequestRefundedOnce, RecordedRefund,
         CompleteIsRefunded, WebhookOnce
<1>9. QED BY <1>1, <1>2, <1>3, <1>4, <1>5, <1>6, <1>7, <1>8 DEF RefundInv

LEMMA GatewayAcceptsKeeps ==
  ASSUME RefundInv, NEW w \in Workers, GatewayAccepts(w)
  PROVE  RefundInv'
<1> DEFINE r     == wreq[w]
           asked == [request |-> r, n |-> 1, lines |-> wamount[w]]
<1>1. r \in Requests /\ NotAsked(r)
  BY DEF RefundInv, AssignedWork, HandledStatus, GatewayAccepts,
         Handling, Opening, Approved, Untouched
<1>2. ledger' = ledger \cup {asked}
  <2>1. Refunded(r) = {}
    BY <1>1 DEF Refunded, NotAsked
  <2>2. Cardinality(Refunded(r)) + 1 = 1
    BY <2>1, FS_EmptySet
  <2>3. QED BY <2>2 DEF GatewayAccepts
<1>3. asked \in Ledger
  BY <1>1 DEF Ledger, RefundInv, TypeOK
<1>4. TypeOK'
  BY <1>2, <1>3 DEF RefundInv, TypeOK, GatewayAccepts, Goto, Stages
<1>5. AssignedWork'
  BY DEF RefundInv, AssignedWork, TypeOK, GatewayAccepts, Goto, Handling, Opening, Approved
<1>6. NoTrace'
  BY <1>1, <1>2 DEF RefundInv, NoTrace, NotAsked, AssignedWork, GatewayAccepts, Goto
<1>7. OneHandler'
  BY DEF RefundInv, OneHandler, TypeOK, GatewayAccepts, Goto, Handling, Opening, Approved
<1>8. QueuedWork'
  BY <1>1, <1>2 DEF RefundInv, QueuedWork, TypeOK, GatewayAccepts, Goto, Handled,
                    NotAsked, Handling, Opening, Approved
<1>9. HandledStatus'
  BY <1>1, <1>2 DEF RefundInv, HandledStatus, OneHandler, TypeOK, GatewayAccepts, Goto,
                    NotAsked, Handling, Opening, Approved, Untouched
<1>10. AskedAmount'
  <2>0. \A q \in Requests \ posted' : rapproved'[q] \subseteq Lines
    BY DEF RefundInv, AskedAmount, GatewayAccepts
  <2> SUFFICES ASSUME NEW v \in Workers
               PROVE  /\ pc'[v] \in {"gateway", "apply", "commit"} /\ wreq[v] \notin posted =>
                             rapproved[wreq[v]] = wamount[v] \/ rapproved[wreq[v]] = {}
                      /\ pc'[v] \in {"apply", "commit"} =>
                           \/ Zero(wamount[v])
                           \/ \E a \in ledger' : a.request = wreq[v] /\ a.lines = wamount[v]
    BY <2>0 DEF AskedAmount, GatewayAccepts, Goto
  <2>1. CASE v = w
    <3>1. asked \in ledger' /\ asked.request = wreq[v] /\ asked.lines = wamount[v]
      BY <1>2, <2>1
    <3>2. pc[v] = "gateway"
      BY <2>1 DEF GatewayAccepts
    <3>3. QED BY <3>1, <3>2 DEF RefundInv, AskedAmount
  <2>2. CASE v # w
    <3>1. pc'[v] = pc[v]
      BY <2>2 DEF RefundInv, TypeOK, GatewayAccepts, Goto
    <3>2. QED BY <1>2, <3>1 DEF RefundInv, AskedAmount
  <2>3. QED BY <2>1, <2>2
<1>11. CodesLeftAlone'
  BY DEF RefundInv, CodesLeftAlone, TypeOK, GatewayAccepts, Goto, Handled,
         Handling, Opening, Approved
<1>12. RequestRefundedOnce'
  BY <1>1, <1>2 DEF RefundInv, RequestRefundedOnce, NotAsked
<1>13. RecordedRefund' /\ CompleteIsRefunded' /\ WebhookOnce'
  BY <1>2 DEF RefundInv, RecordedRefund, CompleteIsRefunded, WebhookOnce, GatewayAccepts
<1>14. CompleteEdits'
  BY DEF RefundInv, CompleteEdits, TypeOK, GatewayAccepts, Goto
<1>15. QED
  BY <1>4, <1>5, <1>6, <1>7, <1>8, <1>9, <1>10, <1>11, <1>12, <1>13, <1>14 DEF RefundInv

\* The commit ends the work on a request; the others do not notice.
LEMMA CommitKeeps ==
  ASSUME RefundInv, NEW w \in Workers, Commit(w)
  PROVE  RefundInv'
<1> DEFINE r == wreq[w]
<1>1. /\ r \in Requests
      /\ r \in edits \/ rstatus[r] \in {"approved", "deleted"}
      /\ rstatus[r] # "absent"
      /\ webhook[r] = 1
      /\ r \notin posted => rapproved[r] = wamount[w] \/ rapproved[r] = {}
      /\ Zero(wamount[w]) \/ \E a \in ledger : a.request = r /\ a.lines = wamount[w]
  BY DEF RefundInv, AssignedWork, HandledStatus, AskedAmount, Commit, Handling, Opening, Approved
<1>2. rorder[r] \in Orders
  BY <1>1 DEF RefundInv, NoTrace
<1>3. /\ rstatus' = [rstatus EXCEPT ![r] = "approved-complete"]
      /\ ostate' = [ostate EXCEPT ![rorder[r]] = "refunded"]
      /\ txns' = IF Zero(wamount[w]) THEN txns
                 ELSE txns \cup {[request |-> r, amount |-> wamount[w]]}
      /\ UNCHANGED <<rorder, rlines, rapproved, codes, ledger, outside, history>>
  BY DEF Commit
<1>4. /\ pc'[w] \in {"idle", "report"}
      /\ pc'[w] = "report" => wrow'[w] \in Rows
      /\ wreq'[w] \in {r, None}
      /\ \A v \in Workers \ {w} :
           /\ pc'[v] = pc[v] /\ word'[v] = word[v] /\ wreq'[v] = wreq[v]
           /\ wrow'[v] = wrow[v] /\ wamount'[v] = wamount[v] /\ wstatus'[v] = wstatus[v]
  <2>1. CASE wrow[w] = None
    BY <2>1 DEF Commit, Finish, RefundInv, TypeOK
  <2>2. CASE wrow[w] # None
    BY <2>2 DEF Commit, Return, RefundInv, TypeOK
  <2>3. QED BY <2>1, <2>2
<1>5. TypeOK'
  <2>1. /\ pc' \in [Workers -> Stages]
        /\ word' \in [Workers -> Orders \cup {None}]
        /\ wreq' \in [Workers -> Requests \cup {None}]
        /\ wrow' \in [Workers -> Rows \cup {None}]
        /\ wamount' \in [Workers -> Amounts]
        /\ wresult' \in [Workers -> Results \cup {None}]
        /\ wstatus' \in [Workers -> Statuses \cup {None}]
    <3>1. TypeOK
      BY DEF RefundInv
    <3>2. Finish(w) \/ Return(w, "processed")
      BY DEF Commit
    <3>3. CASE Finish(w)
      BY <3>1, <3>3 DEF Finish, TypeOK, Stages
    <3>4. CASE Return(w, "processed")
      BY <3>1, <3>4 DEF Return, TypeOK, Stages, Results
    <3>5. QED BY <3>2, <3>3, <3>4
  <2>2. /\ rstatus' \in [Requests -> Statuses]
        /\ ostate' \in [Orders -> {"fulfilled", "refunded"}]
        /\ txns' \subseteq RefundTxns
    BY <1>1, <1>2, <1>3 DEF RefundInv, TypeOK, Statuses, RefundTxns
  <2>3. QED BY <2>1, <2>2, <1>3 DEF RefundInv, TypeOK
<1>6. AssignedWork'
  BY <1>1, <1>3, <1>4, RefundNone DEF RefundInv, TypeOK, AssignedWork, Handling, Opening, Approved
<1>7. NoTrace'
  BY <1>1, <1>3 DEF RefundInv, TypeOK, NoTrace, NotAsked
<1>8. OneHandler'
  BY <1>4 DEF RefundInv, OneHandler, Handling, Opening, Approved
<1>9. QueuedWork'
  <2>1. queue[r] = 0 \/ ~ queue[r] > 0
    BY <1>1 DEF RefundInv, QueuedWork
  <2>2. \A q \in Requests : ~ Handled(q) => ~ Handled(q)'
    BY <1>4 DEF Handled, Handling, Opening, Approved
  <2>3. QED
    BY <1>3, <2>1, <2>2 DEF RefundInv, TypeOK, QueuedWork, NotAsked
<1>10. HandledStatus'
  BY <1>1, <1>3, <1>4 DEF RefundInv, TypeOK, AssignedWork, OneHandler, HandledStatus,
                          NotAsked, Commit, Handling, Opening, Approved, Untouched
<1>11. AskedAmount'
  BY <1>3, <1>4 DEF RefundInv, AskedAmount
<1>12. CodesLeftAlone'
  <2>1. \A c \in codes : c[1] # r \/ r \in edits
    BY <1>1 DEF RefundInv, CodesLeftAlone
  <2>2. \A q : ~ Handled(q) => ~ Handled(q)'
    BY <1>4 DEF Handled, Handling, Opening, Approved
  <2>3. \A c \in codes' :
          c[1] \notin edits' => rstatus'[c[1]] = "created" /\ ~ Handled(c[1])'
    BY <1>3, <2>1, <2>2 DEF RefundInv, TypeOK, CodesLeftAlone
  <2>4. ASSUME NEW v \in Workers, pc'[v] = "codes", rstatus'[wreq'[v]] = "created",
               wreq'[v] \notin edits'
        PROVE  ~ Handled(wreq[v])' /\ wreq'[v] = wreq[v]
    <3>1. v # w /\ pc[v] = "codes" /\ wreq'[v] = wreq[v]
      BY <1>4, <2>4
    <3>2. wreq[v] \in Requests /\ rstatus[wreq[v]] = "created"
      BY <1>3, <2>4, <3>1 DEF RefundInv, TypeOK, AssignedWork
    <3>3. ~ Handled(wreq[v])
      BY <1>3, <2>4, <3>1, <3>2 DEF RefundInv, CodesLeftAlone
    <3>4. QED BY <3>1, <3>3, <1>4 DEF Handled, Handling, Opening, Approved
  <2>5. QED BY <2>3, <2>4 DEF CodesLeftAlone
<1>13. RequestRefundedOnce' /\ WebhookOnce'
  BY <1>3 DEF RefundInv, RequestRefundedOnce, WebhookOnce
<1>14. RecordedRefund'
  BY <1>1, <1>3 DEF RefundInv, RecordedRefund
<1>15. CompleteIsRefunded'
  <2> SUFFICES ASSUME NEW q \in Requests, rstatus'[q] = "approved-complete"
               PROVE  /\ ostate'[rorder[q]] = "refunded"
                      /\ webhook[q] = 1
                      /\ q \notin posted =>
                           \/ Zero(rapproved[q])
                           \/ [request |-> q, amount |-> rapproved[q]] \in txns'
    BY <1>3 DEF CompleteIsRefunded
  <2>1. CASE q = r
    <3>1. ostate'[rorder[r]] = "refunded"
      BY <1>2, <1>3 DEF RefundInv, TypeOK
    <3>2. Zero({})
      BY DEF Zero
    <3>3. QED BY <1>1, <1>3, <2>1, <3>1, <3>2
  <2>2. CASE q # r
    <3>1. rstatus[q] = "approved-complete"
      BY <1>1, <1>3, <2>2 DEF RefundInv, TypeOK
    <3>2. rorder[q] \in Orders
      BY <3>1 DEF RefundInv, NoTrace
    <3>3. QED BY <1>2, <1>3, <3>1, <3>2 DEF RefundInv, TypeOK, CompleteIsRefunded
  <2>3. QED BY <2>1, <2>2
<1>16. CompleteEdits'
  <2> SUFFICES ASSUME NEW v \in Workers, pc'[v] = "edit", wstatus'[v] = "approved-complete"
               PROVE  /\ ostate'[rorder[wreq'[v]]] = "refunded"
                      /\ webhook[wreq'[v]] = 1
                      /\ wreq'[v] \notin posted =>
                           \/ Zero(rapproved[wreq'[v]])
                           \/ [request |-> wreq'[v], amount |-> rapproved[wreq'[v]]] \in txns'
    BY <1>3 DEF CompleteEdits
  <2>1. v # w /\ pc[v] = "edit" /\ wreq'[v] = wreq[v] /\ wstatus[v] = "approved-complete"
    BY <1>4
  <2>2. HasRefunded(wreq[v]) /\ wreq[v] \in Requests /\ rstatus[wreq[v]] # "absent"
    BY <2>1 DEF RefundInv, CompleteEdits, AssignedWork
  <2>3. rorder[wreq[v]] \in Orders
    BY <2>2 DEF RefundInv, NoTrace
  <2>4. QED BY <1>2, <1>3, <2>1, <2>2, <2>3 DEF RefundInv, TypeOK
<1>17. QED
  BY <1>5, <1>6, <1>7, <1>8, <1>9, <1>10, <1>11, <1>12, <1>13, <1>14, <1>15, <1>16
  DEF RefundInv

\* Whoever handles a deleted request may have to find out.
LEMMA DeleteRequestKeeps ==
  ASSUME RefundInv, NEW r \in Requests, DeleteRequest(r)
  PROVE  RefundInv'
<1>1. TypeOK'
  BY DEF RefundInv, TypeOK, DeleteRequest, Stages, Results, Statuses
<1>2. AssignedWork'
  BY DEF RefundInv, AssignedWork, DeleteRequest
<1>3. NoTrace'
  BY DEF RefundInv, NoTrace, TypeOK, DeleteRequest, NotAsked
<1>4. QueuedWork'
  BY DEF RefundInv, QueuedWork, TypeOK, DeleteRequest, Handled, Handling, Opening,
         Approved, NotAsked, Untouched
<1>5. HandledStatus'
  BY DEF RefundInv, HandledStatus, TypeOK, DeleteRequest, Handling, Opening, Approved,
         Untouched, NotAsked
<1>6. AskedAmount'
  BY DEF RefundInv, AskedAmount, TypeOK, DeleteRequest
<1>7. CodesLeftAlone'
  BY DEF RefundInv, CodesLeftAlone, TypeOK, DeleteRequest, Handled
<1>8. CompleteIsRefunded'
  BY DEF RefundInv, CompleteIsRefunded, TypeOK, DeleteRequest
<1>9. OneHandler' /\ RequestRefundedOnce' /\ RecordedRefund' /\ WebhookOnce'
  BY DEF RefundInv, OneHandler, RequestRefundedOnce, RecordedRefund, WebhookOnce,
         DeleteRequest
<1>10. CompleteEdits'
  BY DEF RefundInv, CompleteEdits, AssignedWork, TypeOK, DeleteRequest, Zero
<1>11. QED BY <1>1, <1>2, <1>3, <1>4, <1>5, <1>6, <1>7, <1>8, <1>9, <1>10 DEF RefundInv

\* What is known of the amounts is known of requests without posted rows.
LEMMA PostLineKeeps ==
  ASSUME RefundInv, NEW r \in Requests, NEW l \in Lines,
         NEW amount \in {{}, {Custom}, {Null}}, PostLine(r, l, amount)
  PROVE  RefundInv'
<1>1. TypeOK'
  <2>1. rlines' \in [Requests -> SUBSET Lines]
    BY DEF RefundInv, TypeOK, PostLine
  <2>2. rapproved' \in [Requests -> Amounts]
    BY DEF RefundInv, TypeOK, PostLine, Amounts
  <2>3. QED BY <2>1, <2>2 DEF RefundInv, TypeOK, PostLine
<1>2. /\ \A q \in Requests : q \notin posted' => q \notin posted /\ rapproved'[q] = rapproved[q]
      /\ UNCHANGED <<rstatus, rorder, codes, money, ledger, outside, edits, pc, locals>>
  BY DEF RefundInv, TypeOK, PostLine
<1>3. AskedAmount'
  BY <1>2 DEF RefundInv, AskedAmount, AssignedWork, Handling, Approved
<1>4. CompleteIsRefunded'
  BY <1>2 DEF RefundInv, CompleteIsRefunded
<1>5. CompleteEdits'
  BY <1>2 DEF RefundInv, CompleteEdits, AssignedWork
<1>6. AssignedWork' /\ NoTrace' /\ OneHandler' /\ QueuedWork' /\ HandledStatus'
  BY <1>2 DEF RefundInv, AssignedWork, NoTrace, OneHandler, QueuedWork, HandledStatus,
              Handled, NotAsked
<1>7. CodesLeftAlone' /\ RequestRefundedOnce' /\ RecordedRefund' /\ WebhookOnce'
  BY <1>2 DEF RefundInv, CodesLeftAlone, RequestRefundedOnce, RecordedRefund, WebhookOnce,
              Handled
<1>8. QED BY <1>1, <1>3, <1>4, <1>5, <1>6, <1>7 DEF RefundInv

\* Whoever edits a request has read it, and changes nothing yet.
LEMMA LoadEditKeeps ==
  ASSUME RefundInv, NEW w \in Workers, NEW r \in Requests, LoadEdit(w, r)
  PROVE  RefundInv'
<1>1. TypeOK'
  BY DEF RefundInv, TypeOK, LoadEdit, Stages
<1>2. AssignedWork'
  BY DEF RefundInv, AssignedWork, TypeOK, LoadEdit, Handling, Opening, Approved
<1>3. OneHandler'
  BY DEF RefundInv, OneHandler, TypeOK, LoadEdit, Handling, Opening, Approved
<1>4. QueuedWork'
  BY DEF RefundInv, QueuedWork, TypeOK, LoadEdit, Handled, Handling, Opening, Approved,
         NotAsked, Untouched
<1>5. HandledStatus'
  BY DEF RefundInv, HandledStatus, TypeOK, LoadEdit, Handling, Opening, Approved,
         Untouched, NotAsked
<1>6. AskedAmount'
  BY DEF RefundInv, AskedAmount, TypeOK, LoadEdit
<1>7. CodesLeftAlone'
  BY DEF RefundInv, CodesLeftAlone, TypeOK, LoadEdit, Handled, Handling, Opening, Approved
<1>8. CompleteEdits'
  BY DEF RefundInv, CompleteEdits, CompleteIsRefunded, TypeOK, LoadEdit
<1>9. /\ NoTrace' /\ RequestRefundedOnce' /\ RecordedRefund' /\ CompleteIsRefunded'
      /\ WebhookOnce'
  BY RowsUntouched DEF RefundInv, LoadEdit
<1>10. QED BY <1>1, <1>2, <1>3, <1>4, <1>5, <1>6, <1>7, <1>8, <1>9 DEF RefundInv

\* What is known of an edited request does not depend on its status, but for
\* a complete one, and that it has been before the edit.
LEMMA SaveEditKeeps ==
  ASSUME RefundInv, NEW w \in Workers, SaveEdit(w)
  PROVE  RefundInv'
<1> DEFINE r == wreq[w]
<1>1. /\ pc[w] = "edit"
      /\ r \in Requests /\ r \in edits /\ rstatus[r] # "absent"
      /\ wstatus[w] \in Statuses \ {"absent", "deleted"}
      /\ wstatus[w] = "approved-complete" => HasRefunded(r)
  BY DEF RefundInv, AssignedWork, CompleteEdits, SaveEdit
<1>2. /\ rstatus' = [rstatus EXCEPT ![r] = wstatus[w]]
      /\ UNCHANGED <<rorder, rlines, rapproved, codes, money, ledger, outside, history>>
  BY DEF SaveEdit
<1>3. TypeOK'
  BY <1>1, <1>2 DEF RefundInv, TypeOK, SaveEdit, Finish, Stages
<1>4. AssignedWork'
  BY <1>1, <1>2, RefundNone DEF RefundInv, AssignedWork, TypeOK, SaveEdit, Finish,
                                Handling, Opening, Approved
<1>5. NoTrace'
  BY <1>1, <1>2 DEF RefundInv, NoTrace, TypeOK, NotAsked
<1>6. OneHandler'
  BY DEF RefundInv, OneHandler, TypeOK, SaveEdit, Finish, Handling, Opening, Approved
<1>7. QueuedWork'
  BY <1>1, <1>2 DEF RefundInv, QueuedWork, TypeOK, SaveEdit, Finish, Handled, Handling,
                    Opening, Approved, NotAsked
<1>8. HandledStatus'
  BY <1>1, <1>2 DEF RefundInv, HandledStatus, AssignedWork, TypeOK, SaveEdit, Finish,
                    Handling, Opening, Approved, Untouched, NotAsked
<1>9. AskedAmount' /\ CompleteEdits'
  BY <1>2 DEF RefundInv, AskedAmount, CompleteEdits, TypeOK, SaveEdit, Finish
<1>10. CodesLeftAlone'
  BY <1>1, <1>2 DEF RefundInv, CodesLeftAlone, AssignedWork, TypeOK, SaveEdit, Finish,
                    Handled, Handling, Opening, Approved
<1>11. CompleteIsRefunded'
  BY <1>1, <1>2 DEF RefundInv, CompleteIsRefunded, TypeOK
<1>12. RequestRefundedOnce' /\ RecordedRefund' /\ WebhookOnce'
  BY <1>2 DEF RefundInv, RequestRefundedOnce, RecordedRefund, WebhookOnce
<1>13. QED
  BY <1>3, <1>4, <1>5, <1>6, <1>7, <1>8, <1>9, <1>10, <1>11, <1>12 DEF RefundInv

-----------------------------------------------------------------------------
(* The theorems.                                                           *)

LEMMA InitHolds == Init => RefundInv
<1> SUFFICES ASSUME Init PROVE RefundInv
  OBVIOUS
<1>1. TypeOK
  <2>1. 0 \in 0 .. MaxFaults
    BY RefundConstants
  <2>2. QED BY <2>1 DEF Init, TypeOK, Statuses, Stages
<1>2. AssignedWork /\ NoTrace
  BY RefundNone DEF Init, AssignedWork, NoTrace, NotAsked, Handling, Opening, Approved
<1>3. OneHandler /\ QueuedWork /\ HandledStatus /\ AskedAmount /\ CodesLeftAlone
  BY DEF Init, OneHandler, QueuedWork, HandledStatus, AskedAmount, CodesLeftAlone,
         Handling, Opening, Approved, Untouched
<1>4. /\ RequestRefundedOnce /\ RecordedRefund /\ CompleteIsRefunded /\ WebhookOnce
      /\ CompleteEdits
  BY DEF Init, CompleteEdits, RequestRefundedOnce, RecordedRefund, CompleteIsRefunded,
         WebhookOnce
<1>5. QED BY <1>1, <1>2, <1>3, <1>4 DEF RefundInv

\* Steps that end a worker's task, by an error or with a result.
LEMMA EndingsKeep ==
  ASSUME RefundInv, NEW w \in Workers,
         \/ NamedLinesFail(w) \/ LostRequest(w) \/ CreateDone(w) \/ PrerequisitesFail(w)
         \/ SumFails(w) \/ CannotProcess(w) \/ GatewayRefuses(w) \/ Crash(w)
  PROVE  RefundInv'
<1>1. CASE NamedLinesFail(w) \/ LostRequest(w) \/ CreateDone(w) \/ PrerequisitesFail(w)
           \/ SumFails(w) \/ GatewayRefuses(w)
  <2>1. /\ Finish(w)
        /\ UNCHANGED <<tables, money, ledger, outside, history>>
    BY <1>1 DEF NamedLinesFail, LostRequest, CreateDone, PrerequisitesFail, SumFails,
                GatewayRefuses
  <2>2. faults' \in 0 .. MaxFaults
    BY <2>1 DEF RefundInv, TypeOK
  <2>3. QED BY <2>1, <2>2, FinishKeeps
<1>2. CASE CannotProcess(w)
  <2>1. UNCHANGED <<tables, money, ledger, outside, history>>
    BY <1>2 DEF CannotProcess
  <2>2. faults' \in 0 .. MaxFaults
    BY <2>1 DEF RefundInv, TypeOK
  <2>3. \/ Finish(w)
        \/ wrow[w] # None /\ (Return(w, "processed") \/ Return(w, "failed"))
    BY <1>2 DEF CannotProcess
  <2>4. "processed" \in Results /\ "failed" \in Results
    BY DEF Results
  <2>5. QED BY <2>1, <2>2, <2>3, <2>4, FinishKeeps, ReturnKeeps
<1>3. CASE Crash(w)
  <2>1. faults' \in 0 .. MaxFaults
    BY <1>3, RefundConstants DEF Crash, RefundInv, TypeOK
  <2>2. QED BY <1>3, <2>1, FinishKeeps DEF Crash
<1>4. QED BY <1>1, <1>2, <1>3

LEMMA StepKeeps == RefundInv /\ [Next]_vars => RefundInv'
<1> SUFFICES ASSUME RefundInv, [Next]_vars PROVE RefundInv'
  OBVIOUS
<1>1. ASSUME NEW w \in Workers, NEW o \in Orders, CreateFromOrder(w, o) PROVE RefundInv'
  BY <1>1, CreateFromOrderKeeps
<1>2. ASSUME NEW w \in Workers, NEW i \in Rows, TakeRow(w, i) \/ RefuseRow(w, i)
      PROVE  RefundInv'
  BY <1>2, TakeRowKeeps, RefuseRowKeeps
<1>3. ASSUME NEW w \in Workers, NEW r \in Requests, TakeTask(w, r) \/ LoadEdit(w, r)
      PROVE  RefundInv'
  BY <1>3, TakeTaskKeeps, LoadEditKeeps
<1>4. ASSUME NEW w \in Workers, NEW e \in Recipients, SendCode(w, e) PROVE RefundInv'
  BY <1>4, SendCodeKeeps
<1>5. ASSUME NEW w \in Workers,
             \/ NamedLinesFail(w) \/ LostRequest(w) \/ CreateDone(w) \/ PrerequisitesFail(w)
             \/ SumFails(w) \/ CannotProcess(w) \/ GatewayRefuses(w) \/ Crash(w)
      PROVE  RefundInv'
  BY <1>5, EndingsKeep
<1>6. ASSUME NEW w \in Workers,
             \/ InsertRequest(w) \/ AddLines(w) \/ SaveCreated(w) \/ LoadCreated(w)
             \/ AutoApprove(w) \/ PrerequisitesHold(w) \/ Approve(w) \/ ApproveLines(w)
             \/ Enqueue(w) \/ Process(w)
      PROVE  RefundInv'
  BY <1>6, InsertRequestKeeps, AddLinesKeeps, SaveCreatedKeeps, MovesKeep, ApproveKeeps,
     ApproveLinesKeeps, EnqueueKeeps
<1>7. ASSUME NEW w \in Workers,
             \/ SumLines(w) \/ SumCancels(w) \/ GatewayAccepts(w) \/ ApplyRefund(w)
             \/ Commit(w) \/ Report(w) \/ SaveEdit(w)
      PROVE  RefundInv'
  BY <1>7, SumLinesKeeps, GatewayAcceptsKeeps, ApplyRefundKeeps, CommitKeeps, ReportKeeps,
     SaveEditKeeps
<1>8. ASSUME NEW r \in Requests, DeleteRequest(r) PROVE RefundInv'
  BY <1>8, DeleteRequestKeeps
<1>9. CASE UNCHANGED vars
  <2>1. /\ TypeOK' /\ AssignedWork' /\ OneHandler' /\ QueuedWork' /\ HandledStatus'
        /\ AskedAmount' /\ CodesLeftAlone' /\ CompleteEdits'
    BY <1>9 DEF vars, RefundInv, TypeOK, AssignedWork, OneHandler, QueuedWork, HandledStatus,
                AskedAmount, CodesLeftAlone, CompleteEdits, Handled, NotAsked
  <2>2. QED BY <1>9, <2>1, RowsUntouched DEF vars, RefundInv
<1>10. ASSUME NEW r \in Requests, NEW l \in Lines, NEW amount \in {{}, {Custom}, {Null}},
              PostLine(r, l, amount)
       PROVE  RefundInv'
  BY <1>10, PostLineKeeps
<1>11. QED BY <1>1, <1>2, <1>3, <1>4, <1>5, <1>6, <1>7, <1>8, <1>9, <1>10 DEF Next

\* A request is in one pair of hands, and whoever has it knows how far it is.
THEOREM RefundInvariant == Spec => []RefundInv
BY InitHolds, StepKeeps, PTL DEF Spec

\* The gateway is asked once at most to make the refund of a request,
\* whatever crashes, and however many tasks and sheet runs there are.
THEOREM OneRefundPerRequest == Spec => []RequestRefundedOnce
BY RefundInvariant, PTL DEF RefundInv

\* A refund transaction stands for money the gateway has returned.
THEOREM RefundsAreReal == Spec => []RecordedRefund
BY RefundInvariant, PTL DEF RefundInv

\* A complete request has refunded its order, told the integrated system, and
\* recorded what it refunded.
THEOREM CompleteRequests == Spec => []CompleteIsRefunded
BY RefundInvariant, PTL DEF RefundInv

\* The integrated system is told once at most of a request.
THEOREM OneWebhookPerRequest == Spec => []WebhookOnce
BY RefundInvariant, PTL DEF RefundInv

\* Only requests that wait for a decision have access codes, unless their
\* customer has edited them.
THEOREM CodesOnlyForOpen == Spec => []CodesForOpen
<1>1. RefundInv => CodesForOpen
  BY DEF RefundInv, CodesLeftAlone, CodesForOpen
<1>2. QED BY <1>1, RefundInvariant, PTL

\* If its customer does not edit it, a complete request stays complete until
\* it is deleted, and an approved one is not open again unless it was deleted.
THEOREM NeverTakenBack == Spec => StatusPath
<1> DEFINE Kept == \A r \in Requests \ edits :
       /\ rstatus[r] = "approved-complete" => rstatus'[r] \in {"approved-complete", "deleted"}
       /\ rstatus[r] = "approved" => rstatus'[r] \notin {"absent", "created"}
<1>1. RefundInv /\ [Next]_vars => [Kept]_vars
  <2> SUFFICES ASSUME RefundInv, Next PROVE Kept
    OBVIOUS
  <2>1. CASE UNCHANGED rstatus
    BY <2>1
  <2>2. ASSUME NEW w \in Workers, InsertRequest(w) PROVE Kept
    BY <2>2 DEF InsertRequest, RefundInv, TypeOK
  <2>3. ASSUME NEW w \in Workers, Approve(w) PROVE Kept
    <3>1. wreq[w] \in edits \/ rstatus[wreq[w]] \in {"created", "deleted"}
      BY <2>3 DEF Approve, RefundInv, HandledStatus, Opening
    <3>2. QED BY <2>3, <3>1 DEF Approve, RefundInv, TypeOK
  <2>4. ASSUME NEW w \in Workers, Commit(w) PROVE Kept
    BY <2>4 DEF Commit, RefundInv, TypeOK
  <2>5. ASSUME NEW r \in Requests, DeleteRequest(r) PROVE Kept
    BY <2>5 DEF DeleteRequest, RefundInv, TypeOK
  <2>6. ASSUME NEW w \in Workers, SaveCreated(w) PROVE Kept
    <3>1. wreq[w] \in edits \/ rstatus[wreq[w]] \in {"created", "deleted"}
      BY <2>6 DEF SaveCreated, RefundInv, HandledStatus, Opening
    <3>2. QED BY <2>6, <3>1 DEF SaveCreated, RefundInv, TypeOK
  <2>7. ASSUME NEW w \in Workers, SaveEdit(w) PROVE Kept
    <3>1. wreq[w] \in edits
      BY <2>7 DEF SaveEdit, RefundInv, AssignedWork
    <3>2. QED BY <2>7, <3>1 DEF SaveEdit, RefundInv, TypeOK
  <2>8. \/ UNCHANGED rstatus
        \/ \E w \in Workers :
             InsertRequest(w) \/ SaveCreated(w) \/ Approve(w) \/ Commit(w) \/ SaveEdit(w)
        \/ \E r \in Requests : DeleteRequest(r)
    BY DEF Next, CreateFromOrder, TakeRow, RefuseRow, TakeTask, SendCode, AddLines,
           NamedLinesFail, LostRequest, LoadCreated, AutoApprove, CreateDone,
           PrerequisitesHold, PrerequisitesFail, ApproveLines, Enqueue, Process, SumLines,
           SumCancels, SumFails, CannotProcess, GatewayAccepts, GatewayRefuses, ApplyRefund,
           Report, LoadEdit, Crash, PostLine
  <2>9. QED BY <2>1, <2>2, <2>3, <2>4, <2>5, <2>6, <2>7, <2>8
<1>2. QED BY <1>1, RefundInvariant, PTL DEF Spec, StatusPath

=============================================================================
