------------------------- MODULE RefundsBound_proofs -------------------------
(***************************************************************************)
(* How often an order can be refunded, for every number of sheet runs,     *)
(* requests and crashes.                                                   *)
(*                                                                         *)
(* Nothing but the order's state keeps a second request from being         *)
(* refunded, and it is looked at once, before approval.  A run that is     *)
(* past that look goes on.  So while the order reads as fulfilled, each    *)
(* refund made is one of a run that has not committed, or has crashed; and *)
(* from the commit on, the runs that are past the look are all that can    *)
(* still ask for one, and they are as many as there are workers at most.   *)
(* A request that a user has added rows to is refunded once at most, and   *)
(* counted apart; the customers' other requests are refunded for nothing.  *)
(***************************************************************************)
EXTENDS Refunds_proofs

USE DEF Requests, Amounts, tables, money, outside, history, locals, At

\* Sheet runs past the look at the order's state: they have yet to ask the
\* gateway to refund order o, or have asked it and not committed.
ToAsk == {"approve", "amounts", "process", "sum", "gateway"}
Asking(o) == {w \in SheetWorkers : pc[w] \in ToAsk /\ wrow[w] # None /\ rorder[wreq[w]] = o}
Asked(o)  == {w \in SheetWorkers : /\ pc[w] \in {"apply", "commit"}
                                   /\ wrow[w] # None
                                   /\ rorder[wreq[w]] = o}
Paid(o)   == {a \in ledger : rorder[a.request] = o /\ a.request \notin posted}

\* Only those that may run the sheet have one of its rows.
SheetRuns ==
  \A w \in Workers : /\ wrow[w] # None => w \in SheetWorkers
                     /\ pc[w] = "idle" => wrow[w] = None

\* A customer's request that is processed is worth nothing, if nobody has
\* added rows to it.
NothingOwed ==
  /\ \A w \in Workers :
       /\ pc[w] \in {"hook", "total", "enqueue"} => wrow[w] = None
       /\ pc[w] = "save" => wrow[w] # None
       /\ wrow[w] = None /\ wreq[w] \notin posted =>
            /\ pc[w] \in {"check", "approve", "amounts"} => Zero(rlines[wreq[w]])
            /\ pc[w] \in {"enqueue", "process", "sum"} => Zero(rapproved[wreq[w]])
            /\ pc[w] # "gateway"
  /\ \A r \in Requests : queue[r] > 0 /\ r \notin posted => Zero(rapproved[r])

Bounded(o) ==
  /\ ostate[o] = "fulfilled" => Cardinality(Paid(o)) <= Cardinality(Asked(o)) + faults
  /\ ostate[o] = "refunded" =>
       Cardinality(Paid(o)) + Cardinality(Asking(o)) <= Cardinality(SheetWorkers) + faults

BoundInv ==
  /\ SheetRuns /\ NothingOwed /\ IsFiniteSet(ledger)
  /\ \A o \in Orders : Bounded(o)

-----------------------------------------------------------------------------
(* What a step leaves alone.                                               *)

\* Steps that begin, continue, and end what a worker does.
Begins(w) ==
  \/ \E o \in Orders : CreateFromOrder(w, o)
  \/ \E i \in Rows : TakeRow(w, i) \/ RefuseRow(w, i)
  \/ \E r \in Requests : TakeTask(w, r) \/ LoadEdit(w, r)
Continues(w) ==
  \/ \E e \in Recipients : SendCode(w, e)
  \/ InsertRequest(w) \/ AddLines(w) \/ SaveCreated(w) \/ LoadCreated(w) \/ AutoApprove(w)
  \/ PrerequisitesHold(w) \/ Approve(w) \/ ApproveLines(w) \/ Enqueue(w)
  \/ Process(w) \/ SumLines(w) \/ SumCancels(w) \/ GatewayAccepts(w) \/ ApplyRefund(w)
Ends(w) ==
  \/ NamedLinesFail(w) \/ LostRequest(w) \/ CreateDone(w) \/ PrerequisitesFail(w)
  \/ SumFails(w) \/ CannotProcess(w) \/ GatewayRefuses(w) \/ Commit(w) \/ Report(w)
  \/ SaveEdit(w) \/ Crash(w)
Steps(w) == Begins(w) \/ Continues(w) \/ Ends(w)
Posts    == \E r \in Requests, l \in Lines, amount \in {{}, {Custom}, {Null}} :
              PostLine(r, l, amount)

LEMMA NextIsSteps ==
  ASSUME Next
  PROVE  (\E w \in Workers : Steps(w)) \/ (\E r \in Requests : DeleteRequest(r)) \/ Posts
BY DEF Next, Steps, Begins, Continues, Ends, Posts

LEMMA EndsFree ==
  ASSUME TypeOK, NEW w \in Workers, Ends(w)
  PROVE  /\ pc' = [pc EXCEPT ![w] = pc'[w]]
         /\ pc'[w] \in {"idle", "report"}
         /\ pc'[w] = "idle" => wrow'[w] = None
         /\ \A v \in Workers \ {w} : wreq'[v] = wreq[v] /\ wrow'[v] = wrow[v]
         /\ wrow'[w] \in {wrow[w], None}
<1>1. CASE Finish(w)
  BY <1>1 DEF Finish, TypeOK
<1>2. CASE Return(w, "processed") \/ Return(w, "failed")
  BY <1>2 DEF Return, TypeOK
<1>3. QED
  BY <1>1, <1>2 DEF Ends, NamedLinesFail, LostRequest, CreateDone, PrerequisitesFail,
     SumFails, CannotProcess, GatewayRefuses, Commit, Report, SaveEdit, Crash

LEMMA ContinuesFrame ==
  ASSUME TypeOK, NEW w \in Workers, Continues(w)
  PROVE  /\ \A v \in Workers \ {w} : pc'[v] = pc[v] /\ wreq'[v] = wreq[v]
         /\ wrow' = wrow
         /\ pc'[w] # "idle"
         /\ InsertRequest(w) \/ wreq' = wreq
BY DEF Continues, SendCode, InsertRequest, AddLines, SaveCreated, LoadCreated, AutoApprove,
       PrerequisitesHold, Approve, ApproveLines, Enqueue, Process, SumLines, SumCancels,
       GatewayAccepts,
       ApplyRefund, Goto, TypeOK

LEMMA BeginsFrame ==
  ASSUME TypeOK, NEW w \in Workers, Begins(w)
  PROVE  /\ \A v \in Workers \ {w} : pc'[v] = pc[v] /\ wreq'[v] = wreq[v] /\ wrow'[v] = wrow[v]
         /\ pc[w] = "idle"
         /\ pc'[w] \in {"insert", "report", "process", "edit"}
         /\ \/ wrow'[w] = wrow[w]
            \/ w \in SheetWorkers /\ pc'[w] \in {"insert", "report"}
         /\ pc'[w] = "process" => \E r \in Requests : TakeTask(w, r)
BY DEF Begins, CreateFromOrder, TakeRow, RefuseRow, HandOut, TakeTask, LoadEdit, TypeOK

\* A worker changes its own business only.
LEMMA OthersKept ==
  ASSUME TypeOK, NEW w \in Workers, Steps(w), NEW v \in Workers \ {w}
  PROVE  pc'[v] = pc[v] /\ wreq'[v] = wreq[v] /\ wrow'[v] = wrow[v]
<1>1. CASE Begins(w)
  BY <1>1, BeginsFrame
<1>2. CASE Continues(w)
  BY <1>2, ContinuesFrame
<1>3. CASE Ends(w)
  BY <1>3, EndsFree DEF TypeOK
<1>4. QED BY <1>1, <1>2, <1>3 DEF Steps

\* The order of a request is written with the request.
LEMMA OrderOfRequestKept ==
  ASSUME RefundInv, Next, NEW r \in Requests, rstatus[r] # "absent"
  PROVE  rorder'[r] = rorder[r]
<1>1. CASE \E w \in Workers : InsertRequest(w)
  BY <1>1 DEF InsertRequest, RefundInv, TypeOK
<1>2. CASE ~ \E w \in Workers : InsertRequest(w)
  BY <1>2 DEF Next, CreateFromOrder, TakeRow, RefuseRow, TakeTask, LoadEdit, SendCode,
     AddLines, NamedLinesFail, LostRequest, SaveCreated, LoadCreated, AutoApprove,
     CreateDone, PrerequisitesHold, PrerequisitesFail, Approve, ApproveLines, Enqueue,
     Process, SumLines, SumCancels, SumFails, CannotProcess, GatewayAccepts, GatewayRefuses,
     ApplyRefund, Commit, Report, SaveEdit, Crash, DeleteRequest, PostLine
<1>3. QED BY <1>1, <1>2

\* Posted requests remain so.
LEMMA PostedKept ==
  ASSUME [Next]_vars
  PROVE  posted \subseteq posted'
<1>1. CASE Posts
  BY <1>1 DEF Posts, PostLine
<1>2. CASE ~ Posts
  BY <1>2 DEF vars, Posts, Next, CreateFromOrder, TakeRow, RefuseRow, TakeTask, LoadEdit, SendCode,
     InsertRequest, AddLines, NamedLinesFail, LostRequest, SaveCreated, LoadCreated, AutoApprove,
     CreateDone, PrerequisitesHold, PrerequisitesFail, Approve, ApproveLines, Enqueue,
     Process, SumLines, SumCancels, SumFails, CannotProcess, GatewayAccepts, GatewayRefuses,
     ApplyRefund, Commit, Report, SaveEdit, Crash, DeleteRequest
<1>3. QED BY <1>1, <1>2

\* The lines of a request, and what is approved of them, are written by its
\* handler, or go with the request, if nobody adds rows to it.
LEMMA LinesKept ==
  ASSUME RefundInv, Next, NEW r \in Requests, r \notin posted'
  PROVE  \/ rlines'[r] \in {rlines[r], {}}
         \/ \E w \in Workers : AddLines(w) /\ wreq[w] = r
<1>1. ASSUME NEW w \in Workers, AddLines(w)
      PROVE  rlines'[r] = rlines[r] \/ wreq[w] = r
  BY <1>1 DEF AddLines, RefundInv, TypeOK
<1>2. ASSUME NEW q \in Requests, DeleteRequest(q)
      PROVE  rlines'[r] \in {rlines[r], {}}
  BY <1>2 DEF DeleteRequest, RefundInv, TypeOK
<1>3. CASE rlines' = rlines
  BY <1>3
<1>4. ASSUME NEW q \in Requests, NEW l \in Lines, NEW amount, PostLine(q, l, amount)
      PROVE  rlines'[r] = rlines[r]
  BY <1>4 DEF PostLine, RefundInv, TypeOK
<1>5. QED
  BY <1>1, <1>2, <1>3, <1>4
  DEF Next, CreateFromOrder, TakeRow, RefuseRow, TakeTask, LoadEdit, SendCode, InsertRequest,
     NamedLinesFail, LostRequest, SaveCreated, LoadCreated, AutoApprove,
     CreateDone, PrerequisitesHold, PrerequisitesFail, Approve, ApproveLines, Enqueue,
     Process, SumLines, SumCancels, SumFails, CannotProcess, GatewayAccepts, GatewayRefuses,
     ApplyRefund, Commit, Report, SaveEdit, Crash

LEMMA ApprovedKept ==
  ASSUME RefundInv, Next, NEW r \in Requests, r \notin posted'
  PROVE  \/ rapproved'[r] \in {rapproved[r], {}}
         \/ \E w \in Workers : ApproveLines(w) /\ wreq[w] = r /\ rapproved'[r] = rlines[r]
<1>1. ASSUME NEW w \in Workers, ApproveLines(w)
      PROVE  rapproved'[r] = rapproved[r] \/ (wreq[w] = r /\ rapproved'[r] = rlines[r])
  BY <1>1 DEF ApproveLines, RefundInv, TypeOK
<1>2. ASSUME NEW q \in Requests, DeleteRequest(q)
      PROVE  rapproved'[r] \in {rapproved[r], {}}
  BY <1>2 DEF DeleteRequest, RefundInv, TypeOK
<1>3. CASE rapproved' = rapproved
  BY <1>3
<1>4. ASSUME NEW q \in Requests, NEW l \in Lines, NEW amount, PostLine(q, l, amount)
      PROVE  rapproved'[r] = rapproved[r]
  BY <1>4 DEF PostLine, RefundInv, TypeOK
<1>5. QED
  BY <1>1, <1>2, <1>3, <1>4
  DEF Next, CreateFromOrder, TakeRow, RefuseRow, TakeTask, LoadEdit, SendCode, InsertRequest,
     AddLines, NamedLinesFail, LostRequest, SaveCreated, LoadCreated, AutoApprove,
     CreateDone, PrerequisitesHold, PrerequisitesFail, Approve, Enqueue,
     Process, SumLines, SumCancels, SumFails, CannotProcess, GatewayAccepts, GatewayRefuses,
     ApplyRefund, Commit, Report, SaveEdit, Crash

-----------------------------------------------------------------------------
(* The conjuncts of BoundInv.                                              *)

LEMMA StepSheetRuns ==
  ASSUME RefundInv, SheetRuns, [Next]_vars
  PROVE  SheetRuns'
<1>1. CASE UNCHANGED vars
  BY <1>1 DEF vars, SheetRuns
<1>2. ASSUME NEW w \in Workers, Steps(w)
      PROVE  SheetRuns'
  <2>1. \A v \in Workers \ {w} : pc'[v] = pc[v] /\ wrow'[v] = wrow[v]
    BY <1>2, OthersKept DEF RefundInv
  <2>2. (wrow'[w] # None => w \in SheetWorkers) /\ (pc'[w] = "idle" => wrow'[w] = None)
    <3>1. CASE Begins(w)
      BY <3>1, BeginsFrame DEF RefundInv, SheetRuns
    <3>2. CASE Continues(w)
      BY <3>2, ContinuesFrame DEF RefundInv, SheetRuns
    <3>3. CASE Ends(w)
      BY <3>3, EndsFree DEF RefundInv, SheetRuns
    <3>4. QED BY <1>2, <3>1, <3>2, <3>3 DEF Steps
  <2>3. QED BY <2>1, <2>2 DEF SheetRuns
<1>3. CASE \E r \in Requests : DeleteRequest(r)
  BY <1>3 DEF DeleteRequest, SheetRuns
<1>4. CASE Posts
  BY <1>4 DEF Posts, PostLine, SheetRuns
<1>5. QED BY <1>1, <1>2, <1>3, <1>4, NextIsSteps

\* Nobody else changes the lines of a request that a worker has in hand, but
\* to remove them, if nobody adds rows to it.
LEMMA HandledLinesKept ==
  ASSUME RefundInv, Next, NEW v \in Workers, pc[v] \in Handling, wreq[v] \notin posted'
  PROVE  /\ pc[v] # "lines" => rlines'[wreq[v]] \in {rlines[wreq[v]], {}}
         /\ pc[v] # "amounts" => rapproved'[wreq[v]] \in {rapproved[wreq[v]], {}}
<1>1. wreq[v] \in Requests
  BY DEF RefundInv, AssignedWork
<1>2. ASSUME NEW w \in Workers, AddLines(w), wreq[w] = wreq[v]
      PROVE  pc[v] = "lines"
  BY <1>2 DEF AddLines, RefundInv, OneHandler, Handling, Opening
<1>3. ASSUME NEW w \in Workers, ApproveLines(w), wreq[w] = wreq[v]
      PROVE  pc[v] = "amounts"
  BY <1>3 DEF ApproveLines, RefundInv, OneHandler, Handling, Approved
<1>4. QED BY <1>1, <1>2, <1>3, LinesKept, ApprovedKept

LEMMA StepNothingOwed ==
  ASSUME RefundInv, SheetRuns, NothingOwed, [Next]_vars
  PROVE  NothingOwed'
<1>1. CASE UNCHANGED vars
  BY <1>1 DEF vars, NothingOwed
<1>0. posted \subseteq posted'
  BY PostedKept
<1>3. ASSUME Next, NEW v \in Workers, wrow[v] = None, wreq[v] \notin posted'
      PROVE  /\ pc[v] \in {"check", "approve", "amounts"} => Zero(rlines'[wreq[v]])
             /\ pc[v] \in {"enqueue", "process", "sum"} => Zero(rapproved'[wreq[v]])
  <2>1. CASE pc[v] \in {"check", "approve", "amounts", "enqueue", "process", "sum"}
    <3>1. wreq[v] \in Requests /\ pc[v] \in Handling
      BY <2>1 DEF RefundInv, AssignedWork, Handling, Opening, Approved
    <3>2. QED BY <1>0, <1>3, <2>1, <3>1, HandledLinesKept DEF NothingOwed, Zero
  <2>2. QED BY <2>1
<1>4. ASSUME Next, NEW r \in Requests, queue[r] > 0, r \notin posted'
      PROVE  Zero(rapproved'[r])
  <2>1. ~ \E w \in Workers : ApproveLines(w) /\ wreq[w] = r
    BY <1>4 DEF ApproveLines, RefundInv, QueuedWork, Handled, Handling, Approved
  <2>2. rapproved'[r] \in {rapproved[r], {}}
    BY <1>4, <2>1, ApprovedKept
  <2>3. QED BY <1>0, <1>4, <2>2 DEF NothingOwed, Zero
<1>5. ASSUME NEW w \in Workers, Steps(w), Next
      PROVE  NothingOwed'
  <2> DEFINE Nothing(v) ==
        /\ pc'[v] \in {"hook", "total", "enqueue"} => wrow'[v] = None
        /\ pc'[v] = "save" => wrow'[v] # None
        /\ wrow'[v] = None /\ wreq'[v] \notin posted' =>
             /\ pc'[v] \in {"check", "approve", "amounts"} => Zero(rlines'[wreq'[v]])
             /\ pc'[v] \in {"enqueue", "process", "sum"} => Zero(rapproved'[wreq'[v]])
             /\ pc'[v] # "gateway"
  <2>1. ASSUME NEW v \in Workers \ {w}
        PROVE  Nothing(v)
    <3>1. pc'[v] = pc[v] /\ wreq'[v] = wreq[v] /\ wrow'[v] = wrow[v]
      BY <1>5, OthersKept DEF RefundInv
    <3>2. QED BY <1>0, <1>3, <1>5, <3>1 DEF NothingOwed
  <2>2. Nothing(w)
    <3>1. CASE Ends(w)
      BY <3>1, EndsFree DEF RefundInv
    <3>2. CASE Begins(w)
      <4>1. CASE pc'[w] # "process"
        BY <3>2, <4>1, BeginsFrame DEF RefundInv
      <4>2. ASSUME NEW r \in Requests, TakeTask(w, r)
            PROVE  Nothing(w)
        BY <1>4, <1>5, <4>2 DEF TakeTask, RefundInv, TypeOK
      <4>3. QED BY <3>2, <4>1, <4>2, BeginsFrame DEF RefundInv
    <3>3. CASE InsertRequest(w) \/ SaveCreated(w) \/ \E e \in Recipients : SendCode(w, e)
      <4>1. pc'[w] \in {"lines", "check", "codes"}
        BY <3>3 DEF InsertRequest, SaveCreated, SendCode, Goto, RefundInv, TypeOK
      <4>2. pc'[w] = "check" => wrow'[w] # None
        BY <3>3 DEF InsertRequest, SaveCreated, SendCode, Goto, RefundInv, TypeOK, NothingOwed
      <4>3. QED BY <4>1, <4>2
    <3>4. CASE AddLines(w)
      BY <3>4 DEF AddLines, Goto, RefundInv, TypeOK
    <3>5. CASE LoadCreated(w)
      BY <3>5 DEF LoadCreated, Goto, RefundInv, TypeOK, NothingOwed
    <3>6. CASE AutoApprove(w)
      BY <3>6 DEF AutoApprove, Goto, RefundInv, TypeOK
    <3>7. CASE PrerequisitesHold(w) \/ Approve(w)
      <4>1. /\ pc[w] \in {"check", "approve"} /\ pc'[w] \in {"approve", "amounts"}
            /\ wreq' = wreq /\ wrow' = wrow
        BY <3>7 DEF PrerequisitesHold, Approve, Goto, RefundInv, TypeOK
      <4>2. QED BY <1>3, <1>5, <4>1
    <3>8. CASE ApproveLines(w)
      <4>1. /\ pc[w] = "amounts" /\ pc'[w] = IF wrow[w] = None THEN "enqueue" ELSE "process"
            /\ wreq' = wreq /\ wrow' = wrow
            /\ rapproved' = [rapproved EXCEPT ![wreq[w]] = rlines[wreq[w]]]
        BY <3>8 DEF ApproveLines, Goto, RefundInv, TypeOK
      <4>2. wreq[w] \in Requests
        BY <4>1 DEF RefundInv, AssignedWork, Handling, Approved
      <4>3. rapproved'[wreq[w]] = rlines[wreq[w]]
        BY <4>1, <4>2 DEF RefundInv, TypeOK
      <4>4. QED BY <1>0, <4>1, <4>3 DEF NothingOwed
    <3>9. CASE Enqueue(w) \/ SumCancels(w) \/ GatewayAccepts(w) \/ ApplyRefund(w)
      <4>1. pc'[w] \in {"codes", "apply", "commit"}
        BY <3>9 DEF Enqueue, SumCancels, GatewayAccepts, ApplyRefund, Goto, RefundInv, TypeOK
      <4>2. QED BY <4>1
    <3>10. CASE Process(w)
      <4>1. pc[w] = "process" /\ pc'[w] = "sum" /\ wreq' = wreq /\ wrow' = wrow
        BY <3>10 DEF Process, Goto, RefundInv, TypeOK
      <4>2. QED BY <1>3, <1>5, <4>1
    <3>11. CASE SumLines(w)
      <4>1. /\ pc[w] = "sum" /\ wrow' = wrow /\ wreq' = wreq
            /\ pc'[w] = IF Zero(rapproved[wreq[w]]) THEN "apply" ELSE "gateway"
        BY <3>11 DEF SumLines, RefundInv, TypeOK
      <4>2. QED BY <1>0, <4>1 DEF NothingOwed
    <3>12. QED
      BY <1>5, <3>1, <3>2, <3>3, <3>4, <3>5, <3>6, <3>7, <3>8, <3>9, <3>10, <3>11
      DEF Steps, Continues
  <2>3. ASSUME NEW r \in Requests, queue'[r] > 0, r \notin posted'
        PROVE  Zero(rapproved'[r])
    <3>1. CASE Enqueue(w) /\ wreq[w] = r
      BY <1>3, <1>5, <2>3, <3>1 DEF Enqueue, NothingOwed
    <3>2. CASE ~ (Enqueue(w) /\ wreq[w] = r)
      <4>1. queue[r] \in Nat
        BY DEF RefundInv, TypeOK
      <4>2. CASE Enqueue(w)
        BY <1>4, <1>5, <2>3, <3>2, <4>2 DEF Enqueue, RefundInv, TypeOK
      <4>3. CASE \E q \in Requests : TakeTask(w, q)
        BY <1>4, <1>5, <2>3, <4>1, <4>3 DEF TakeTask, RefundInv, TypeOK
      <4>4. CASE ~ Enqueue(w) /\ ~ \E q \in Requests : TakeTask(w, q)
        <5>1. queue' = queue
          BY <1>5, <4>4 DEF Steps, Begins, Continues, Ends, CreateFromOrder, TakeRow, RefuseRow,
             LoadEdit, SendCode, InsertRequest, AddLines, NamedLinesFail, LostRequest,
             SaveCreated, LoadCreated, AutoApprove, CreateDone, PrerequisitesHold,
             PrerequisitesFail, Approve, ApproveLines, Process, SumLines, SumCancels,
             SumFails, CannotProcess, GatewayAccepts, GatewayRefuses, ApplyRefund, Commit,
             Report, SaveEdit, Crash
        <5>2. QED BY <1>4, <1>5, <2>3, <5>1
      <4>5. QED BY <4>2, <4>3, <4>4
    <3>3. QED BY <3>1, <3>2
  <2>4. QED BY <2>1, <2>2, <2>3 DEF NothingOwed
<1>6. ASSUME NEW r \in Requests, DeleteRequest(r), Next
      PROVE  NothingOwed'
  <2>1. UNCHANGED <<pc, wrow, wreq, queue>>
    BY <1>6 DEF DeleteRequest
  <2>2. QED BY <1>0, <1>3, <1>4, <1>6, <2>1 DEF NothingOwed
<1>7. CASE Posts /\ Next
  <2>1. UNCHANGED <<pc, wrow, wreq, queue>>
    BY <1>7 DEF Posts, PostLine
  <2>2. QED BY <1>0, <1>3, <1>4, <1>7, <2>1 DEF NothingOwed
<1>8. QED BY <1>1, <1>5, <1>6, <1>7, NextIsSteps

\* Only the gateway makes a refund.
LEMMA LedgerRows ==
  ASSUME RefundInv, [Next]_vars
  PROVE  \/ ledger' = ledger
         \/ \E w \in Workers : /\ GatewayAccepts(w)
                               /\ \E a : ledger' = ledger \cup {a} /\ a.request = wreq[w]
<1>1. ASSUME NEW w \in Workers, GatewayAccepts(w)
      PROVE  \E a : ledger' = ledger \cup {a} /\ a.request = wreq[w]
  <2> DEFINE made == [request |-> wreq[w], n |-> Cardinality(Refunded(wreq[w])) + 1,
                      lines |-> wamount[w]]
  <2>1. ledger' = ledger \cup {made} /\ made.request = wreq[w]
    BY <1>1 DEF GatewayAccepts
  <2> HIDE DEF made
  <2>2. QED BY <2>1
<1>2. CASE ~ \E w \in Workers : GatewayAccepts(w)
  BY <1>2 DEF Next, vars, CreateFromOrder, TakeRow, RefuseRow, TakeTask, LoadEdit, SendCode,
     InsertRequest, AddLines, NamedLinesFail, LostRequest, SaveCreated, LoadCreated,
     AutoApprove, CreateDone, PrerequisitesHold, PrerequisitesFail, Approve, ApproveLines,
     Enqueue, Process, SumLines, SumCancels, SumFails, CannotProcess, GatewayRefuses,
     ApplyRefund, Commit, Report, SaveEdit, Crash, DeleteRequest, PostLine
<1>3. QED BY <1>1, <1>2

LEMMA StepLedgerFinite ==
  ASSUME RefundInv, IsFiniteSet(ledger), [Next]_vars
  PROVE  IsFiniteSet(ledger')
BY LedgerRows, FS_AddElement

-----------------------------------------------------------------------------
(* The bound.                                                              *)

\* The sets that are counted.
LEMMA CountedSets ==
  ASSUME IsFiniteSet(ledger), NEW o
  PROVE  /\ IsFiniteSet(Paid(o)) /\ IsFiniteSet(Asked(o)) /\ IsFiniteSet(Asking(o))
         /\ Cardinality(Paid(o)) \in Nat /\ Cardinality(Asked(o)) \in Nat
         /\ Cardinality(Asking(o)) \in Nat /\ Cardinality(SheetWorkers) \in Nat
         /\ Cardinality(Asked(o)) + Cardinality(Asking(o)) <= Cardinality(SheetWorkers)
<1>1. IsFiniteSet(SheetWorkers)
  BY RefundConstants
<1>2. IsFiniteSet(Paid(o))
  BY FS_Subset DEF Paid
<1>3. Asked(o) \in SUBSET SheetWorkers /\ Asking(o) \in SUBSET SheetWorkers
  BY DEF Asked, Asking
<1>4. Asked(o) \cap Asking(o) = {}
  BY DEF Asked, Asking, ToAsk
<1>5. IsFiniteSet(Asked(o)) /\ IsFiniteSet(Asking(o))
  BY <1>1, <1>3, FS_Subset
<1>6. /\ Cardinality(Paid(o)) \in Nat /\ Cardinality(Asked(o)) \in Nat
      /\ Cardinality(Asking(o)) \in Nat /\ Cardinality(SheetWorkers) \in Nat
  BY <1>1, <1>2, <1>5, FS_CardinalityType
<1>7. Cardinality(Asked(o) \cup Asking(o)) = Cardinality(Asked(o)) + Cardinality(Asking(o))
  <2>1. Cardinality(Asked(o) \cup Asking(o))
          = Cardinality(Asked(o)) + Cardinality(Asking(o)) - Cardinality(Asked(o) \cap Asking(o))
    BY <1>5, FS_Union
  <2>2. Cardinality(Asked(o) \cap Asking(o)) = 0
    BY <1>4, FS_EmptySet
  <2>3. QED BY <1>6, <2>1, <2>2
<1>8. Cardinality(Asked(o) \cup Asking(o)) <= Cardinality(SheetWorkers)
  BY <1>1, <1>3, FS_Subset
<1>9. QED BY <1>2, <1>5, <1>6, <1>7, <1>8

\* A step that makes no refund of the order, or one of a posted request, adds
\* to none of those that are counted here.
LEMMA PaidKept ==
  ASSUME RefundInv, [Next]_vars, NEW o,
         \A w \in Workers : GatewayAccepts(w) => rorder[wreq[w]] # o \/ wreq[w] \in posted
  PROVE  Paid(o)' \subseteq Paid(o)
<1>1. \A a \in ledger : rorder'[a.request] = rorder[a.request]
  <2>1. \A a \in ledger : a.request \in Requests /\ rstatus[a.request] # "absent"
    BY DEF RefundInv, TypeOK, Ledger, NoTrace, NotAsked
  <2>2. QED BY <2>1, OrderOfRequestKept DEF vars
<1>2. posted \subseteq posted'
  BY PostedKept
<1>3. CASE ledger' = ledger
  BY <1>1, <1>2, <1>3 DEF Paid
<1>4. ASSUME NEW w \in Workers, NEW a, GatewayAccepts(w),
             ledger' = ledger \cup {a}, a.request = wreq[w]
      PROVE  Paid(o)' \subseteq Paid(o)
  <2>1. rorder' = rorder /\ (rorder[wreq[w]] # o \/ wreq[w] \in posted)
    BY <1>4 DEF GatewayAccepts
  <2>2. QED BY <1>2, <1>4, <2>1 DEF Paid
<1>5. QED BY <1>3, <1>4, LedgerRows

\* A worker that has a request in hand has one that exists, for an order.
LEMMA InHand ==
  ASSUME RefundInv, NEW w \in Workers, pc[w] \in Handling
  PROVE  /\ wreq[w] \in Requests /\ rstatus[wreq[w]] # "absent"
         /\ rorder[wreq[w]] \in Orders
BY DEF RefundInv, AssignedWork, NoTrace

\* Whoever has asked stays among those that have, until it commits or crashes.
LEMMA AskedStays ==
  ASSUME RefundInv, Next, NEW w \in Workers, Steps(w), NEW o, NEW v \in Asked(o),
         v = w => ~ Commit(w) /\ ~ Crash(w)
  PROVE  v \in Asked(o)'
<1>1. /\ v \in SheetWorkers /\ v \in Workers /\ pc[v] \in {"apply", "commit"}
      /\ wrow[v] # None /\ rorder[wreq[v]] = o
  BY RefundConstants DEF Asked
<1>2. rorder'[wreq[v]] = o
  BY <1>1, InHand, OrderOfRequestKept DEF Handling, Approved
<1>3. pc'[v] \in {"apply", "commit"} /\ wreq'[v] = wreq[v] /\ wrow'[v] = wrow[v]
  <2>1. CASE v # w
    BY <1>1, <2>1, OthersKept DEF RefundInv
  <2>2. CASE v = w
    <3>1. ApplyRefund(w)
      BY <1>1, <2>2 DEF Steps, Begins, Continues, Ends, CreateFromOrder, TakeRow, RefuseRow,
         HandOut, TakeTask, LoadEdit, SendCode, InsertRequest, AddLines, NamedLinesFail,
         LostRequest, SaveCreated, LoadCreated, AutoApprove, CreateDone, PrerequisitesHold,
         PrerequisitesFail, Approve, ApproveLines, Enqueue, Process, SumLines, SumCancels,
         SumFails, CannotProcess,
         GatewayAccepts, GatewayRefuses, Report, SaveEdit
    <3>2. QED BY <2>2, <3>1 DEF ApplyRefund, Goto, RefundInv, TypeOK
  <2>3. QED BY <2>1, <2>2
<1>4. QED BY <1>1, <1>2, <1>3 DEF Asked

\* Whoever is to ask was to ask before, or has just found the order fulfilled.
LEMMA AskingWas ==
  ASSUME RefundInv, SheetRuns, Next, NEW w \in Workers, Steps(w), NEW o, NEW v \in Asking(o)'
  PROVE  v \in Asking(o) \/ ostate[o] = "fulfilled"
<1>1. /\ v \in SheetWorkers /\ v \in Workers /\ pc'[v] \in ToAsk
      /\ wrow'[v] # None /\ rorder'[wreq'[v]] = o
  BY RefundConstants DEF Asking
<1>2. CASE v # w
  <2>1. pc'[v] = pc[v] /\ wreq'[v] = wreq[v] /\ wrow'[v] = wrow[v]
    BY <1>1, <1>2, OthersKept DEF RefundInv
  <2>2. rorder'[wreq[v]] = rorder[wreq[v]]
    BY <1>1, <2>1, InHand, OrderOfRequestKept DEF ToAsk, Handling, Opening, Approved
  <2>3. QED BY <1>1, <2>1, <2>2 DEF Asking
<1>3. CASE v = w
  <2>1. ~ Ends(w)
    BY <1>1, <1>3, EndsFree DEF RefundInv, ToAsk
  <2>2. ~ Begins(w)
    <3>1. ASSUME NEW r \in Requests, TakeTask(w, r)
          PROVE  wrow'[w] = None
      BY <3>1 DEF TakeTask, SheetRuns
    <3>2. QED BY <1>1, <1>3, <3>1, BeginsFrame DEF RefundInv, ToAsk
  <2>3. CASE PrerequisitesHold(w)
    <3>1. wreq' = wreq /\ rorder' = rorder
      BY <2>3 DEF PrerequisitesHold, Goto
    <3>2. QED BY <1>1, <1>3, <2>3, <3>1 DEF PrerequisitesHold
  <2>4. CASE Approve(w) \/ ApproveLines(w) \/ Process(w) \/ SumLines(w) \/ SumCancels(w)
    <3>1. /\ pc[w] \in {"approve", "amounts", "process", "sum"}
          /\ wreq' = wreq /\ wrow' = wrow /\ rorder' = rorder
      BY <2>4 DEF Approve, ApproveLines, Process, SumLines, SumCancels, Goto
    <3>2. QED BY <1>1, <1>3, <3>1 DEF Asking, ToAsk
  <2>5. CASE \/ InsertRequest(w) \/ AddLines(w) \/ SaveCreated(w) \/ LoadCreated(w)
             \/ AutoApprove(w) \/ Enqueue(w) \/ GatewayAccepts(w) \/ ApplyRefund(w)
             \/ \E e \in Recipients : SendCode(w, e)
    <3>1. pc'[w] \notin ToAsk
      BY <2>5 DEF InsertRequest, AddLines, SaveCreated, LoadCreated, AutoApprove, Enqueue,
         GatewayAccepts, ApplyRefund, SendCode, Goto, ToAsk, RefundInv, TypeOK
    <3>2. QED BY <1>1, <1>3, <3>1
  <2>6. QED BY <2>1, <2>2, <2>3, <2>4, <2>5 DEF Steps, Continues
<1>4. QED BY <1>2, <1>3

\* Whoever commits, crashes, or is refunded, is not to ask any more.
LEMMA AskingLess ==
  ASSUME RefundInv, Next, NEW w \in Workers, NEW o,
         \/ Commit(w) \/ Crash(w)
         \/ GatewayAccepts(w)
  PROVE  Asking(o)' \subseteq Asking(o) \ {w}
<1>1. Steps(w)
  BY DEF Steps, Continues, Ends
<1>2. pc'[w] \notin ToAsk
  <2>1. CASE Ends(w)
    BY <2>1, EndsFree DEF RefundInv, ToAsk
  <2>2. CASE GatewayAccepts(w)
    BY <2>2 DEF GatewayAccepts, Goto, ToAsk, RefundInv, TypeOK
  <2>3. QED BY <2>1, <2>2 DEF Ends
<1>3. rorder' = rorder
  BY DEF Commit, Crash, GatewayAccepts
<1>4. \A v \in Workers \ {w} : pc'[v] = pc[v] /\ wreq'[v] = wreq[v] /\ wrow'[v] = wrow[v]
  BY <1>1, OthersKept DEF RefundInv
<1>5. QED BY <1>2, <1>3, <1>4, RefundConstants DEF Asking

\* What GatewayAccepts does to the sets that are counted, in a sheet run.
LEMMA GatewayCounts ==
  ASSUME RefundInv, BoundInv, Next, NEW w \in Workers, GatewayAccepts(w),
         wrow[w] # None, NEW o, rorder[wreq[w]] = o
  PROVE  /\ Cardinality(Paid(o)') <= Cardinality(Paid(o)) + 1
         /\ Cardinality(Asked(o)') = Cardinality(Asked(o)) + 1
         /\ Cardinality(Asking(o)') = Cardinality(Asking(o)) - 1
<1>1. /\ pc[w] = "gateway" /\ pc' = [pc EXCEPT ![w] = "apply"]
      /\ UNCHANGED <<rorder, wreq, wrow>>
  BY DEF GatewayAccepts, Goto
<1>2. w \in Asking(o)
  BY <1>1 DEF BoundInv, SheetRuns, Asking, ToAsk
<1>3. pc'[w] = "apply" /\ \A v \in Workers \ {w} : pc'[v] = pc[v]
  BY <1>1 DEF RefundInv, TypeOK
<1>4. Asking(o)' = Asking(o) \ {w}
  BY <1>1, <1>2, <1>3, RefundConstants DEF Asking, ToAsk
<1>5. Asked(o)' = Asked(o) \cup {w} /\ w \notin Asked(o)
  BY <1>1, <1>2, <1>3, RefundConstants DEF Asking, Asked
<1>6. \E a : Paid(o)' \subseteq Paid(o) \cup {a}
  <2>1. ledger' = ledger \/ \E a : ledger' = ledger \cup {a}
    BY LedgerRows
  <2>2. UNCHANGED posted
    BY DEF GatewayAccepts
  <2>3. QED BY <1>1, <2>1, <2>2 DEF Paid
<1>7. /\ IsFiniteSet(Paid(o)) /\ IsFiniteSet(Asked(o)) /\ IsFiniteSet(Asking(o))
      /\ Cardinality(Paid(o)) \in Nat
  BY CountedSets DEF BoundInv
<1>8. Cardinality(Paid(o)') <= Cardinality(Paid(o)) + 1
  <2>1. PICK a : Paid(o)' \subseteq Paid(o) \cup {a}
    BY <1>6
  <2>2. /\ IsFiniteSet(Paid(o) \cup {a})
        /\ \/ Cardinality(Paid(o) \cup {a}) = Cardinality(Paid(o))
           \/ Cardinality(Paid(o) \cup {a}) = Cardinality(Paid(o)) + 1
    BY <1>7, FS_AddElement
  <2>3. /\ IsFiniteSet(Paid(o)')
        /\ Cardinality(Paid(o)') <= Cardinality(Paid(o) \cup {a})
    BY <2>1, <2>2, FS_Subset
  <2>4. Cardinality(Paid(o)') \in Nat
    BY <2>3, FS_CardinalityType
  <2>5. QED BY <1>7, <2>2, <2>3, <2>4
<1>9. Cardinality(Asked(o)') = Cardinality(Asked(o)) + 1
  BY <1>5, <1>7, FS_AddElement
<1>10. Cardinality(Asking(o)') = Cardinality(Asking(o)) - 1
  BY <1>2, <1>4, <1>7, FS_RemoveElement
<1>11. QED BY <1>8, <1>9, <1>10

LEMMA StepBounded ==
  ASSUME RefundInv, BoundInv, [Next]_vars, NEW o \in Orders
  PROVE  Bounded(o)'
<1>1. CASE UNCHANGED vars
  BY <1>1 DEF vars, BoundInv, Bounded, Paid, Asked, Asking
<1>2. ASSUME NEW r \in Requests, DeleteRequest(r)
      PROVE  Bounded(o)'
  BY <1>2 DEF DeleteRequest, BoundInv, Bounded, Paid, Asked, Asking
<1>0. /\ IsFiniteSet(ledger) /\ IsFiniteSet(ledger') /\ Bounded(o)
      /\ faults \in Nat /\ ostate[o] \in {"fulfilled", "refunded"}
  BY StepLedgerFinite DEF BoundInv, RefundInv, TypeOK
<1> DEFINE paid == Cardinality(Paid(o))
           asked == Cardinality(Asked(o))
           asking == Cardinality(Asking(o))
           most == Cardinality(SheetWorkers)
<1>3. /\ paid \in Nat /\ asked \in Nat /\ asking \in Nat /\ most \in Nat
      /\ asked + asking <= most
      /\ IsFiniteSet(Asked(o)) /\ IsFiniteSet(Asking(o))
  BY <1>0, CountedSets
<1>4. /\ Cardinality(Paid(o)') \in Nat /\ Cardinality(Asked(o)') \in Nat
      /\ Cardinality(Asking(o)') \in Nat
      /\ IsFiniteSet(Asked(o)') /\ IsFiniteSet(Asking(o)')
  <2>1. Asked(o)' \subseteq SheetWorkers /\ Asking(o)' \subseteq SheetWorkers
    BY DEF Asked, Asking
  <2>2. Paid(o)' \subseteq ledger'
    BY DEF Paid
  <2>3. QED BY <1>0, <2>1, <2>2, RefundConstants, FS_Subset, FS_CardinalityType
<1>5. ASSUME Next, NEW w \in Workers, Steps(w)
      PROVE  Bounded(o)'
  <2>1. CASE GatewayAccepts(w) /\ rorder[wreq[w]] = o /\ wrow[w] # None
    <3>1. /\ Cardinality(Paid(o)') <= paid + 1
          /\ Cardinality(Asked(o)') = asked + 1
          /\ Cardinality(Asking(o)') = asking - 1
      BY <1>5, <2>1, GatewayCounts
    <3>2. UNCHANGED <<ostate, faults>>
      BY <2>1 DEF GatewayAccepts
    <3>3. QED BY <1>0, <1>3, <1>4, <3>1, <3>2 DEF Bounded
  <2>2. CASE ~ (GatewayAccepts(w) /\ rorder[wreq[w]] = o /\ wrow[w] # None)
    <3>1. Cardinality(Paid(o)') <= paid
      <4>1. ASSUME NEW v \in Workers \ {w}
            PROVE  ~ GatewayAccepts(v)
        BY <1>5, OthersKept DEF GatewayAccepts, Goto, RefundInv, TypeOK
      <4>2. GatewayAccepts(w) => rorder[wreq[w]] # o \/ wreq[w] \in posted
        BY <2>2 DEF GatewayAccepts, BoundInv, NothingOwed
      <4>3. Paid(o)' \subseteq Paid(o)
        BY <1>5, <4>1, <4>2, PaidKept
      <4>4. QED BY <1>0, <4>3, CountedSets, FS_Subset
    <3>2. CASE Commit(w)
      <4>1. /\ ostate' = [ostate EXCEPT ![rorder[wreq[w]]] = "refunded"]
            /\ faults' = faults
        BY <3>2 DEF Commit
      <4>2. Cardinality(Asking(o)') <= asking
        BY <1>3, <1>5, <3>2, AskingLess, FS_Subset
      <4>3. CASE rorder[wreq[w]] = o
        <5>1. ostate'[o] = "refunded"
          BY <4>1, <4>3 DEF RefundInv, TypeOK
        <5>2. QED BY <1>0, <1>3, <1>4, <3>1, <4>1, <4>2, <5>1 DEF Bounded
      <4>4. CASE rorder[wreq[w]] # o
        <5>1. ostate'[o] = ostate[o]
          BY <4>1, <4>4 DEF RefundInv, TypeOK
        <5>2. Asked(o) \subseteq Asked(o)'
          BY <1>5, <4>4, AskedStays DEF Asked
        <5>3. asked <= Cardinality(Asked(o)')
          BY <1>4, <5>2, FS_Subset
        <5>4. QED BY <1>0, <1>3, <1>4, <3>1, <4>1, <4>2, <5>1, <5>3 DEF Bounded
      <4>5. QED BY <4>3, <4>4
    <3>3. CASE Crash(w)
      <4>1. faults' = faults + 1 /\ ostate' = ostate
        BY <3>3 DEF Crash
      <4>2. Cardinality(Asking(o)') <= asking
        BY <1>3, <1>5, <3>3, AskingLess, FS_Subset
      <4>3. asked <= Cardinality(Asked(o)') + 1
        <5>1. Asked(o) \ {w} \subseteq Asked(o)'
          BY <1>5, AskedStays
        <5>2. Cardinality(Asked(o) \ {w}) <= Cardinality(Asked(o)')
          BY <1>4, <5>1, FS_Subset
        <5>3. Cardinality(Asked(o) \ {w}) \in {asked, asked - 1}
          BY <1>3, FS_RemoveElement
        <5>4. QED BY <1>3, <1>4, <5>2, <5>3
      <4>4. QED BY <1>0, <1>3, <1>4, <3>1, <4>1, <4>2, <4>3 DEF Bounded
    <3>4. CASE ~ Commit(w) /\ ~ Crash(w)
      <4>1. ostate' = ostate /\ faults' = faults
        BY <1>5, <3>4 DEF Steps, Begins, Continues, Ends, CreateFromOrder, TakeRow, RefuseRow,
           TakeTask, LoadEdit, SendCode, InsertRequest, AddLines, NamedLinesFail,
           LostRequest, SaveCreated, LoadCreated, AutoApprove, CreateDone,
           PrerequisitesHold, PrerequisitesFail, Approve, ApproveLines, Enqueue, Process,
           SumLines, SumCancels, SumFails, CannotProcess, GatewayAccepts, GatewayRefuses, ApplyRefund, Report,
           SaveEdit
      <4>2. Asked(o) \subseteq Asked(o)'
        BY <1>5, <3>4, AskedStays
      <4>3. asked <= Cardinality(Asked(o)')
        BY <1>4, <4>2, FS_Subset
      <4>4. ostate[o] = "refunded" => Asking(o)' \subseteq Asking(o)
        BY <1>5, AskingWas DEF BoundInv
      <4>5. ostate[o] = "refunded" => Cardinality(Asking(o)') <= asking
        BY <1>3, <4>4, FS_Subset
      <4>6. QED BY <1>0, <1>3, <1>4, <3>1, <4>1, <4>3, <4>5 DEF Bounded
    <3>5. QED BY <3>2, <3>3, <3>4
  <2>3. QED BY <2>1, <2>2
<1>6. CASE Next /\ Posts
  <2>1. /\ UNCHANGED <<rorder, pc, wreq, wrow, ostate, faults>>
        /\ \A v \in Workers : ~ GatewayAccepts(v)
    BY <1>6 DEF Posts, PostLine, GatewayAccepts, Goto, RefundInv, TypeOK
  <2>2. Asked(o)' = Asked(o) /\ Asking(o)' = Asking(o)
    BY <2>1 DEF Asked, Asking
  <2>3. Paid(o)' \subseteq Paid(o)
    BY <1>6, <2>1, PaidKept
  <2>4. Cardinality(Paid(o)') <= paid
    BY <1>0, <2>3, CountedSets, FS_Subset
  <2>5. QED BY <1>0, <1>3, <1>4, <2>1, <2>2, <2>4 DEF Bounded
<1>7. QED BY <1>1, <1>2, <1>5, <1>6, NextIsSteps

\* BoundInv holds of every reachable state.
LEMMA BoundIsInvariant == Spec => []BoundInv
<1>1. Init => BoundInv
  <2>1. ASSUME Init, NEW o \in Orders
        PROVE  Bounded(o)
    <3>1. Paid(o) = {}
      BY <2>1 DEF Init, Paid
    <3>2. Cardinality({}) = 0 /\ IsFiniteSet(ledger)
      BY <2>1, FS_EmptySet DEF Init
    <3>3. Cardinality(Asked(o)) \in Nat /\ faults = 0 /\ ostate[o] = "fulfilled"
      BY <2>1, <3>2, CountedSets DEF Init
    <3>4. QED BY <3>1, <3>2, <3>3 DEF Bounded
  <2>2. Init => SheetRuns /\ NothingOwed
    BY DEF Init, SheetRuns, NothingOwed
  <2>3. Init => IsFiniteSet(ledger)
    BY FS_EmptySet DEF Init
  <2>4. QED BY <2>1, <2>2, <2>3 DEF BoundInv
<1>2. RefundInv /\ BoundInv /\ [Next]_vars => BoundInv'
  BY StepSheetRuns, StepNothingOwed, StepLedgerFinite, StepBounded DEF BoundInv
<1>3. Spec => []RefundInv
  BY RefundInvariant
<1>4. QED BY <1>1, <1>2, <1>3, PTL DEF Spec

\* Of the posted requests of an order, each is refunded once at most.
LEMMA PostedRefunds ==
  ASSUME RefundInv, NEW o
  PROVE  LET made == {a \in ledger : rorder[a.request] = o /\ a.request \in posted}
             of   == {r \in posted : rorder[r] = o}
         IN  /\ IsFiniteSet(made) /\ IsFiniteSet(of)
             /\ Cardinality(made) <= Cardinality(of)
<1> DEFINE made == {a \in ledger : rorder[a.request] = o /\ a.request \in posted}
           of   == {r \in posted : rorder[r] = o}
           f    == [a \in made |-> a.request]
<1>1. IsFiniteSet(of)
  <2>1. IsFiniteSet(1 .. MaxRequests)
    BY RefundConstants, FS_Interval
  <2>2. of \subseteq 1 .. MaxRequests
    BY DEF RefundInv, TypeOK
  <2>3. QED BY <2>1, <2>2, FS_Subset
<1>2. f \in Injection(made, of)
  <2>1. f \in [made -> of]
    OBVIOUS
  <2>2. \A a, b \in made : f[a] = f[b] => a = b
    BY DEF RefundInv, RequestRefundedOnce
  <2>3. QED BY <2>1, <2>2 DEF Injection, IsInjective
<1>3. QED BY <1>1, <1>2, FS_Injection

\* However sheet runs, customers, tasks and crashes interleave, the gateway
\* refunds an order once at most for each sheet run that may work at the same
\* time, once more for each that died, and once for each request of it that
\* users have added rows to: the look at the order's state in
\* Request._check_status_prerequisites, which nothing repeats, bounds what it
\* does not exclude.
THEOREM RefundsAreBounded == Spec => []RefundsBounded
<1>1. RefundInv /\ BoundInv => RefundsBounded
  <2>1. SUFFICES ASSUME RefundInv, BoundInv, NEW o \in Orders
                 PROVE  Cardinality({a \in ledger : rorder[a.request] = o})
                          <= Cardinality(SheetWorkers) + faults
                               + Cardinality({r \in posted : rorder[r] = o})
    BY DEF RefundsBounded
  <2> DEFINE all  == {a \in ledger : rorder[a.request] = o}
             made == {a \in ledger : rorder[a.request] = o /\ a.request \in posted}
             of   == {r \in posted : rorder[r] = o}
  <2>2. /\ Bounded(o) /\ IsFiniteSet(ledger)
        /\ faults \in Nat /\ ostate[o] \in {"fulfilled", "refunded"}
    BY <2>1 DEF BoundInv, RefundInv, TypeOK
  <2>3. /\ Cardinality(Paid(o)) <= Cardinality(SheetWorkers) + faults
        /\ IsFiniteSet(Paid(o)) /\ Cardinality(Paid(o)) \in Nat
        /\ Cardinality(SheetWorkers) \in Nat
    BY <2>2, CountedSets DEF Bounded
  <2>4. /\ IsFiniteSet(made) /\ Cardinality(made) \in Nat /\ Cardinality(of) \in Nat
        /\ Cardinality(made) <= Cardinality(of)
    BY <2>1, PostedRefunds, FS_CardinalityType
  <2>5. all = Paid(o) \cup made /\ Paid(o) \cap made = {}
    BY DEF Paid
  <2>6. Cardinality(all) = Cardinality(Paid(o)) + Cardinality(made)
    <3>1. Cardinality(Paid(o) \cup made)
            = Cardinality(Paid(o)) + Cardinality(made) - Cardinality(Paid(o) \cap made)
      BY <2>3, <2>4, FS_Union
    <3>2. Cardinality(Paid(o) \cap made) = 0
      BY <2>5, FS_EmptySet
    <3>3. Cardinality(all) = Cardinality(Paid(o) \cup made)
      BY <2>5
    <3> HIDE DEF all, made
    <3>4. QED BY <2>3, <2>4, <3>1, <3>2, <3>3
  <2> HIDE DEF all, made, of
  <2>7. Cardinality(all) <= Cardinality(SheetWorkers) + faults + Cardinality(of)
    BY <2>2, <2>3, <2>4, <2>6
  <2>8. QED BY <2>7 DEF all, of
<1>2. Spec => []RefundInv /\ []BoundInv
  BY RefundInvariant, BoundIsInvariant
<1>3. QED BY <1>1, <1>2, PTL

=============================================================================
