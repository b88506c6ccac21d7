--------------------------- MODULE Webhooks_proofs ---------------------------
(***************************************************************************)
(* Webhooks, for any systems, announcements, workers and number of tries:  *)
(* a message that is pending has one task, and knows how often it has been *)
(* tried.  Delivery's safety follows from that.                            *)
(***************************************************************************)
EXTENDS Webhooks, FiniteSetTheorems, TLAPS

\* The attempt_count of a task is the number of requests made.
Counted ==
  /\ \A t \in queue : t.attempt = posts[t.msg]
  /\ \A w \in Workers : job[w] # None => job[w].attempt = posts[job[w].msg]

\* No two tasks are about one message.
Apart ==
  /\ \A v, w \in Workers :
       job[v] # None /\ job[w] # None /\ job[v].msg = job[w].msg => v = w
  /\ \A t \in queue, w \in Workers : job[w] # None => job[w].msg # t.msg

\* The pending messages are those that have a task.
Waiting(m) == \E t \in queue : t.msg = m
Running(m) == \E w \in Workers : job[w] # None /\ job[w].msg = m
HasTask == \A m \in Messages : fate[m] = "pending" <=> Waiting(m) \/ Running(m)

Tries ==
  \A m \in Messages :
    /\ posts[m] <= RetryMax
    /\ fate[m] = "pending" => posts[m] < RetryMax
    /\ fate[m] = "unsent" => posts[m] = 0
    /\ fate[m] = "gaveup" => posts[m] = RetryMax
    /\ fate[m] = "lost" => faults > 0

\* What an announcement has still to queue has not been queued, and it comes to
\* the mail when nothing else is left.
ToDo ==
  \A a \in Announcements :
    /\ todo[a] \subseteq SystemsOf[a]
    /\ stage[a] = "new" => \A s \in Systems : fate[<<a, s>>] = "unsent"
    /\ \A s \in todo[a] : fate[<<a, s>>] = "unsent"
    /\ stage[a] # "done" => fate[<<a, Mail>>] = "unsent"
    /\ fate[<<a, Mail>>] # "unsent" => Kind[a] = "sale"
    /\ stage[a] = "mail" => Kind[a] = "sale"
    /\ stage[a] # "sending" => todo[a] = {}

\* Nobody is passed over, except systems that are edited meanwhile.
Told ==
  \A a \in Announcements :
    /\ stage[a] \in {"sending", "mail", "done"} =>
         \A s \in SystemsOf[a] \ edited :
           url[s] = "set" => s \in todo[a] \/ fate[<<a, s>>] # "unsent"
    /\ stage[a] = "done" /\ Kind[a] = "sale" => fate[<<a, Mail>>] # "unsent"

IInv == TypeOK /\ Counted /\ Apart /\ HasTask /\ Tries /\ ToDo /\ Told

-----------------------------------------------------------------------------

LEMMA MessageTypes ==
  /\ \A a \in Announcements : <<a, Mail>> \in Messages
  /\ \A a \in Announcements, s \in Systems : <<a, s>> \in Messages
  /\ \A a \in Announcements, s \in Systems : <<a, s>> # <<a, Mail>>
BY WebhookConstants DEF Messages

LEMMA InitInv == Init => IInv
BY WebhookConstants, MessageTypes
   DEF Init, IInv, TypeOK, Counted, Apart, HasTask, Tries, ToDo, Told, Waiting, Running, Stages,
       Ended, Tasks

\* Every step keeps the types.
LEMMA TypeStep == TypeOK /\ [Next]_vars => TypeOK'
<1> SUFFICES ASSUME TypeOK, [Next]_vars PROVE TypeOK'
    OBVIOUS
<1> USE WebhookConstants, WebhookNone, MessageTypes DEF TypeOK, Stages, Ended
<1>1. CASE UNCHANGED vars
  BY <1>1 DEF vars
<1>2. ASSUME NEW a \in Announcements, Announce(a) PROVE TypeOK'
  BY <1>2 DEF Announce, Listed, AfterSystems
<1>3. ASSUME NEW a \in Announcements, NEW s \in Systems, SendPostSale(a, s) PROVE TypeOK'
  BY <1>3 DEF SendPostSale, Sent, Enqueue, AfterSystems, Tasks
<1>4. ASSUME NEW a \in Announcements, NEW s \in Systems, SendPreSale(a, s) PROVE TypeOK'
  BY <1>4 DEF SendPreSale, Sent, Enqueue, AfterSystems, Tasks
<1>5. ASSUME NEW a \in Announcements, SendMail(a) PROVE TypeOK'
  BY <1>5 DEF SendMail, Enqueue, Tasks
<1>6. ASSUME NEW a \in Announcements, Fail(a) PROVE TypeOK'
  BY <1>6 DEF Fail
<1>7. ASSUME NEW s \in Systems, EditSystem(s) PROVE TypeOK'
  BY <1>7 DEF EditSystem
<1>8. ASSUME NEW w \in Workers, Take(w) PROVE TypeOK'
  BY <1>8 DEF Take, Acknowledge
<1>9. ASSUME NEW w \in Workers, dispatch_webhook(w) PROVE TypeOK'
  <2>1. job[w] \in Tasks
    BY <1>9 DEF dispatch_webhook, Answered, NoAnswer, Dropped, MailFails
  <2>2. CASE Answered(w)
    BY <2>1, <2>2 DEF Answered, Free, Tasks
  <2>3. CASE NoAnswer(w)
    BY <2>1, <2>3 DEF NoAnswer, Free, Tasks, Attempt, IsLast
  <2>4. CASE Drop(w)
    BY <2>1, <2>4 DEF Drop, Free, Tasks
  <2> QED
    BY <1>9, <2>2, <2>3, <2>4 DEF dispatch_webhook, Dropped, MailFails
<1>10. ASSUME NEW w \in Workers, Crash(w) PROVE TypeOK'
  BY <1>10 DEF Crash, Free, Tasks
<1> QED
  BY <1>1, <1>2, <1>3, <1>4, <1>5, <1>6, <1>7, <1>8, <1>9, <1>10 DEF Next, Hooks

-----------------------------------------------------------------------------
(* Producers.                                                              *)

\* The parts about tasks, after a message has been queued.
Queued == Counted /\ Apart /\ HasTask /\ Tries

LEMMA EnqueueStep ==
  ASSUME TypeOK, Queued, NEW m \in Messages, fate[m] = "unsent", Enqueue(m),
         UNCHANGED <<job, posts, faults>>
  PROVE  Queued'
<1> USE WebhookConstants, WebhookNone DEF TypeOK, Queued, Enqueue, Stages, Ended
<1>1. /\ posts[m] = 0
      /\ ~ Waiting(m) /\ ~ Running(m)
  BY DEF HasTask, Tries
<1>2. /\ \A n \in Messages : fate'[n] = IF n = m THEN "pending" ELSE fate[n]
      /\ \A t \in queue' : t \in queue \/ t = [msg |-> m, attempt |-> 0]
  OBVIOUS
<1>3. Counted'
  BY <1>1, <1>2 DEF Counted
<1>4. Apart'
  BY <1>1, <1>2 DEF Apart, Waiting, Running
<1>5. ASSUME NEW n \in Messages
      PROVE  Waiting(n)' = (Waiting(n) \/ n = m) /\ Running(n)' = Running(n)
  <2>1. [msg |-> m, attempt |-> 0].msg = m
    OBVIOUS
  <2> QED
    BY <2>1, <1>2 DEF Waiting, Running
<1>6. HasTask'
  BY <1>2, <1>5 DEF HasTask
<1>7. Tries'
  BY <1>1, <1>2 DEF Tries
<1> QED
  BY <1>3, <1>4, <1>6, <1>7

LEMMA SameTasks ==
  ASSUME Queued, UNCHANGED <<queue, job, posts, fate>>,
         faults \in Nat, faults' \in Nat, faults <= faults'
  PROVE  Queued'
BY DEF Queued, Counted, Apart, HasTask, Tries, Waiting, Running

LEMMA AnnounceStep ==
  ASSUME IInv, NEW a \in Announcements, Announce(a)
  PROVE  Queued' /\ ToDo' /\ Told'
<1>1. Queued'
  BY SameTasks, WebhookConstants DEF IInv, Announce, TypeOK, Queued
<1>2. /\ \A b \in Announcements : todo'[b] = IF b = a THEN Listed(a) ELSE todo[b]
      /\ \A b \in Announcements : b # a => stage'[b] = stage[b]
      /\ stage[a] = "new" /\ (\A s \in Systems : fate[<<a, s>>] = "unsent")
      /\ UNCHANGED <<url, fate, edited>>
  <2>1. Listed(a) \subseteq Systems
    BY WebhookConstants DEF Listed
  <2> QED
    BY <2>1 DEF IInv, ToDo, TypeOK, Announce
<1>3. /\ Listed(a) \subseteq SystemsOf[a] /\ SystemsOf[a] \subseteq Systems
      /\ \/ Listed(a) = {} /\ stage'[a] = "mail" /\ Kind[a] = "sale"
         \/ Listed(a) = {} /\ stage'[a] = "done" /\ Kind[a] # "sale"
         \/ stage'[a] = "sending"
  <2>1. Listed(a) \subseteq SystemsOf[a] /\ SystemsOf[a] \subseteq Systems
    BY WebhookConstants DEF Listed
  <2>2. stage'[a] = IF Listed(a) = {} THEN AfterSystems(a) ELSE "sending"
    BY DEF IInv, TypeOK, Announce
  <2> QED
    BY <2>1, <2>2 DEF AfterSystems
<1> USE DEF IInv, ToDo
<1>4. ToDo'
  BY <1>2, <1>3
<1>5. Told'
  <2>1. \A s \in SystemsOf[a] : url[s] = "set" => s \in Listed(a)
    BY DEF Listed
  <2> QED
    BY <1>2, <1>3, <2>1 DEF Told
<1> QED
  BY <1>1, <1>4, <1>5

LEMMA SendStep ==
  ASSUME IInv, NEW a \in Announcements, NEW s \in Systems, SendPostSale(a, s) \/ SendPreSale(a, s)
  PROVE  Queued' /\ ToDo' /\ Told'
<1> DEFINE m == <<a, s>>
<1>1. m \in Messages /\ fate[m] = "unsent"
  BY MessageTypes DEF IInv, ToDo, SendPostSale, SendPreSale, Sent
<1>2. Sent(a, s) /\ UNCHANGED <<url, job, posts, edited, faults>>
  BY DEF SendPostSale, SendPreSale
<1>3. \/ Enqueue(m)
      \/ url[s] = "blank" /\ UNCHANGED <<queue, fate>>
  BY DEF SendPostSale, SendPreSale
<1>4. Queued'
  <2>1. CASE Enqueue(m)
    BY <1>1, <1>2, <2>1, EnqueueStep DEF IInv, Queued
  <2>2. CASE UNCHANGED <<queue, fate>>
    BY <1>2, <2>2, SameTasks, WebhookConstants DEF IInv, TypeOK, Queued
  <2> QED
    BY <1>3, <2>1, <2>2
<1>5. \A n \in Messages : n # m => fate'[n] = fate[n]
  BY <1>3 DEF Enqueue, IInv, TypeOK
<1>6. fate'[m] # "unsent" \/ url[s] = "blank"
  BY <1>1, <1>3 DEF Enqueue, IInv, TypeOK
<1>7. /\ \A b \in Announcements : todo'[b] = IF b = a THEN todo[a] \ {s} ELSE todo[b]
      /\ \A b \in Announcements : b # a => stage'[b] = stage[b]
      /\ stage[a] = "sending" /\ s \in todo[a]
      /\ \/ todo[a] = {s} /\ stage'[a] = "mail" /\ Kind[a] = "sale"
         \/ todo[a] = {s} /\ stage'[a] = "done" /\ Kind[a] # "sale"
         \/ stage'[a] = "sending"
  BY <1>2, WebhookConstants DEF IInv, TypeOK, Sent, AfterSystems
<1>8. /\ \A b \in Announcements : fate'[<<b, Mail>>] = fate[<<b, Mail>>]
      /\ \A b \in Announcements, t \in Systems : b # a \/ t # s => fate'[<<b, t>>] = fate[<<b, t>>]
      /\ \A b \in Announcements : todo[b] \subseteq Systems /\ SystemsOf[b] \subseteq Systems
  BY <1>5, MessageTypes, WebhookConstants DEF IInv, TypeOK
<1>9. ToDo'
  BY <1>7, <1>8 DEF IInv, ToDo
<1>10. Told'
  BY <1>2, <1>6, <1>7, <1>8 DEF IInv, ToDo, Told
<1> QED
  BY <1>4, <1>9, <1>10

LEMMA MailStep ==
  ASSUME IInv, NEW a \in Announcements, SendMail(a)
  PROVE  Queued' /\ ToDo' /\ Told'
<1> DEFINE m == <<a, Mail>>
<1>1. m \in Messages /\ fate[m] = "unsent"
  BY MessageTypes DEF IInv, ToDo, SendMail
<1>2. Queued'
  BY <1>1, EnqueueStep DEF IInv, Queued, SendMail
<1>3. fate'[m] = "pending" /\ \A n \in Messages : n # m => fate'[n] = fate[n]
  BY <1>1 DEF SendMail, Enqueue, IInv, TypeOK
<1>4. /\ \A b \in Announcements : stage'[b] = IF b = a THEN "done" ELSE stage[b]
      /\ \A b \in Announcements : b # a => fate'[<<b, Mail>>] = fate[<<b, Mail>>]
      /\ \A b \in Announcements, t \in Systems : fate'[<<b, t>>] = fate[<<b, t>>]
      /\ \A b \in Announcements : todo[b] \subseteq Systems /\ SystemsOf[b] \subseteq Systems
      /\ stage[a] = "mail" /\ UNCHANGED <<url, todo, edited>>
  BY <1>3, MessageTypes, WebhookConstants DEF IInv, TypeOK, SendMail
<1>5. ToDo'
  BY <1>3, <1>4 DEF IInv, ToDo
<1>6. Told'
  BY <1>3, <1>4 DEF IInv, ToDo, Told
<1> QED
  BY <1>2, <1>5, <1>6

LEMMA FailStep ==
  ASSUME IInv, NEW a \in Announcements, Fail(a)
  PROVE  Queued' /\ ToDo' /\ Told'
<1> USE DEF IInv, Fail
<1>1. Queued'
  BY SameTasks, WebhookConstants DEF TypeOK, Queued
<1>2. ToDo' /\ Told'
  BY WebhookConstants DEF ToDo, Told, TypeOK, Stages
<1> QED
  BY <1>1, <1>2

LEMMA EditStep ==
  ASSUME IInv, NEW s \in Systems, EditSystem(s)
  PROVE  Queued' /\ ToDo' /\ Told'
<1> USE DEF IInv, EditSystem
<1>1. Queued'
  BY SameTasks, WebhookConstants DEF TypeOK, Queued
<1>2. ToDo' /\ Told'
  BY WebhookConstants DEF ToDo, Told, TypeOK
<1> QED
  BY <1>1, <1>2

-----------------------------------------------------------------------------
(* Consumers.                                                              *)

\* A worker's step moves the fate only of messages that have been sent.
LEMMA Unmoved ==
  ASSUME IInv, UNCHANGED <<url, stage, todo, edited>>, TypeOK',
         \A m \in Messages : (fate'[m] = "unsent") <=> (fate[m] = "unsent")
  PROVE  ToDo' /\ Told'
BY MessageTypes, WebhookConstants DEF IInv, ToDo, Told, TypeOK

LEMMA TakeStep ==
  ASSUME IInv, TypeOK', NEW w \in Workers, Take(w)
  PROVE  Queued' /\ ToDo' /\ Told'
<1> PICK t \in queue : queue' = queue \ {t} /\ job' = [job EXCEPT ![w] = t]
  BY DEF Take, Acknowledge
<1>1. /\ t \in Tasks /\ t # None /\ t.msg \in Messages
      /\ job[w] = None
      /\ \A v \in Workers : job'[v] = IF v = w THEN t ELSE job[v]
      /\ \A u \in queue : u.msg = t.msg => u = t
  <2>1. ASSUME NEW u \in queue, u.msg = t.msg PROVE u = t
    <3>1. u \in Tasks /\ t \in Tasks /\ u.attempt = t.attempt
      BY <2>1 DEF IInv, TypeOK, Counted
    <3> QED
      BY <2>1, <3>1 DEF Tasks
  <2> QED
    BY <2>1, WebhookNone DEF IInv, TypeOK, Tasks, Take
<1>2. Counted'
  BY <1>1 DEF IInv, Counted, Take
<1>3. Apart'
  BY <1>1 DEF IInv, Apart
<1>4. ASSUME NEW m \in Messages PROVE (Waiting(m) \/ Running(m))' = (Waiting(m) \/ Running(m))
  BY <1>1 DEF Waiting, Running
<1>5. HasTask'
  BY <1>4 DEF IInv, HasTask, Take
<1>6. Tries'
  BY DEF IInv, Tries, Take
<1>7. ToDo' /\ Told'
  BY Unmoved DEF Take
<1> QED
  BY <1>2, <1>3, <1>5, <1>6, <1>7 DEF Queued

\* What a worker runs, seen from its message.
LEMMA JobFacts ==
  ASSUME IInv, NEW w \in Workers, job[w] # None
  PROVE  LET m == job[w].msg
         IN  /\ job[w] \in Tasks /\ m \in Messages
             /\ job[w].attempt = posts[m] /\ posts[m] \in Nat
             /\ fate[m] = "pending" /\ posts[m] < RetryMax
             /\ \A t \in queue : t.msg # m
             /\ \A v \in Workers : job[v] # None /\ job[v].msg = m => v = w
BY DEF IInv, TypeOK, Counted, Apart, HasTask, Tries, Running, Tasks

\* The task ends for good.
LEMMA EndStep ==
  ASSUME IInv, TypeOK', NEW w \in Workers, job[w] # None, NEW e \in Ended,
         NEW n \in {0, 1},
         posts' = [posts EXCEPT ![job[w].msg] = @ + n],
         fate' = [fate EXCEPT ![job[w].msg] = e],
         e = "gaveup" => posts'[job[w].msg] = RetryMax,
         e = "lost" => faults' > 0,
         Free(w), faults <= faults', UNCHANGED <<url, stage, todo, queue, edited>>
  PROVE  Queued' /\ ToDo' /\ Told'
<1> DEFINE m == job[w].msg
<1> USE WebhookConstants, WebhookNone
<1>1. /\ m \in Messages /\ posts[m] \in Nat /\ fate[m] = "pending" /\ posts[m] < RetryMax
      /\ \A t \in queue : t.msg # m
      /\ \A v \in Workers : job[v] # None /\ job[v].msg = m => v = w
  BY JobFacts
<1>2. /\ \A k \in Messages : posts'[k] = IF k = m THEN posts[m] + n ELSE posts[k]
      /\ \A k \in Messages : fate'[k] = IF k = m THEN e ELSE fate[k]
      /\ \A v \in Workers : job'[v] = IF v = w THEN None ELSE job[v]
      /\ e # "pending" /\ e # "unsent"
  BY <1>1 DEF IInv, TypeOK, Free, Ended
<1>3. /\ \A t \in queue : t.msg \in Messages
      /\ \A v \in Workers : job[v] # None => job[v].msg \in Messages
  BY DEF IInv, TypeOK, Tasks
<1>4. Counted'
  BY <1>1, <1>2, <1>3 DEF IInv, Counted
<1>5. Apart'
  BY <1>2 DEF IInv, Apart
<1>6. ASSUME NEW k \in Messages
      PROVE  (Waiting(k) \/ Running(k))' <=> k # m /\ (Waiting(k) \/ Running(k))
  BY <1>1, <1>2, <1>3 DEF Waiting, Running
<1>7. HasTask'
  BY <1>2, <1>6 DEF IInv, HasTask
<1>8. Tries'
  BY <1>1, <1>2 DEF IInv, Tries, TypeOK
<1>9. ToDo' /\ Told'
  BY <1>1, <1>2, Unmoved
<1> QED
  BY <1>4, <1>5, <1>7, <1>8, <1>9 DEF Queued

\* The task is queued again.
LEMMA RetryStep ==
  ASSUME IInv, TypeOK', NEW w \in Workers, NoAnswer(w), ~ IsLast(Attempt(job[w]))
  PROVE  Queued' /\ ToDo' /\ Told'
<1> DEFINE m == job[w].msg
           u == [msg |-> m, attempt |-> Attempt(job[w])]
<1> USE WebhookConstants, WebhookNone
<1>1. /\ m \in Messages /\ posts[m] \in Nat /\ fate[m] = "pending" /\ posts[m] < RetryMax
      /\ job[w].attempt = posts[m]
      /\ \A t \in queue : t.msg # m
      /\ \A v \in Workers : job[v] # None /\ job[v].msg = m => v = w
  BY JobFacts DEF NoAnswer
<1>2. /\ \A k \in Messages : posts'[k] = IF k = m THEN posts[m] + 1 ELSE posts[k]
      /\ fate' = fate /\ faults' = faults
      /\ \A v \in Workers : job'[v] = IF v = w THEN None ELSE job[v]
      /\ queue' = queue \cup {u}
      /\ posts[m] + 1 # RetryMax
      /\ u.msg = m /\ u.attempt = posts[m] + 1
  BY <1>1 DEF IInv, TypeOK, Free, NoAnswer, IsLast, Attempt
<1>3. /\ \A t \in queue : t.msg \in Messages
      /\ \A v \in Workers : job[v] # None => job[v].msg \in Messages
  BY DEF IInv, TypeOK, Tasks
<1> HIDE DEF u
<1>4. Counted'
  BY <1>1, <1>2, <1>3 DEF IInv, Counted
<1>5. Apart'
  BY <1>1, <1>2 DEF IInv, Apart
<1>6. ASSUME NEW k \in Messages
      PROVE  (Waiting(k) \/ Running(k))' <=> (Waiting(k) \/ Running(k))
  <2>1. (Waiting(k) \/ Running(k))' <=> k = m \/ Waiting(k) \/ (k # m /\ Running(k))
    BY <1>1, <1>2 DEF Waiting, Running
  <2>2. Running(m)
    BY DEF Running, NoAnswer
  <2> QED
    BY <2>1, <2>2
<1>7. HasTask'
  BY <1>2, <1>6 DEF IInv, HasTask
<1>8. Tries'
  BY <1>1, <1>2 DEF IInv, Tries, TypeOK
<1>9. ToDo' /\ Told'
  BY <1>2, Unmoved DEF NoAnswer
<1> QED
  BY <1>4, <1>5, <1>7, <1>8, <1>9 DEF Queued

LEMMA WorkStep ==
  ASSUME IInv, TypeOK', NEW w \in Workers, dispatch_webhook(w) \/ Crash(w)
  PROVE  Queued' /\ ToDo' /\ Told'
<1> USE WebhookConstants
<1>1. job[w] # None /\ faults \in Nat
  BY DEF dispatch_webhook, Answered, NoAnswer, Dropped, MailFails, Crash, IInv, TypeOK
<1>2. CASE Answered(w) \/ Drop(w)
  <2> PICK e \in {"answered", "dropped"} : fate' = [fate EXCEPT ![job[w].msg] = e]
    BY <1>2 DEF Answered, Drop
  <2>1. /\ e \in Ended /\ e # "gaveup" /\ e # "lost"
        /\ Free(w) /\ faults <= faults' /\ UNCHANGED <<url, stage, todo, queue, edited>>
        /\ posts' = [posts EXCEPT ![job[w].msg] = @ + 1]
        /\ 1 \in {0, 1}
    BY <1>1, <1>2 DEF Answered, Drop, Ended
  <2> QED
    BY <1>1, <2>1, EndStep
<1>3. CASE NoAnswer(w) /\ ~ IsLast(Attempt(job[w]))
  BY <1>3, RetryStep
<1>4. CASE NoAnswer(w) /\ IsLast(Attempt(job[w]))
  <2>1. posts'[job[w].msg] = RetryMax
    BY <1>1, <1>4, JobFacts DEF NoAnswer, IsLast, Attempt, IInv, TypeOK
  <2>2. /\ "gaveup" \in Ended /\ "gaveup" # "lost"
        /\ Free(w) /\ faults <= faults' /\ UNCHANGED <<url, stage, todo, queue, edited>>
        /\ posts' = [posts EXCEPT ![job[w].msg] = @ + 1]
        /\ fate' = [fate EXCEPT ![job[w].msg] = "gaveup"]
        /\ 1 \in {0, 1}
    BY <1>1, <1>4 DEF NoAnswer, Ended
  <2> QED
    BY <1>1, <2>1, <2>2, EndStep
<1>5. CASE Crash(w)
  <2> PICK n \in {0, 1} : posts' = [posts EXCEPT ![job[w].msg] = @ + n]
    BY <1>5 DEF Crash
  <2>1. faults' = faults + 1 /\ faults' > 0 /\ faults <= faults'
    BY <1>1, <1>5 DEF Crash
  <2>2. /\ fate' = [fate EXCEPT ![job[w].msg] = "lost"]
        /\ Free(w) /\ UNCHANGED <<url, stage, todo, queue, edited>>
    BY <1>5 DEF Crash
  <2>3. "lost" \in Ended /\ "lost" # "gaveup"
    BY DEF Ended
  <2> QED
    BY <1>1, <2>1, <2>2, <2>3, EndStep
<1> QED
  BY <1>2, <1>3, <1>4, <1>5 DEF dispatch_webhook, Dropped, MailFails

-----------------------------------------------------------------------------
(* The theorems.                                                           *)

\* The invariant is inductive.
LEMMA InvStep == IInv /\ [Next]_vars => IInv'
<1> SUFFICES ASSUME IInv, [Next]_vars PROVE IInv'
    OBVIOUS
<1>1. TypeOK'
  BY TypeStep DEF IInv
<1>2. Queued' /\ ToDo' /\ Told'
  <2>1. CASE UNCHANGED vars
    BY <2>1 DEF vars, IInv, Queued, Counted, Apart, HasTask, Waiting, Running, Tries, ToDo, Told
  <2>2. CASE Next
    BY <1>1, <2>2, AnnounceStep, SendStep, MailStep, FailStep, EditStep, TakeStep, WorkStep
       DEF Next, Hooks
  <2> QED
    BY <2>1, <2>2
<1> QED
  BY <1>1, <1>2 DEF IInv, Queued

\* The invariant holds in every reachable state, for any systems, announcements,
\* workers and number of tries.
THEOREM Invariance == Spec => []IInv
BY InitInv, InvStep, PTL DEF Spec, Safety

\* TypeOK is an invariant.
THEOREM TypeCorrect == Spec => []TypeOK
<1>1. IInv => TypeOK
  BY DEF IInv
<1> QED
  BY <1>1, Invariance, PTL

\* A pending message has exactly one task, which knows how often it was tried.
THEOREM TaskIsUnique == Spec => []OneTask
<1>1. IInv => OneTask
  <2> SUFFICES ASSUME IInv, NEW m \in Messages
               PROVE  /\ \A t \in TasksOf(m) : t.attempt = posts[m]
                      /\ \A w \in RunningOf(m) : job[w].attempt = posts[m]
                      /\ fate[m] = "pending" =>
                           Cardinality(TasksOf(m)) + Cardinality(RunningOf(m)) = 1
                      /\ fate[m] # "pending" => TasksOf(m) = {} /\ RunningOf(m) = {}
      BY DEF OneTask
  <2>1. /\ \A t \in TasksOf(m) : t.attempt = posts[m]
        /\ \A w \in RunningOf(m) : job[w].attempt = posts[m]
    BY DEF IInv, Counted, TasksOf, RunningOf
  <2>2. /\ Waiting(m) <=> TasksOf(m) # {}
        /\ Running(m) <=> RunningOf(m) # {}
    BY DEF Waiting, Running, TasksOf, RunningOf
  <2>3. /\ \A t, u \in TasksOf(m) : t = u
        /\ \A v, w \in RunningOf(m) : v = w
        /\ TasksOf(m) = {} \/ RunningOf(m) = {}
    <3>1. ASSUME NEW t \in TasksOf(m), NEW u \in TasksOf(m) PROVE t = u
      <4>1. t \in Tasks /\ u \in Tasks /\ t.msg = u.msg /\ t.attempt = u.attempt
        BY <2>1 DEF TasksOf, IInv, TypeOK
      <4> QED
        BY <4>1 DEF Tasks
    <3> QED
      BY <3>1 DEF IInv, Apart, TasksOf, RunningOf
  <2>4. CASE fate[m] # "pending"
    BY <2>1, <2>2, <2>4 DEF IInv, HasTask
  <2>5. CASE fate[m] = "pending"
    <3>1. TasksOf(m) # {} \/ RunningOf(m) # {}
      BY <2>2, <2>5 DEF IInv, HasTask
    <3>2. CASE TasksOf(m) # {}
      <4> PICK t \in TasksOf(m) : TRUE
        BY <3>2
      <4>1. TasksOf(m) = {t} /\ RunningOf(m) = {}
        BY <2>3
      <4>2. Cardinality({t}) = 1 /\ Cardinality({}) = 0
        BY FS_Singleton, FS_EmptySet
      <4> QED
        BY <2>1, <2>5, <4>1, <4>2
    <3>3. CASE RunningOf(m) # {}
      <4> PICK w \in RunningOf(m) : TRUE
        BY <3>3
      <4>1. RunningOf(m) = {w} /\ TasksOf(m) = {}
        BY <2>3
      <4>2. Cardinality({w}) = 1 /\ Cardinality({}) = 0
        BY FS_Singleton, FS_EmptySet
      <4> QED
        BY <2>1, <2>5, <4>1, <4>2
    <3> QED
      BY <3>1, <3>2, <3>3
  <2> QED
    BY <2>4, <2>5
<1> QED
  BY <1>1, Invariance, PTL

\* A system is given up only after RetryMax requests; a message is lost only to a crash.
THEOREM TriedEnough == Spec => []GivenUpAfterRetries
<1>1. IInv => GivenUpAfterRetries
  BY DEF IInv, Tries, GivenUpAfterRetries
<1> QED
  BY <1>1, Invariance, PTL

\* At the end of the hooks everybody with a URL has been told.
THEOREM NobodyPassedOver == Spec => []AllTold
<1>1. IInv => AllTold
  BY DEF IInv, ToDo, Told, AllTold
<1> QED
  BY <1>1, Invariance, PTL

\* The customer's mail is queued after the systems' messages.
THEOREM MailComesLast == Spec => []MailIsLast
<1>1. IInv => MailIsLast
  BY DEF IInv, ToDo, MailIsLast
<1> QED
  BY <1>1, Invariance, PTL

-----------------------------------------------------------------------------
(* Webhooks implements the safety of Delivery: each step of it queues a    *)
(* message, tries one, loses one, or does nothing that Delivery sees.      *)

Outcome == [m \in Messages |-> IF fate[m] \in Ended THEN "settled" ELSE fate[m]]

\* Delivery's step, written out for one message.
Step(m) == Promise!Queue(m) \/ Promise!Try(m) \/ Promise!Lose(m)

LEMMA QueueMaps ==
  ASSUME IInv, NEW m \in Messages, fate[m] = "unsent", Enqueue(m), posts' = posts
  PROVE  Promise!Queue(m)
<1>1. \A n \in Messages : fate'[n] = IF n = m THEN "pending" ELSE fate[n]
  BY DEF IInv, TypeOK, Enqueue
<1> QED
  BY <1>1 DEF Promise!Queue, Ended

\* A task that ends, with one more request or without, settles its message.
LEMMA EndMaps ==
  ASSUME IInv, NEW w \in Workers, job[w] # None, NEW m \in Messages, m = job[w].msg,
         NEW e \in Ended, NEW n \in {0, 1},
         posts' = [posts EXCEPT ![m] = @ + n],
         fate' = [fate EXCEPT ![m] = e]
  PROVE  Step(m)
<1>1. m \in Messages /\ posts[m] \in Nat /\ fate[m] = "pending" /\ posts[m] < RetryMax
  BY JobFacts
<1>2. \A k \in Messages : fate'[k] = IF k = m THEN e ELSE fate[k]
  BY <1>1 DEF IInv, TypeOK
<1>3. Outcome' = [Outcome EXCEPT ![m] = "settled"] /\ Outcome[m] = "pending"
  BY <1>1, <1>2 DEF Outcome, Ended
<1>4. CASE n = 1
  BY <1>1, <1>3, <1>4 DEF Step, Promise!Try, Outcome
<1>5. CASE n = 0
  <2>1. posts' = posts
    BY <1>1, <1>5 DEF IInv, TypeOK
  <2> QED
    BY <1>1, <1>3, <2>1 DEF Step, Promise!Lose, Outcome
<1> QED
  BY <1>4, <1>5

\* A task that is queued again has tried once more.
LEMMA RetryMaps ==
  ASSUME IInv, NEW w \in Workers, NEW m \in Messages, m = job[w].msg,
         NoAnswer(w), ~ IsLast(Attempt(job[w]))
  PROVE  Step(m)
<1>1. /\ m \in Messages /\ posts[m] \in Nat /\ fate[m] = "pending" /\ posts[m] < RetryMax
      /\ job[w].attempt = posts[m]
  BY JobFacts DEF NoAnswer
<1>2. fate' = fate /\ posts' = [posts EXCEPT ![m] = @ + 1] /\ posts[m] + 1 < RetryMax
  BY <1>1, WebhookConstants DEF NoAnswer, IsLast, Attempt
<1> QED
  BY <1>1, <1>2 DEF Step, Promise!Try, Ended

LEMMA StepMaps == IInv /\ [Next]_vars => [Promise!Next]_Promise!vars
<1> SUFFICES ASSUME IInv, [Next]_vars
             PROVE  (\E m \in Messages : Step(m)) \/ UNCHANGED <<fate, posts>>
    BY DEF Step, Promise!Next, Promise!vars
<1>1. ASSUME NEW a \in Announcements, NEW s \in Systems, SendPostSale(a, s) \/ SendPreSale(a, s)
      PROVE  Step(<<a, s>>) \/ UNCHANGED <<fate, posts>>
  <2>1. <<a, s>> \in Messages /\ fate[<<a, s>>] = "unsent"
    BY <1>1, MessageTypes DEF IInv, ToDo, SendPostSale, SendPreSale, Sent
  <2> QED
    BY <1>1, <2>1, QueueMaps DEF SendPostSale, SendPreSale, Step
<1>2. ASSUME NEW a \in Announcements, SendMail(a) PROVE Step(<<a, Mail>>)
  <2>1. <<a, Mail>> \in Messages /\ fate[<<a, Mail>>] = "unsent"
    BY <1>2, MessageTypes DEF IInv, ToDo, SendMail
  <2> QED
    BY <1>2, <2>1, QueueMaps DEF SendMail, Step
<1>3. ASSUME NEW w \in Workers, dispatch_webhook(w) \/ Crash(w),
             NEW m \in Messages, m = job[w].msg
      PROVE  Step(m)
  <2>1. job[w] # None
    BY <1>3 DEF dispatch_webhook, Answered, NoAnswer, Dropped, MailFails, Crash
  <2>2. CASE NoAnswer(w) /\ ~ IsLast(Attempt(job[w]))
    BY <1>3, <2>2, RetryMaps
  <2>3. CASE ~ (NoAnswer(w) /\ ~ IsLast(Attempt(job[w])))
    <3>1. \E e \in Ended, n \in {0, 1} :
             /\ posts' = [posts EXCEPT ![m] = @ + n]
             /\ fate' = [fate EXCEPT ![m] = e]
      BY <1>3, <2>3
         DEF dispatch_webhook, Answered, NoAnswer, Dropped, MailFails, Drop, Crash, Ended
    <3> QED
      BY <1>3, <2>1, <3>1, EndMaps
  <2> QED
    BY <2>2, <2>3
<1>4. ASSUME NEW w \in Workers, dispatch_webhook(w) \/ Crash(w) PROVE job[w].msg \in Messages
  <2>1. job[w] # None
    BY <1>4 DEF dispatch_webhook, Answered, NoAnswer, Dropped, MailFails, Crash
  <2> QED
    BY <2>1, JobFacts
<1>5. CASE UNCHANGED vars
  BY <1>5 DEF vars
<1>6. ASSUME NEW a \in Announcements, Announce(a) \/ Fail(a) PROVE UNCHANGED <<fate, posts>>
  BY <1>6 DEF Announce, Fail
<1>7. ASSUME NEW s \in Systems, EditSystem(s) PROVE UNCHANGED <<fate, posts>>
  BY <1>7 DEF EditSystem
<1>8. ASSUME NEW w \in Workers, Take(w) PROVE UNCHANGED <<fate, posts>>
  BY <1>8 DEF Take
<1> HIDE DEF Step
<1>9. CASE \E a \in Announcements : Hooks(a) \/ Fail(a)
  BY <1>1, <1>2, <1>6, <1>9, MessageTypes DEF Hooks
<1>10. CASE \E w \in Workers : Take(w) \/ dispatch_webhook(w) \/ Crash(w)
  <2> PICK w \in Workers : Take(w) \/ dispatch_webhook(w) \/ Crash(w)
    BY <1>10
  <2>1. CASE Take(w)
    BY <1>8, <2>1
  <2>2. CASE dispatch_webhook(w) \/ Crash(w)
    <3> PICK m \in Messages : m = job[w].msg
      BY <1>4, <2>2
    <3>1. Step(m)
      BY <1>3, <2>2
    <3> QED
      BY <3>1
  <2> QED
    BY <2>1, <2>2
<1> QED
  BY <1>5, <1>7, <1>9, <1>10 DEF Next

\* A message is queued once, tried at most RetryMax times, and left alone when settled.
THEOREM ImplementsDelivery == Spec => Promise!Safety
<1>1. Init => Promise!Init
  BY DEF Init, Promise!Init, Ended
<1> QED
  BY <1>1, Invariance, StepMaps, PTL DEF Spec, Safety, Promise!Safety
=============================================================================
