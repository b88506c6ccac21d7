------------------------------ MODULE Webhooks ------------------------------
(***************************************************************************)
(* How integrated systems are told of sales, refunds and basket additions, *)
(* and customers of sales: payments/hooks/post_sale.py, the webhook        *)
(* functions of payments/api.py, payments/tasks.py and payments/mail_api.  *)
(*                                                                         *)
(* An announcement is one run of the hooks in a web process or a task.  It *)
(* queues one Celery task for each system with a webhook URL, then, for a  *)
(* sale, one for the mail.  Celery takes a task off the queue before it    *)
(* runs it, so that a task dies with its worker.  A worker posts to the    *)
(* system; without an answer it queues the task again, with its number of  *)
(* attempts one higher, until that number is RetryMax.                     *)
(*                                                                         *)
(* The status code of an answer is not looked at (there is no              *)
(* raise_for_status), so an answer is an answer here, 200 or 500.          *)
(***************************************************************************)
EXTENDS Naturals, FiniteSets

CONSTANTS
  Systems,        \* IntegratedSystem rows
  Announcements,  \* runs of the post_sale, refund_issued or basket_add hook
  Kind,           \* "sale", "refund" or "add"
  SystemsOf,      \* systems of the order's lines; of the basket for an "add"
  Workers,        \* Celery workers
  RetryMax,       \* MITOL_UE_WEBHOOK_RETRY_MAX
  MaxEdits, MaxFaults, \* bounds
  Mail,           \* the customer's mailbox, as the addressee of a message
  None

Messages  == Announcements \X (Systems \cup {Mail})
Sender(m) == m[1]
To(m)     == m[2]

ASSUME WebhookConstants ==
  /\ Kind \in [Announcements -> {"sale", "refund", "add"}]
  /\ SystemsOf \in [Announcements -> SUBSET Systems]
  /\ Mail \notin Systems
  /\ RetryMax \in Nat \ {0} /\ MaxEdits \in Nat /\ MaxFaults \in Nat

\* A queued or running task: the message and its attempt_count.
Tasks == [msg : Messages, attempt : Nat]

ASSUME WebhookNone == None \notin Tasks

VARIABLES
  url,     \* url[s]: "set", "blank" (no webhook_url), or "deleted" (a soft-deleted system)
  stage,   \* stage[a]: how far announcement a has come
  todo,    \* todo[a]: systems it has still to queue a task for
  queue,   \* Celery's queue
  job,     \* job[w]: the task a worker is running
  fate,    \* fate[m]: what became of a message
  posts,   \* posts[m]: requests made, or mails handed to the mail server
  edited,  \* systems an administrator has edited
  faults   \* crashes and broker failures so far

vars == <<url, stage, todo, queue, job, fate, posts, edited, faults>>

Stages == {"new", "sending", "mail", "done", "failed"}
Ended  == {"answered", "gaveup", "dropped", "lost"}

TypeOK ==
  /\ url \in [Systems -> {"set", "blank", "deleted"}]
  /\ stage \in [Announcements -> Stages]
  /\ todo \in [Announcements -> SUBSET Systems]
  /\ queue \subseteq Tasks
  /\ job \in [Workers -> Tasks \cup {None}]
  /\ fate \in [Messages -> {"unsent", "pending"} \cup Ended]
  /\ posts \in [Messages -> Nat]
  /\ edited \subseteq Systems
  /\ faults \in 0 .. MaxFaults

Init ==
  /\ url \in [Systems -> {"set", "blank"}]
  /\ stage = [a \in Announcements |-> "new"]
  /\ todo = [a \in Announcements |-> {}]
  /\ queue = {}
  /\ job = [w \in Workers |-> None]
  /\ fate = [m \in Messages |-> "unsent"]
  /\ posts = [m \in Messages |-> 0]
  /\ edited = {}
  /\ faults = 0

-----------------------------------------------------------------------------
(* Producers: the hooks.                                                   *)

\* An announcement without anything left to queue for systems goes on to the
\* mail hook, which only a sale has.
AfterSystems(a) == IF Kind[a] = "sale" THEN "mail" ELSE "done"

\* Mutant: the first system without a URL ends the loop.
ListedAll(a) == IF \E s \in SystemsOf[a] : url[s] = "blank" THEN {} ELSE SystemsOf[a]

\* process_post_sale_webhooks leaves out systems without a URL and goes on.
Listed(a) == {s \in SystemsOf[a] : url[s] # "blank"}

\* process_post_sale_webhooks reads the order's systems; send_pre_sale_webhook
\* the basket's one.
Announce(a) ==
  /\ stage[a] = "new"
  /\ LET with == Listed(a)
     IN  /\ todo' = [todo EXCEPT ![a] = with]
         /\ stage' = [stage EXCEPT ![a] = IF with = {} THEN AfterSystems(a) ELSE "sending"]
  /\ UNCHANGED <<url, queue, job, fate, posts, edited, faults>>

\* dispatch_webhook.delay or successful_order_payment_email_task.delay.
Enqueue(m) ==
  /\ queue' = queue \cup {[msg |-> m, attempt |-> 0]}
  /\ fate' = [fate EXCEPT ![m] = "pending"]

Sent(a, s) ==
  /\ stage[a] = "sending" /\ s \in todo[a]
  /\ todo' = [todo EXCEPT ![a] = @ \ {s}]
  /\ stage' = [stage EXCEPT ![a] = IF todo[a] = {s} THEN AfterSystems(a) ELSE @]

\* send_post_sale_webhook reads the system again: it may have lost its URL, which
\* skips it, or, like any system of the order, have been deleted, which raises
\* (Fail).
SendPostSale(a, s) ==
  /\ Kind[a] # "add"
  /\ Sent(a, s)
  /\ \A t \in SystemsOf[a] : url[t] # "deleted"
  /\ IF url[s] = "blank" THEN UNCHANGED <<queue, fate>> ELSE Enqueue(<<a, s>>)
  /\ UNCHANGED <<url, job, posts, edited, faults>>

\* send_pre_sale_webhook has the basket's system at hand.
SendPreSale(a, s) ==
  /\ Kind[a] = "add"
  /\ Sent(a, s)
  /\ Enqueue(<<a, s>>)
  /\ UNCHANGED <<url, job, posts, edited, faults>>

\* Mutant: the mail hook does not wait for the webhook hook.
SendMailFirst(a) ==
  /\ stage[a] \in {"sending", "mail"}
  /\ fate[<<a, Mail>>] = "unsent"
  /\ stage' = [stage EXCEPT ![a] = IF @ = "mail" THEN "done" ELSE @]
  /\ Enqueue(<<a, Mail>>)
  /\ UNCHANGED <<url, todo, job, posts, edited, faults>>

\* The hook that queues the mail runs after the one for the webhooks.
SendMail(a) ==
  /\ stage[a] = "mail"
  /\ stage' = [stage EXCEPT ![a] = "done"]
  /\ Enqueue(<<a, Mail>>)
  /\ UNCHANGED <<url, todo, job, posts, edited, faults>>

\* What raises in a hook ends all that is left of the announcement: a deleted
\* system, the broker, or the end of the process.
Fail(a) ==
  /\ stage[a] \in {"sending", "mail"}
  /\ \/ /\ stage[a] = "sending" /\ Kind[a] # "add"
        /\ \E t \in SystemsOf[a] : url[t] = "deleted"
        /\ UNCHANGED faults
     \/ faults < MaxFaults /\ faults' = faults + 1
  /\ stage' = [stage EXCEPT ![a] = "failed"]
  /\ todo' = [todo EXCEPT ![a] = {}]
  /\ UNCHANGED <<url, queue, job, fate, posts, edited>>

\* An administrator changes the system's row.
EditSystem(s) ==
  /\ Cardinality(edited) < MaxEdits
  /\ \E u \in {"set", "blank", "deleted"} \ {url[s]} : url' = [url EXCEPT ![s] = u]
  /\ edited' = edited \cup {s}
  /\ UNCHANGED <<stage, todo, queue, job, fate, posts, faults>>

-----------------------------------------------------------------------------
(* Consumers: the tasks.                                                   *)

Free(w) == job' = [job EXCEPT ![w] = None]

\* Mutant: the task stays on the queue until it has run.
AcknowledgeLate(t) == queue' = queue

\* The task leaves the queue before it runs (no acks_late).
Acknowledge(t) == queue' = queue \ {t}

Take(w) ==
  /\ job[w] = None
  /\ \E t \in queue : Acknowledge(t) /\ job' = [job EXCEPT ![w] = t]
  /\ UNCHANGED <<url, stage, todo, fate, posts, edited, faults>>

\* requests.post returns; or the mail server takes the mail.
Answered(w) ==
  /\ job[w] # None
  /\ LET m == job[w].msg
     IN  /\ posts' = [posts EXCEPT ![m] = @ + 1]
         /\ fate' = [fate EXCEPT ![m] = "answered"]
  /\ Free(w)
  /\ UNCHANGED <<url, stage, todo, queue, edited, faults>>

\* Mutants: the count of attempts starts anew; it is looked at one too early.
AttemptAnew(t) == 1
IsLastButOne(n) == n + 1 = RetryMax

Attempt(t) == t.attempt + 1
IsLast(n) == n = RetryMax

\* Timeout, ConnectionError or HTTPError: the system may have got the request.
\* It is given up when it has been tried often enough, and queued again otherwise.
NoAnswer(w) ==
  /\ job[w] # None /\ To(job[w].msg) # Mail
  /\ LET m == job[w].msg
         n == Attempt(job[w])
     IN  /\ posts' = [posts EXCEPT ![m] = @ + 1]
         /\ IF IsLast(n)
            THEN /\ fate' = [fate EXCEPT ![m] = "gaveup"]
                 /\ UNCHANGED queue
            ELSE /\ queue' = queue \cup {[msg |-> m, attempt |-> n]}
                 /\ UNCHANGED fate
  /\ Free(w)
  /\ UNCHANGED <<url, stage, todo, edited, faults>>

\* The task ends without an answer, and nobody tries again.
Drop(w) ==
  /\ LET m == job[w].msg
     IN  /\ posts' = [posts EXCEPT ![m] = @ + 1]
         /\ fate' = [fate EXCEPT ![m] = "dropped"]
  /\ Free(w)
  /\ UNCHANGED <<url, stage, todo, queue, edited, faults>>

\* Any other RequestException is logged: a wrong URL, too many redirects, gibberish.
Dropped(w) == job[w] # None /\ To(job[w].msg) # Mail /\ Drop(w)

\* send_successful_order_payment_email catches everything.
MailFails(w) == job[w] # None /\ To(job[w].msg) = Mail /\ Drop(w)

\* Mutant: the connection to the broker is lost with the task.
CrashSilent(w) ==
  /\ job[w] # None
  /\ fate' = [fate EXCEPT ![job[w].msg] = "lost"]
  /\ Free(w)
  /\ faults' = faults + 1
  /\ UNCHANGED <<url, stage, todo, queue, posts, edited>>

\* The worker dies, or cannot queue the task again: nothing remembers it.
Crash(w) ==
  /\ job[w] # None /\ faults < MaxFaults
  /\ LET m == job[w].msg
     IN  /\ \E n \in {0, 1} : posts' = [posts EXCEPT ![m] = @ + n]
         /\ fate' = [fate EXCEPT ![m] = "lost"]
  /\ Free(w)
  /\ faults' = faults + 1
  /\ UNCHANGED <<url, stage, todo, queue, edited>>

dispatch_webhook(w) == Answered(w) \/ NoAnswer(w) \/ Dropped(w) \/ MailFails(w)

Hooks(a) ==
  Announce(a) \/ (\E s \in Systems : SendPostSale(a, s) \/ SendPreSale(a, s)) \/ SendMail(a)

Next ==
  \/ \E a \in Announcements : Hooks(a) \/ Fail(a)
  \/ \E s \in Systems : EditSystem(s)
  \/ \E w \in Workers : Take(w) \/ dispatch_webhook(w) \/ Crash(w)

Safety == Init /\ [][Next]_vars

\* A worker that is up takes the next task, and a request ends, by its answer or
\* by its timeout of 30 seconds.
Spec ==
  /\ Safety
  /\ \A w \in Workers : WF_vars(Take(w)) /\ WF_vars(dispatch_webhook(w))

-----------------------------------------------------------------------------
(* Properties.                                                             *)

\* A pending message has exactly one task, on the queue or with one worker, and
\* the task knows how many requests were made: no retry runs beside the task it
\* replaces, and none starts to count anew.
TasksOf(m) == {t \in queue : t.msg = m}
RunningOf(m) == {w \in Workers : job[w] # None /\ job[w].msg = m}

OneTask ==
  \A m \in Messages :
    /\ \A t \in TasksOf(m) : t.attempt = posts[m]
    /\ \A w \in RunningOf(m) : job[w].attempt = posts[m]
    /\ fate[m] = "pending" => Cardinality(TasksOf(m)) + Cardinality(RunningOf(m)) = 1
    /\ fate[m] # "pending" => TasksOf(m) = {} /\ RunningOf(m) = {}

\* A system is given up only after RetryMax requests without an answer; whatever
\* was lost was lost to a crash.
GivenUpAfterRetries ==
  \A m \in Messages :
    /\ posts[m] <= RetryMax
    /\ fate[m] = "gaveup" => posts[m] = RetryMax
    /\ fate[m] = "lost" => faults > 0

\* Systems without a URL do not keep the others from being told: at the end of
\* the hooks each system whose row stayed as it was and has a URL has its message,
\* and so has the customer of a sale.
AllTold ==
  \A a \in Announcements : stage[a] = "done" =>
    /\ \A s \in SystemsOf[a] \ edited : url[s] = "set" => fate[<<a, s>>] # "unsent"
    /\ Kind[a] = "sale" => fate[<<a, Mail>>] # "unsent"

\* The mail comes last: no customer hears of a sale whose systems were not told.
MailIsLast ==
  \A a \in Announcements : fate[<<a, Mail>>] # "unsent" =>
    /\ Kind[a] = "sale" /\ stage[a] = "done" /\ todo[a] = {}

\* The queue keeps Delivery's promises.
Promise == INSTANCE Delivery
  WITH Limit <- RetryMax, tries <- posts,
       fate <- [m \in Messages |-> IF fate[m] \in Ended THEN "settled" ELSE fate[m]]

KeepsItsPromise == Promise!Spec

=============================================================================
