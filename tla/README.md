# Unified Ecommerce in TLA+

A verification project for Unified Ecommerce, the shop behind several learning
systems: TLA+ models of its core logic, TLC runs that check them on small
shops, and TLAPS proofs for shops of any size. Paths below are relative to the
repository; `payments/models.py:941` is line 941 of that file.

## The system

Django processes (uWSGI workers) serve customers and the payment gateway's
callbacks, Celery workers run queued tasks, and both share one PostgreSQL
database. There is no other coordination: what keeps two requests apart is
`transaction.atomic`, `select_for_update`, and nothing where neither is used.
`ATOMIC_REQUESTS` is off, so a statement outside `transaction.atomic` commits
by itself.

| Component | State | Operations | Talks to | Models |
| --- | --- | --- | --- | --- |
| Checkout and callbacks (`payments/api.py`, `payments/views/v0`) | orders, lines, transactions, redemptions | `start_checkout` / `generate_checkout_payload`, the redirect and back office callbacks | baskets, catalogue, gateway, post-sale hooks | `Checkout` |
| Order lifecycle (`payments/models.py`) | `Order.state` | `fulfill`, `cancel`, `decline`, `errored`, `refund` | hooks | `OrderLifecycle`, `Checkout`, `Refunds` |
| Baskets (`payments/models.py`, views, `basket_add` hooks, `users/api.py`) | baskets, items, location, tax rate, blocked countries | establish, add, remove, clear, apply a code | codes, catalogue, geolocation, presale webhook | `Baskets`, and as far as checkout goes `Checkout` |
| Discount codes | codes, redemption rows | generate, update, deactivate, edit, validate, apply, redeem | baskets, orders | `Discounts` |
| Pricing (`payments/utils.py`, `Line`, `BasketItem`) | none | discounted price, tax, totals, the form's cents | baskets, orders | `Pricing` |
| Webhooks and mail (`payments/tasks.py`, hooks) | the Celery queue | `dispatch_webhook` and its retries, mails | integrated systems | `Webhooks`, `Delivery` |
| Refund requests (`refunds/`) | requests, lines, access codes | create, edit, delete, approve, deny, process, Google Sheets rows | orders, gateway, hooks | `Refunds` |
| Refund command (`payments/api.py:252`) | transactions | `refund_order`, which nothing in the repository calls | gateway | - |
| Catalogue (`system_meta/`) | systems, products, versions | save with or without a revision, soft delete, import, preload, Learn synchronisation | baskets, lines, Learn | `Catalogue`, `Learn` |
| Users and sessions (`users/`, `unified_ecommerce/`) | users, profiles | profile country | geolocation | `Baskets` (location) |
| Cart pages, administration, serializers, schema generation, settings | none of their own | | | where they write what others race for |

### What is hard

* **Concurrency.** The redirect and the back office report the same payment at
  the same time; customers double-click checkout; a checkout that costs
  nothing races with one that does not. The correct outcome: an order is
  settled once, and stays so.
* **Reuse of pending orders.** A checkout takes up any pending order of the
  customer that shares a product version with the basket. Lines are added and
  never removed, so the order is more than the basket it is built from.
* **Failure.** A process dies before its commit, after its tasks are queued;
  the broker refuses one of two tasks; the gateway's payload lacks a field.
* **Delivery.** The redirect may never come, or come twice, or after the back
  office's report, or after a later payment's. Webhooks are tried again; a task
  dies with its worker.
* **Stale rows.** Django's `save` writes every column of what was once read, and
  inserts the row again if it was deleted. Baskets, products, codes and refund
  requests are all saved that way, after calls to geolocation, Learn or the
  gateway, or after an administrator has looked at a form for a while.
* **Several tables, no transaction.** A request that puts products in a basket
  is a dozen statements that commit one by one; codes are redeemed after the
  order has been committed; systems are told, or not, one after the other.
* **Refunds.** The gateway is called inside a transaction that may roll back, no
  row is locked, tasks and sheet runs work at the same time, and the customer
  may delete the request at any moment, also while it is processed.

`PROJECT.json` lists each hazard at its line, with the properties that cover
it or the reason why none does yet.

## The models

| Module | Models |
| --- | --- |
| `Checkout` | baskets in brief, checkout, the gateway, callbacks, fulfilment |
| `OrderLifecycle` | what an order promises to anyone outside |
| `Refunds` | refund requests, from their creation to the returned money |
| `Webhooks` | the hooks that queue messages, the queue, the tasks that deliver them |
| `Delivery` | what the queue promises of a message |
| `Pricing` | what items, lines and forms cost, as operators |
| `Baskets` | one customer's baskets, statement by statement (extends `Pricing`) |
| `Discounts` | the life of discount codes |
| `Learn` | what the shop makes of Learn's answer, as operators |
| `Catalogue` | systems and products, and all who write them (extends `Learn`) |
| `MCCheckout`, `MCRefunds`, `MCWebhooks`, `MCBaskets`, `MCDiscounts`, `MCCatalogue` | the small shops TLC checks, and the tables over which it evaluates the operators |
| `Checkout_proofs`, `CheckoutLifecycle_proofs`, `Refunds_proofs`, `RefundsBound_proofs`, `Webhooks_proofs`, `Baskets_proofs`, `Discounts_proofs`, `Catalogue_proofs` | inductive invariants and the theorems that follow |

How they meet, though each is checked by itself:

* A refund (`Refunds`) starts from an order that `Checkout` has left FULFILLED
  for good, and only `Refunds` makes it REFUNDED.
* `Fulfill` in `Checkout`, `ApplyRefund` in `Refunds` and `Notify` in `Baskets`
  are announcements "sale", "refund" and "add" in `Webhooks`; the counters
  `webhook` and `mail` of the former are its queue.
* `Checkout` takes a basket as one row that changes in one step. `Baskets` has
  the steps, and orders only as what a checkout has read.
* `Checkout` and `Discounts` share the redemption after the commit (`Redeem`):
  the former with the orders, the latter with the life of the codes.
* Versions that `Catalogue` makes are what `Checkout` charges (`UpdateProduct`).

### Checkout

A worker is a process with one request at a time: `pc[w]` is the request's next
step, `wbasket`, `wvers`, `word`, `wpay` and `wout` are its local variables.
The tables are functions and sets (`ostate`, `olines`, `txns`, ...), which hold
what is committed. `lock[o]` is the worker whose transaction holds the row of
order `o`. One action is one statement or one stretch that nobody else can
observe or disturb:

| Code | Actions |
| --- | --- |
| `_create_basket_from_product`, `add_discount_to_basket`, basket item deletion, `clear_basket` | `AddItem`, `AddDiscount`, `RemoveItem`, `ClearBasket` |
| a product saved under `create_revision` | `UpdateProduct` |
| `_process_basket_products` | `CheckoutBegin` |
| `_get_or_create`: `select_for_update`, or the insert | `ReuseOrder`, `CreateOrder` |
| `_get_or_create`: the lines, the total, the commit, or `DoesNotExist` | `BuildOrder`, `BuildOrderFails` |
| `create_from_basket`: the redemption rows | `Redeem` |
| `generate_checkout_payload`: the form, or no payment | `HandOutForm`, `SkipGateway` |
| `fulfill_completed_order` of a free order | `ZeroFulfill`, `Commit` |
| the customer pays on the gateway's page | `Pay` (external) |
| either callback | `CallbackBegin`, `LoadPending` or `LoadSettled`, `ApplyAcceptance` or `ApplyRejection`, `Commit` |
| the process dies, or the view raises after its hooks | `Crash` |

What PostgreSQL contributes: `FOR UPDATE` waits for the row and then looks
again at the `WHERE` clause (`Matching` in `ReuseOrder` is evaluated when the
rows are free); inserting a redemption needs the order's row to exist and not
to be locked (`Redeem`); an `UPDATE` waits for the row but not for anyone's
opinion of its content (`ZeroFulfill`). A commit writes what the transaction
computed: `Order.save` writes every column, so the one of a checkout that costs
nothing also writes back the total it had computed before.

What Celery contributes: `delay` is not part of the transaction. `webhook[o]`
and `mail[o]` count queued tasks and are not reset by `Crash`.

Abstractions, each with what it hides:

* **Amounts are sets of product versions.** Two amounts are told apart exactly
  when they sum different versions; `Free` holds the versions whose price is
  zero. Discounts are not in the amounts because they are not in the code's:
  `Line.total_price` (`payments/models.py:1267`) and the payload use the
  version's price and ignore `discounted_price`. Tax and quantity are left out.
* **A line is a version**, as the table's unique constraint has it.
* **A code's validity** is its product and its redemption limit; dates,
  assigned users and the code's system do not change within a checkout.
* **Locks on several rows are taken in one step.** PostgreSQL takes them one by
  one; two checkouts that lock the same rows in different orders, which it
  would resolve by aborting one, appear as one waiting for the other.
* **A callback to an order that is already settled** writes nothing; the model
  starts callbacks of pending orders only, which may be settled by the time the
  row is read.
* **Requests on the basket are one step each.** Their interleaving with
  checkouts is what matters here; what they do inside is in `Baskets`. A PUT of
  an item appears as its removal and an addition.

### OrderLifecycle

Four variables less: an order is `absent`, `pending` or settled; it may be
announced while it is pending; fulfilment needs the announcement; there is at
most one receipt, written as the order is settled, and none for a refused
order. `Checkout`'s `Lifecycle` maps `state` to `ostate`, `announced` to the
orders whose mail is queued (the last of the hooks) and `receipts` to the
transactions without their amounts.

### Refunds

A worker is a web process or a Celery worker; `pc[w]` is its next step, `word`,
`wreq`, `wrow`, `wamount`, `wresult` and `wstatus` its local variables. `ledger` is what
the gateway has done, `sheet` the results noted in the Google sheet, `queue`
and `webhook` count queued tasks.

| Code | Actions |
| --- | --- |
| `create_from_order`; a row taken by the sheet task or command | `CreateFromOrder`; `TakeRow`, `RefuseRow` |
| `create_request_from_order`: the request, its lines | `InsertRequest`, `AddLines`, `NamedLinesFail` |
| `process_gsheet_request_row`: `request.save()` | `SaveCreated` |
| `refund_created` hooks: automatic approval, access codes | `LoadCreated`, `AutoApprove`, `SendCode`, `CreateDone` |
| `_check_status_prerequisites`, `Request.approve` | `PrerequisitesHold`, `PrerequisitesFail`, `Approve`, `ApproveLines`, `Enqueue` |
| `queue_process_approved_refund` as a task | `TakeTask` |
| `process_approved_refund`: checks, amount | `Process`, `SumLines`, `SumCancels`, `SumFails`, `CannotProcess` |
| the gateway's answer | `GatewayAccepts`, `GatewayRefuses` |
| the rows and the `refund_issued` hooks; the commit | `ApplyRefund`, `Commit` |
| the sheet's handler notes the result | `Report` (external) |
| the customer edits the request (PATCH) | `LoadEdit`, `SaveEdit` |
| a user adds a row to a request (POST of `refunds/lines`) | `PostLine` |
| the customer deletes the request | `DeleteRequest`; `LostRequest` where a worker finds out |
| a process dies, a time limit, the broker refuses | `Crash` |

`process_approved_refund` is one transaction: what it writes is seen at
`Commit`, and only the order's row, which it has written, makes others wait.
Everything else commits statement by statement. Django's `save` of a row that
was deleted inserts it again: `SaveCreated`, `Approve` and `Commit` therefore
do not ask whether the request is still there, and a request can come back
without lines. The same holds of `SaveEdit`, which also takes the status back to
what it was when the edit began. That is why the properties of the status
(`StatusPath`, `CodesForOpen`) are about requests their customers have not
edited (`edits` remembers which have been); the properties of the money are about
all of them.

`PostLine` is the other writer of request lines. `refunds/lines` is routed as a
full view set. Reading, changing and deleting a row fail there, since the queryset
filters by a field that does not exist (`request__user`, `refunds/views/v0/__init__.py:57`);
POST does not use it. `refunded_amount` is meant to be read-only, but the
serializer spells it `refund_amount` (`refunds/serializers/v0/__init__.py:21`). So
a row for any request, with any line and amount, may appear at any moment: after
approval, before the task sums the rows, or when the request is complete.
`posted` remembers the requests with such rows. One refund per request, one webhook
per request, and that recorded refunds are real hold of them as of all others; what
is said of their *amounts* excepts them (`CompleteIsRefunded`, `AskedAmount`), and
`RefundsBounded` counts them.

Abstractions, each with what it hides:

* **Amounts are sets of lines**; `FreeLines` are those with total price zero.
  A line's `refunded_amount` is its whole price or nothing, because the only
  callers of `approve` name no amounts; or, in a row that a user has posted, what
  the user says: `Custom` is any such amount, also a negative one (`SumCancels`),
  and `Null` is none at all, which the sum cannot add (`SumFails`). A line's
  `status` follows the request's.
* **A row names a line of an order.** Rows that name neither raise exceptions
  that end the run before anything is written. The handler (a library) is
  assumed to hand out a row again until a result has been noted in it, which is
  what `process_gsheet_request_row` says of it; two runs may hand out the same
  row, because nothing the code does keeps the task and the command apart.
* **The gateway answers as it likes.** An answer that is lost is a `Crash` after
  `GatewayAccepts`.
* **Loops over lines and their `save` are one step each** (`AddLines`,
  `ApproveLines`); a deletion in the middle of one appears as `LostRequest`.
* **The order's system has a webhook address**, otherwise nothing is queued.
* **An edit saves the status it has read.** What else it changes (a reason) does
  not matter. Edits by the administration, which can change any column of any
  row, are left out. The status that a posted row may have is not looked at by
  anything.
* **What is out of reach is left out.** POST and PUT of a request need nested
  lines, which its serializer cannot write. `accept_code` has no route
  and `Request.deny` no caller, so a request with a price that came through the
  API gets its access codes and stays CREATED; that is the program's behaviour,
  and the model's.

### Webhooks and Delivery

A run of the hooks is an announcement, of which a web process or a refund task
queues the messages (`stage`, `todo`); a Celery worker has one task (`job`).
`fate` and `posts` say what became of a message and how often it was sent.

| Code | Actions |
| --- | --- |
| `process_post_sale_webhooks`, `send_pre_sale_webhook`: which systems | `Announce` |
| `send_post_sale_webhook`, `dispatch_webhook.delay` | `SendPostSale`, `SendPreSale` |
| the hook for the mail | `SendMail` |
| a hook raises, a process dies, the broker refuses | `Fail` |
| an administrator changes a system | `EditSystem` |
| a worker takes a task | `Take` |
| `dispatch_webhook`: an answer, a timeout, another exception; the mail | `Answered`, `NoAnswer`, `Dropped`, `MailFails` |
| a worker dies, or cannot queue its retry | `Crash` |

`Delivery` knows messages only: unsent, pending, settled, and how often each was
tried. It promises that a message is tried at most `Limit` times, never again
once it is settled, and that every pending message is settled in the end.
`KeepsItsPromise` is that `Webhooks` implements it.

Abstractions: what is in a message is left out, and so is what a task that runs
before its producer's commit would read (payloads are put together by the
producer). The countdown before a retry is time on the queue. An answer counts as
an answer whatever its status, because the code never looks at it. The queue is
a set: the two tasks for a message that a producer might queue would differ in
nothing, but no producer queues two.

### Pricing

Operators without state, in ten-thousandths of a cent: the price of an item with
the best of its basket's codes, its tax and total; the totals a basket shows; the
price of a line; what the gateway's form asks for and what `total_price_paid`
records, rounded. `quantize` is the set of both neighbours when a value lies on
half a cent, since rounding there depends on the context's mode.

TLC evaluates in `MCBaskets`, for every order of up to four codes, that the
code's loop ends with the cheapest price (`LoopFindsCheapest`), and for every
basket of up to two of each product that total = subtotal + tax holds exactly
for baskets of single items (`TotalOfSingles`): `Basket.subtotal` and
`Basket.tax` count one piece of each, `total_price` all.

### Baskets

A request is a worker: `mine` is the basket it has found, `memory` the row as it
has it, `place` the country of its address, `want` and `product` what it adds.
`basket`, `items` and `codes` are the tables.

| Code | Actions |
| --- | --- |
| `establish_basket`: `get_or_create`, `save` | `Find`, `FindNone`, `FindMany`, `InsertBasket`, `SaveNew` |
| `locate_customer_for_basket`, `determine_user_location`, `get_flagged_countries` | `Locate` |
| `check_blocked_countries` | `CheckBlocked`, `CheckPasses` |
| `notify_integrated_system` | `Notify` |
| `check_taxable` | `CheckTaxable` |
| `update_or_create` of the item | `UpdateItem`, `MissItem`, `InsertItem`, `ManyItems` |
| automatic codes, the code given | `ApplyCodes` |
| `clear_basket`; the cart | `Clear`; `Answer` |
| `PendingOrder._get_or_create`, as far as it reads the basket | `CheckOut` |
| fulfilment deletes the basket | `Paid` |
| POST, PUT or PATCH, and DELETE of `basketitems` | `PostItem`, `PutItem`, `RemoveItem` |
| an administrator blocks a country or ends a block | `EditRules` |
| a request ends early | `Crash` |

Abstractions: one customer and one shop, because `establish_basket` looks for
rows of that pair. Which codes are valid is up to `Discounts`; here any set of
them may be put on the basket. Geolocation says one country per request, the
profile does not change. `CheckOut` takes items and codes in one step; that they
are read apart is in `Checkout` and `Discounts`. `since`, `lifted`, `overlap`
and `posted` are history: rules that have been in force since an "add" began,
rules that were ended while it ran, whether requests have overlapped, and
products put in, or made of others, by the endpoint that does not look for rows
there already.

### Discounts

| Code | Actions |
| --- | --- |
| `generate_discount_code`, by command or by a system's API key | `GenerateCommand`, `PostDiscounts` |
| an item is put in; the basketitems endpoint | `AddItem`; `ChangeItem` |
| automatic codes are looked for; the code given with a request is read | `FindAutomatic`; `FindCode` |
| `Discount.is_valid`: the items and the code's users; redemptions, dates, system | `CheckUsers`, `CheckLimits` |
| `apply_discount_to_basket`: `discounts.add` | `AddCode` |
| checkout, which drops codes that are best for nothing | `CheckOut` |
| `create_from_basket`: the redemptions, after the commit | `Redeem` |
| the basket is deleted | `Clear` |
| `update_discount_codes`: which codes; columns; users | `update_discount_code` (`UpdateSelect`), `UpdateWrite`, `UpdateUsers` |
| `delete_discount_code`: reads all, saves one by one | `DeactivateLoad`, `DeactivateSave` |
| the admin form | `EditOpen`, `EditSave` |
| midnight | `NextDay` |

A request puts a code on a basket in several statements, each of which commits by
itself: it reads the code, `is_valid` looks at the columns that were read and at
rows as they are now, and the code is added. `visit[v]` is a code on that way, with
the columns as read; what closes the code in between is not noticed, except
that redemptions are counted late. A code that does not pass is dropped without an error.

Abstractions: a basket is there as soon as something is in it; requests that are
about to add a code to it are not affected when it is deleted (another request may
have saved its row again, as `Baskets` has it). A request that applies several codes
is several visits. A discount is as good as `Saving` says. A run that fails midway is one step that leaves any part of
its batch. The day is the unit of time: dates of codes are midnights. A company,
a payment type and a transaction number are columns that nothing looks at.
`meant`, `closed`, `settled` and a visit's `shut` (the code was closed when it was
read) are history.

### Learn and Catalogue

`Learn` is `get_product_metadata`, `_format_output` and `parse_readable_id` as
operators on what Learn's API returns. `LearnsHighestPrice` in `MCCatalogue`
compares them, for all short lists of prices, with what they are for: the highest
price of course and run, nothing for a course whose runs are all others.

| Code | Actions |
| --- | --- |
| `add_system`; DELETE of a system | `AddSystem`; `DeleteSystem` |
| `manage_product add`, `update`, `remove` | `AddProduct`, `UpdateProduct`, `RemoveProduct` |
| PUT, PATCH and DELETE of a product; the admin form | `ApiUpdate`, `RemoveProduct`; `AdminSave` |
| `import_product` | `ImportProduct`, `ImportCommit` |
| `preload_sku` | `PreloadFetch`, `PreloadCreate`, `PreloadFails` |
| putting in a basket; checkout, as far as the price goes | `AddToBasket`, `Sell` |
| the beat; `update_product_data` | `Midnight`; `UpdateCommand` |
| `update_products`, `update_product_metadata` | `TakeTask`, `ReadProduct`, `FetchMetadata`, `SaveProduct`, `EndLoop` |
| a worker dies | `WorkerDies` |

A product is a row (price, active) and the price of its newest version, which
only `Revise` changes. Names, descriptions, images and links are left out: they
travel as the price does, and nothing is decided by them. The queue is a set,
since two tasks for a product do what one does. `shown` and `late` are history.

### Mutants

For every property that a passing run checks, the models also have an operator
that is a plausible slip in the code it models: a row that is not locked, a
state that is looked at before the lock instead of after it, an exception that
leaves the transaction open, a retry that counts anew, a filter that forgets one
case. Each is marked `Mutant` and stands just before the definition it alters;
nothing uses them. `PROJECT.json` names the property that TLC finds violated when
the definition is replaced by its mutant.

## The runs

All bounds are constants: `MaxOrders`, `MaxBaskets`, `MaxPayments`, `MaxFaults`
(crashes and broker failures), `MaxVersion`, `MaxRows` (redemptions of a code, by
a user in `Discounts`), `MaxRequests` (refund requests ever made; requests of the
customer in `Baskets`), `MaxItems` (rows for one product), `MaxEdits` (in
`Refunds` the requests that are edited, each any number of times, and those that
get posted rows, together; in `Webhooks`
the systems; elsewhere single acts of administrators), `MaxNews` (changes in
Learn), `MaxRuns` (runs of commands and forms), `MaxDay`. `RetryMax` is a setting
of the program, not a bound. When a bound is reached the shop stands still,
therefore deadlock is not checked; that requests end is a liveness property
instead (`RequestEnds`).

| Run | Shop | Shows |
| --- | --- | --- |
| `checkout_core` | 1 customer, 2 products, 2 workers, 1 order, 2 payments with or without a transaction id, 1 fault | an order is paid once (`PaidOnce`), a recorded transaction belongs to a sale (`TxnOfSale`, `FulfilledHasTxn`), sales are announced and not too often (`SaleAnnounced`, `AnnouncedOnce`), a settled order is final (`FinalIsFinal`, `SettledLinesFixed`), and `Checkout` implements `OrderLifecycle` (`KeepsPromises`) |
| `checkout_zero` | the same with one free product | the inductive invariant (`IInv`, of which the type invariant is a part), and `NeverReopened`, the part of `FinalIsFinal` that survives |
| `checkout_live` | 1 product, 1 code, 2 workers, 2 orders, 1 fault | `AcceptedIsSettled`, `RequestEnds` |
| `checkout_owners` | 2 customers, 1 product in 2 versions, 1 code, 2 orders | `OwnOrder`, `TotalOfLines` |
| `refunds` | an order with a line and a free line, 1 row, 2 workers, 2 requests, 1 of them edited or given another row, 1 fault | a request is refunded once (`RequestRefundedOnce`), its webhook sent once (`WebhookOnce`), refunds on record are real (`RecordedRefund`), completion is complete (`CompleteIsRefunded`), decided requests have no codes and are not taken back unless they are edited (`CodesForOpen`, `StatusPath`), and the inductive invariant |
| `refunds_meet` | an order with a line, 1 row, 2 workers, 3 requests, 1 of them edited or given another row, no fault | sheet runs that meet refund an order as often as there are of them, not more, posted rows apart (`RefundsBounded`) |
| `webhooks` | a sale of 2 systems, an addition to a basket, 2 workers, 3 tries, 1 edited system, 1 fault | a message has one task that knows its count (`OneTask`), is given up only when it has been tried often enough (`GivenUpAfterRetries`), nobody is passed over (`AllTold`), the mail comes last (`MailIsLast`), and `Webhooks` implements `Delivery` with its liveness (`KeepsItsPromise`) |
| `baskets` | 2 products, a customer of home who is away, 2 workers, 3 requests, 1 change of the blocks or by `basketitems` | what is blocked gets no further than the check (`BlockedGoNoFurther`), requests one at a time keep one basket and one row for a product (`OneAtATime`), form and total agree up to half a cent (`CentsAgree`) |
| `discounts` | 2 customers with a basket each, 1 code, 1 visit at a time, 2 administrators with 3 runs, 2 days | codes stay with those they are meant for (`MeantForThem`), who reads a closed code does not put it on (`ClosedStaysClosed`), redeemed ones keep what they offer (`SettledIsKept`) |
| `catalogue` | 1 product, 2 workers, 2 acts of administrators, 1 change in Learn, 1 fault | what is charged was shown (`ChargedWasShown`), queued syncs do not revive what was deleted (`DeletedIsNotSynced`), and Learn prevails in the end (`LearnPrevails`) |
| `bug_refund_twice` | 1 worker that dies once | `LineRefundedOnce` is violated, see below |
| `bug_discount` | 1 worker, 1 code, 2 requests | `TotalHasDiscounts` is violated, see below |

Why these sizes are enough to be interesting: two workers are every pair of
racing requests, two products are a basket that changes between checkouts, two
payments are a decline followed by an acceptance, two acceptances, or one
payment reported by both callbacks. One fault is a retry. In `refunds`, two
workers are two sheet runs, or a sheet run and a task, and two requests are a
row that is run again, or a row and a customer. Three requests, in
`refunds_meet`, are one more than can be on their way at once, so that
`RefundsBounded` would fail if the third were accepted. One request that is edited
or gets a row is enough: neither touches another. A request that is for nothing, and so is
approved automatically, comes about when its customer deletes it before its lines
are summed; an order that was free altogether would add the same steps. The proofs below cover all sizes of the shops.

In `webhooks`, two systems are one that has a URL and one that has lost it, and
three tries are a first, a middle and a last one. In `baskets`, three requests are
two that race and one that finds what they have left behind; rules may be in force
from the start, and one more change ends or makes one while a request runs. A
customer at home adds nothing, since both countries are then the same. In
`discounts`, two runs of administration after the one that makes the code are
enough to close it and to open it again, or to race; the code is for somebody or
for everybody, and then automatic. Codes meet only in batches and where checkout
keeps the best one; the run has one code so that reading, checking and adding may
be interleaved with everything else, and the proofs are about any number. In
`catalogue`, one product is enough because nobody writes two at once, apart from a
sync that stops at a deleted product (`EndLoop`), after which the others wait for
the next midnight; two workers are two syncs of it.

Symmetry: workers are interchangeable in the runs of `Checkout`, `Refunds` and
`Baskets` that use it, so are administrators in `Discounts`, basket rows, and
products where they have the same price and no codes. Runs with a liveness
property use none.

Fairness. `checkout_live`: a worker finishes its request, and it gets a
row lock that is free again and again, because PostgreSQL queues those who wait
for a row; some worker takes up each report of the gateway while the order is
pending, because the gateway reports to the back office when the redirect fails
(the docstring of `CheckoutCallbackView`). Both are strong fairness: a worker is
idle, and a row free, only now and then. `webhooks`: a worker that is up takes a
task (`Take`), and a request ends by its answer or its timeout of 30 seconds
(`dispatch_webhook`), both weak. `catalogue`: midnight comes (`CELERY_BEAT_SCHEDULE`),
a transaction that has begun ends, workers take tasks and go on with them, all
weak. Nothing is assumed of customers, of administrators, of crashes (bounded),
or of which callback comes first.

TLC also evaluates, with the runs that extend them, the assumptions on constants,
and the four about operators: `LoopFindsCheapest` and `TotalOfSingles`
(`baskets`, `bug_discount`), `LearnsHighestPrice` and `LearnAnswers`
(`catalogue`).

### Where the code does not do what it says

Two runs end in a violation, each of one property that a test or a document of
the repository states; the trace is a scenario for a regression test.

| Run | What happens |
| --- | --- |
| `bug_refund_twice` | The gateway refunds, the process dies before the commit, the next sheet run makes another request and refunds the line again. (`refunds/api_test.py:422` expects that a second run fails.) |
| `bug_discount` | A code lowers the price in the basket. `Line.total_price` (`payments/models.py:1269`) ignores it, and the order records, and the gateway is asked for, the price without it. (`docs/source/technical/events.md:51`: "inclusive of any discounts".) |

What follows was met while modelling. Most of it the models do as well; no run
is kept for it.

Checkout and refunds:

* Basket {A, B}, checkout, take B out, checkout again: the reused order keeps
  its lines, the form charges A and B, the order's total is A's price. A form
  from before the order grew pays for less than is fulfilled. After a price
  change the reused order has a line for each version, and charges all.
* A payload without `transaction_id`: the exception is swallowed, the order is
  fulfilled and announced without a transaction, and cannot be refunded. That is
  the exception in `FulfilledHasTxn` (`PaidWithoutId`), and in `checkout_core`.
* A checkout that found its order free fulfils the order object it holds, after
  a callback has canceled the order, or another checkout has put a priced line
  on it.
* Two checkouts at once create two pending orders (`CreateOrder`), a code for one
  redemption is redeemed by every checkout (`Redeem`), a sale clears any basket
  of the customer (`OldestBasket`), and a webhook may announce a sale that does
  not happen (`Fulfill`, then `Crash`).
* Two rows for two lines of an order: the first refund makes the order REFUNDED,
  and the second row fails. A row of an order without a payment transaction:
  `process_approved_refund` returns `False`, nobody looks, the sheet says
  processed.
* A row posted to `refunds/lines` changes what an approved request is refunded
  for, or what a complete one says it was. A request for nothing that was approved
  automatically and gets such a row before its task sums them is refunded without
  anybody's approval (`PostLine`, then `SumLines`). A posted row whose amount is
  null ends the task with a `TypeError` (`SumFails`).

Baskets and pricing:

* Products are blocked in the country of the customer's profile *and* in that
  of the address. The first of these blocks is ended after the country to check
  was chosen and before it is checked: the address's country, blocked all along,
  is not looked at. That is
  the exception in `BlockedGoNoFurther`. It came out of an attempt to prove the
  property without it; the run now has rules from the start, so that TLC would
  find it too.
* `establish_basket` twice at once makes two baskets, and each later request
  fails with `MultipleObjectsReturned`: the unique constraint
  (`payments/models.py:511`) is an attribute of the class, not in its `Meta`.
  The same holds of two rows for a product, which POST to `basketitems` makes
  without any race, and so does PUT or PATCH of an item (`PutItem`).
* A request that saves the basket after it was cleared inserts it again.
* The tax rate is looked up by the country for blocks, not by the taxable one,
  and never taken off (`payments/api.py:983`).
* With `MITOL_UE_FORCE_PROFILE_COUNTRY`, `determine_user_location` returns a
  tuple (`users/api.py:99`), whose country the hook asks for as an attribute.
  The models leave the setting off.
* A line has quantity 1 whatever the basket says (`payments/models.py:994`), and
  `Basket.subtotal` counts one of each.

Webhooks: the number of attempts is compared with the limit for equality
(`payments/tasks.py:54`), so that a limit below 1 is none, and the answer's status
is not looked at. A retried webhook of a sale may arrive after that of its
refund. A system of the order that was deleted ends the hooks of the sale.

Catalogue:

* `manage_product update` always makes a product active; `--deactivate` does
  nothing.
* The sync reads a product, waits for Learn and saves: a product that was
  deleted meanwhile is back. It stops at a product that was deleted since the
  task began, and leaves the others to another day.
* The sync of an imported product is queued before the row is committed.
* A run without a price costs nothing in Learn's answer, and then in the shop.
* Asking for a run of a course that has no runs creates the course's own SKU
  (`system_meta/views.py:118`). The models' products keep the SKU they were asked
  by; `Learn` shows what it becomes.

Discount codes:

* A code that is deactivated, expires or is used up after a request has read it, or
  after it was counted, is still put on the basket (`AddCode`); and whoever has it
  there redeems it past its limit (`Redeem`).
* `update_discount_codes` looks for redemptions and writes later; a code that was
  redeemed in between changes what it offered. Codes redeemed more often than
  their limit count as not used up (equality again).
* Any update without `--one-time` makes codes unlimited; `--one-time-per-user`
  is ignored, because `get_redemption_type` knows `once_per_user`.
* The docstring of `generate_discount_code` says that `redemption_type` overrules
  the flags; the flags overrule it.
* A list of codes on the command line becomes one code. `--product` looks a
  product up by a slug, which products do not have.

## The proofs

Each proof module states an inductive invariant, one lemma per action or group
of actions that it survives, and the theorems that follow. They hold for all
values of the constants that satisfy the named assumptions of the module.

### Checkout

`Checkout_proofs` proves `Spec => []IInv` for finite sets of codes, bounds that
are natural numbers, and `None` different from everything else. From `IInv` follow
`TypeOK`, `PaidOnce`, `TxnOfSale`, `SaleAnnounced`, `OwnOrder`, `TotalOfLines`, and
the action properties `NeverReopened` and `SettledLinesFixed`.

The argument: a worker that is about to write an order's state holds its row
(`HoldsRow`) and has seen it PENDING since it got the row (`SeenState`); rows
change only in the hands of their holder (lemmas `WrittenRows`, `LockedRows`,
`HeldRows`); so a payment is committed only to an order that was PENDING until
then, and a settled order has no second payment. None of the properties is
inductive alone. `PaidOnce` needs `TxnOfSale` (an order with a transaction is
not PENDING), which needs `SeenState`, which needs `HoldsRow` and `Assigned`
(the locals of a request are set). The one writer that has *not* looked at the
state, the checkout that costs nothing, writes only final states with
`pay = None`: that is why `IInv` survives it and `FinalIsFinal` does not.
`Outcome` carries the announcements from the hooks to the commit.

`OwnOrder` needs `Owned`: baskets and orders have owners from the statement that
makes them, and a checkout builds an order only for its basket's owner. That the
order is new or the owner's own is seen at the lock and still so at the commit,
though the basket may be gone. `TotalOfLines` needs `LinesBuilt`: what a checkout
has read from its basket stays among the lines of its order, because lines are
only ever added; so even the order object that a free checkout saves back late
has no total beyond the lines. `FulfilledHasTxn` makes one exception, orders paid by
a payload without an id (`PaidWithoutId`), and needs `SaleDecided`: who commits
FULFILLED for a payment has one that was accepted, and for such a payment the same
commit writes the transaction, unless there is no id to write.

`CheckoutLifecycle_proofs` assumes `Free = {}` and adds `AllPriced`: no worker
is about to sell for nothing. Then `FinalIsFinal` holds (`SettledForGood`) and
every step of `Checkout` is a step of `OrderLifecycle` or none (`Refinement`).
`AnnouncedOnce`, which counts webhooks against faults, needs `RolledBackOnly`:
as long as an order is pending, and nobody is about to commit it, each webhook
queued for it is that of a sale that a crash has rolled back. The next
acceptance may add one and finds the order pending under its lock; after the
commit there is none.

### Refunds

`Refunds_proofs` proves `Spec => []RefundInv` for any orders, rows, recipients,
workers and bounds (lines belong to orders, rows name lines, `None` is none of
the values it stands beside). From it follow `RequestRefundedOnce`,
`RecordedRefund`, `CompleteIsRefunded`, `WebhookOnce`, `CodesForOpen` and the
action property `StatusPath`. No row is
locked, so the argument cannot be about locks; it is that a request is in one
pair of hands. Its maker has it first; approval passes it to the queue, once
(`QueuedWork`), or keeps it, for a row; a task that is taken is gone from the
queue; and nobody else starts to work on a request (`OneHandler`). So whoever
has it knows how far it has come, however often the customer deletes it
(`HandledStatus`, and `AskedAmount` unless rows were posted to it), and asks the
gateway a first time and never a second. An edit may set the status back, but nothing takes up an approved request
by its status, so the parts that speak of the status make an exception for
edited requests and the others need none; `CompleteEdits` says that an edit
cannot make a request complete that has never been. That is a property of the
code as it is wired: another caller of
`approve`, or a broker that delivers twice, breaks it, as the mutants show.
`RequestRefundedOnce` alone is not inductive: it needs that a request about to
be sent to the gateway has no refund yet, which needs the other parts.

`RefundsBound_proofs` proves `RefundsBounded`, for finitely many sheet runs at
once (`IsFiniteSet(SheetWorkers)`; `SheetWorkers` is what a deployment has). The
order's state is looked at once, before a request is approved, and nothing stops
a run that is past the look. So the invariant `Bounded` counts: while an order
reads as fulfilled, each refund of it is that of a run that has not committed
(`Asked`), or of one that has crashed; from the commit on, refunds made and runs
past the look (`Asking`) are together no more than sheet runs and crashes, and
each refund takes one run out of `Asking`. It needs two facts about who may
refund at all: rows of the sheet are only in the hands of sheet runs
(`SheetRuns`), and customers' requests that are processed are for nothing
(`NothingOwed`), unless rows were posted to them, and those the bound counts, one
for each. The counts are of finite sets, one element in or out at a time.

### Webhooks

`Webhooks_proofs`, for any systems, announcements, workers and limit of tries:
the messages that are pending are those that have a task (`HasTask`), no two
tasks are about one message (`Apart`), and a task's count is the number of
requests made (`Counted`). A task is queued for an unsent message (`ToDo`: what
an announcement has still to queue is unsent) or for one whose task has just
ended, so there is never a second. `OneTask` counts tasks with `Cardinality`;
the proof shows each of its two sets to be empty or a singleton.
`GivenUpAfterRetries` needs `Counted`, because the limit is compared with
the task's count and not with what was sent; and it needs that a pending message
has been tried less than `RetryMax` times, since the comparison is for equality.
`AllTold` needs `Told`, which says of every stage that who is not in `todo` has
been told. `ImplementsDelivery`: under the refinement mapping each step is a
`Queue`, a `Try`, a `Lose` or a stutter. Delivery's liveness is TLC's.

### Baskets

`Baskets_proofs`, for any products, codes, countries, rules and web processes.
The database is of no help: other requests overwrite the basket's row at any
time. The argument is about one request's memory (`Sound`): a rule in `since` is
in force now; so the country in memory was chosen when the rule was in force, and
it is the profile's if the rule is about that; if it is about the address's, it
is that country or else the profile's, flagged by some rule that is still there
or has been lifted (`ProfileBlocked`); and the check looks at memory, not at the
row. Whoever gets past it has met no rule of `since` about that country.

`OneAtATime` needs to know what a request that is alone has seen and finds again
when it writes (`InOrder`): no basket when it inserts one, its own when it saves,
no row when it inserts an item. `Alone` makes it inductive: as soon as two
requests overlap, nothing is claimed any more. What the basketitems endpoint has put
in counts no longer either, product by product (`PutRows`); what it takes out
leaves fewer rows.

`CentsAgree`, for any prices, rates and codes: an order's tax rate is one that
some `TaxRate` row had (`RatesKnown`; the basket's row and the memory of every
request may carry it), so the tax is a number. Each amount is whole cents and a
part of one (`Parts`), which decides how it may be rounded (`Rounding`), and whole
cents are kept out of rounding (`QuantizedSum`): so rounding price and tax apart,
or together, differs only when the tax falls on half a cent.

`CheapestCodeCounts`: for every sequence of codes, in whatever order the database
returns them, the loop ends with the price of the cheapest code that fits, which
`discounted_price` takes. TLC has it for four codes (`LoopFindsCheapest`).

### Discounts

`Discounts_proofs`, for any codes, users, baskets, arguments and administrators.
`MeantForThem` is not inductive: it needs that rows, *and rows that somebody has
read and may save*, are for users who are meant (`Meant`), and that users are
only ever added to `meant`. `SettledIsKept` needs that a settled code is
redeemed and not unlimited, so that no later update selects it, and that whoever
works on it at the time has read its present offer (`Kept`). `Work` is the
bookkeeping: runs work on codes that are there, with arguments.

`ClosedStaysClosed` needs `Shut`: a closed code has come to its end or has been
redeemed as often as it may be, whoever wrote its row last. That is about the row,
and a request looks at the columns it has read: for the visits that found the code
closed, `ShutOut` says that these columns do not pass either, whatever
administrators write to the row meanwhile (`TimePasses`). Days only pass and
redemptions only grow, row by row; that then their *sum* over the users grows
(`SumGrows`) takes an induction over sets of users, who are finitely many
(`IsFiniteSet(Users)`).

### Sums and loops

`Count` and `best_discount_for_item` are folds, which the library defines by
recursive functions. Two facts about each are proved first. The function exists:
otherwise there would be a smallest size of sets for which it does not, and from
the function for the size before it is one step. And what it computes has the
property in question: otherwise there would be a smallest set for which it does
not. `Least`, that a nonempty set of natural numbers has a least element, follows
from the library's `WFMin`, which is about sets and no operator is a parameter of
it.

### Catalogue

`Catalogue_proofs`, for any systems, products, prices, workers, and answers of
Learn (of which `LearnAnswers` asks that they be about the product and have one
of `Prices`). `ChargedWasShown` needs that each version is of a price that was
saved (`Versions`). `DeletedIsNotSynced` needs `Deleted`: what was deleted late is
in nobody's hands, and inactive, so that no loop reads it; it has a row, so that
neither preload nor import inserts it; and an uncommitted row is its product's
first.

### Only model-checked

Liveness (`AcceptedIsSettled`, `RequestEnds`, `LearnPrevails`, and that of
`Delivery` in `KeepsItsPromise`): with `ENABLED` it is out of the proof system's
reach. All other properties that passing runs check are proved, three of them
under an assumption: `FinalIsFinal`, `KeepsPromises` and `AnnouncedOnce` when
nothing is free. Without it they do not hold, and the run that checks them makes
the same assumption.

`TotalOfSingles` and `LearnsHighestPrice` are evaluated for small inputs. The
converse in the former (that a total without such items *never* agrees) is not
true of all inputs, since discounts may make prices negative that cancel each
other; the latter is about `SelectSeq`, which the library defines recursively.
No module has a RECURSIVE operator.

## Not modelled, and why

* `refund_order` (`payments/api.py:252`): nothing in the repository calls it;
  refund requests have taken its place.
* `PendingOrder.create_from_product`, the proxies of settled orders and
  `delete_redeemed_discounts`, which only they use: no caller either.
* `accept_code` has no route and would compare a code's row with a UUID;
  `Request.deny`, and the denial hooks with it, have no caller. Edits of refund
  requests by the administration, which may set any column to anything.
* The middleware, header parser and authentication classes in
  `unified_ecommerce/` and `users/`: settings use those of a library instead. That
  the library authenticates is assumed. Sessions are signed cookies.
* The rest of serializers, admin forms, filters, schema generation and page
  templates: they format what is there, or write one row with nothing to race
  against. `generate_test_data` and migrations run by hand, before there is a
  shop. Settings, containers, the API gateway.
* Companies, payment types and the like, which are stored and reported only.
* What Google Sheets, the gateway, Learn and integrated systems do inside: each
  is modelled by the answers that the code distinguishes.
* Orders that PostgreSQL aborts in a deadlock of several rows; read-committed
  snapshots within one statement.
