------------------------------ MODULE Catalogue ------------------------------
(***************************************************************************)
(* Integrated systems and their products: system_meta.  Administrators     *)
(* change them by commands, the REST API and the Django admin; customers   *)
(* make the shop load a product by asking for it; a daily task brings      *)
(* products in line with MIT Learn.                                        *)
(*                                                                         *)
(* The shop shows the row of a product, an order charges its newest        *)
(* version.  Only the admin, the import and the sync make a version when   *)
(* they save; the other writers save the row alone.  A save writes every   *)
(* column, and, with SafeDeleteModel, brings a deleted row back.           *)
(*                                                                         *)
(* Reading and saving a row is one step, except where a request to Learn   *)
(* or a form lies in between.  The queue is a set: two tasks for one       *)
(* product do what one does.                                               *)
(***************************************************************************)
EXTENDS Naturals, FiniteSets, Learn

CONSTANTS
  Products,   \* products by SKU and system, which are unique together
  Systems, SystemOf,
  Prices,     \* prices that administrators and Learn set; 0 is "no price" in Learn
  IdOf,       \* a product's SKU, as a readable id
  Answers,    \* what Learn may answer about a product: results, none if it has none
  Workers,    \* Celery workers
  All,        \* the task for all products
  MaxEdits, MaxNews, MaxFaults  \* bounds: administrators, Learn, failures

Row == [price : Prices, active : BOOLEAN]

ASSUME CatalogueConstants ==
  /\ SystemOf \in [Products -> Systems]
  /\ All \notin Products
  /\ IdOf \in [Products -> Seq(STRING)]
  /\ MaxEdits \in Nat /\ MaxNews \in Nat /\ MaxFaults \in Nat

ASSUME CatalogueNone == None \notin Row \cup Prices \cup Products

\* Learn answers about the SKU that it is asked about.
ASSUME LearnAnswers ==
  \A p \in Products, results \in Answers :
    LET data == get_product_metadata(results, IdOf[p])
    IN  data # None => data.sku = IdOf[p] /\ data.price \in Prices

VARIABLES
  system,   \* system[s]: "absent", "active" or "deleted"
  row,      \* row[p]: the Product row
  unseen,   \* unseen[p]: a row inserted by a transaction that is not committed
  version,  \* version[p]: the price in the newest Version of the product
  basket,   \* products on some basket
  lines,    \* order lines: product and price charged
  learn,    \* learn[p]: what Learn answers about the product
  preload,  \* preload[p]: what a request has fetched to create the product with
  queue,    \* update_products tasks
  pc,       \* pc[w]: "idle", "loop", "fetch", "save"
  todo,     \* todo[w]: products the task has still to look at
  product,  \* product[w]: the one it looks at
  fetched,  \* fetched[w]: what Learn said of it
  shown,    \* history: shown[p], the prices its committed row has had
  late,     \* history: products deleted while no worker had read them
  edits, news, faults

admin == <<system, edits>>
sync  == <<pc, todo, product, fetched>>
sales == <<basket, lines>>
vars  == <<admin, row, unseen, version, sales, learn, preload, queue, sync, shown, late, news,
           faults>>

TypeOK ==
  /\ system \in [Systems -> {"absent", "active", "deleted"}]
  /\ row \in [Products -> Row \cup {None}]
  /\ unseen \in [Products -> Row \cup {None}]
  /\ version \in [Products -> Prices \cup {None}]
  /\ basket \subseteq Products
  /\ lines \subseteq [product : Products, price : Prices]
  /\ learn \in [Products -> Answers]
  /\ preload \in [Products -> Prices \cup {None}]
  /\ queue \subseteq Products \cup {All}
  /\ pc \in [Workers -> {"idle", "loop", "fetch", "save"}]
  /\ todo \in [Workers -> SUBSET Products]
  /\ product \in [Workers -> Products \cup {None}]
  /\ fetched \in [Workers -> Prices \cup {None}]
  /\ shown \in [Products -> SUBSET Prices]
  /\ late \subseteq Products
  /\ edits \in 0 .. MaxEdits /\ news \in 0 .. MaxNews /\ faults \in 0 .. MaxFaults

Init ==
  /\ system = [s \in Systems |-> "absent"]
  /\ row = [p \in Products |-> None]
  /\ unseen = [p \in Products |-> None]
  /\ version = [p \in Products |-> None]
  /\ basket = {} /\ lines = {}
  /\ learn \in [Products -> Answers]
  /\ preload = [p \in Products |-> None]
  /\ queue = {}
  /\ pc = [w \in Workers |-> "idle"]
  /\ todo = [w \in Workers |-> {}]
  /\ product = [w \in Workers |-> None]
  /\ fetched = [w \in Workers |-> None]
  /\ shown = [p \in Products |-> {}]
  /\ late = {}
  /\ edits = 0 /\ news = 0 /\ faults = 0

Active(p)  == row[p] # None /\ row[p].active
Offered(p) == system[SystemOf[p]] = "active"

\* The price that Learn has, None if it does not have the product.
InLearn(p) ==
  LET data == get_product_metadata(learn[p], IdOf[p])
  IN  IF data = None THEN None ELSE data.price

\* Product.save of a row that may have been deleted: it is active afterwards.
SaveRow(p, price) ==
  /\ row' = [row EXCEPT ![p] = [price |-> price, active |-> TRUE]]
  /\ shown' = [shown EXCEPT ![p] = @ \cup {price}]
  /\ late' = late \ {p}

\* ... of a new row, which queues its sync.
CreateRow(p, price) ==
  /\ row[p] = None /\ unseen[p] = None
  /\ SaveRow(p, price)
  /\ queue' = queue \cup {p}

Revise(p, price) == version' = [version EXCEPT ![p] = price]

Edit == edits < MaxEdits /\ edits' = edits + 1

-----------------------------------------------------------------------------
(* Administrators.                                                         *)

\* add_system: a name is taken also by a deleted system.
AddSystem(s, deactivate) ==
  /\ system[s] = "absent"
  /\ system' = [system EXCEPT ![s] = IF deactivate THEN "deleted" ELSE "active"]
  /\ UNCHANGED <<edits, row, unseen, version, sales, learn, preload, queue, sync, shown, late,
                 news, faults>>

\* DELETE of a system; its products stay.
DeleteSystem(s) ==
  /\ Edit
  /\ system[s] = "active"
  /\ system' = [system EXCEPT ![s] = "deleted"]
  /\ UNCHANGED <<row, unseen, version, sales, learn, preload, queue, sync, shown, late, news,
                 faults>>

\* manage_product add.  A deleted row with the SKU is not seen, and then violates
\* the unique constraint.
AddProduct(p, price) ==
  /\ Edit /\ Offered(p)
  /\ CreateRow(p, price)
  /\ UNCHANGED <<system, unseen, version, sales, learn, preload, sync, news, faults>>

\* manage_product update: option "deactivate" is never there, and saving would
\* undo it.  So the product is active whatever was asked for.
UpdateProduct(p, price) ==
  /\ Edit /\ row[p] # None
  /\ SaveRow(p, price)
  /\ UNCHANGED <<system, unseen, version, sales, learn, preload, queue, sync, news, faults>>

\* PUT and PATCH of an active product.
ApiUpdate(p, price) ==
  /\ Edit /\ Active(p)
  /\ SaveRow(p, price)
  /\ UNCHANGED <<system, unseen, version, sales, learn, preload, queue, sync, news, faults>>

\* The admin's form, in a transaction with its revision.
AdminSave(p, price) ==
  /\ Edit /\ row[p] # None
  /\ SaveRow(p, price)
  /\ Revise(p, price)
  /\ UNCHANGED <<system, unseen, sales, learn, preload, queue, sync, news, faults>>

\* manage_product remove, and DELETE.  A worker that has read the row will not
\* notice.
RemoveProduct(p) ==
  /\ Edit /\ Active(p)
  /\ row' = [row EXCEPT ![p].active = FALSE]
  /\ late' = IF \E w \in Workers : product[w] = p THEN late ELSE late \cup {p}
  /\ UNCHANGED <<system, unseen, version, sales, learn, preload, queue, sync, shown, news, faults>>

manage_product(p, price) == AddProduct(p, price) \/ UpdateProduct(p, price) \/ RemoveProduct(p)

\* import_product: the sync is queued when the row is inserted ...
ImportProduct(p) ==
  /\ Edit /\ Offered(p) /\ InLearn(p) # None
  /\ row[p] = None /\ unseen[p] = None
  /\ unseen' = [unseen EXCEPT ![p] = [price |-> InLearn(p), active |-> TRUE]]
  /\ queue' = queue \cup {p}
  /\ UNCHANGED <<system, row, version, sales, learn, preload, sync, shown, late, news, faults>>

\* ... and the row, with its version, can be read when the revision is complete.
ImportCommit(p) ==
  /\ unseen[p] # None
  /\ SaveRow(p, unseen[p].price)
  /\ Revise(p, unseen[p].price)
  /\ unseen' = [unseen EXCEPT ![p] = None]
  /\ UNCHANGED <<admin, sales, learn, preload, queue, sync, news, faults>>

-----------------------------------------------------------------------------
(* Customers.                                                              *)

\* preload_sku: an unknown product of a known system is looked up in Learn ...
PreloadFetch(p) ==
  /\ Offered(p) /\ ~ Active(p) /\ preload[p] = None /\ InLearn(p) # None
  /\ preload' = [preload EXCEPT ![p] = InLearn(p)]
  /\ UNCHANGED <<admin, row, unseen, version, sales, learn, queue, sync, shown, late, news, faults>>

\* ... and created.
PreloadCreate(p) ==
  /\ preload[p] # None /\ Offered(p)
  /\ CreateRow(p, preload[p])
  /\ preload' = [preload EXCEPT ![p] = None]
  /\ UNCHANGED <<admin, unseen, version, sales, learn, sync, news, faults>>

\* Somebody else was first, or the product had been deleted, or the system has.
PreloadFails(p) ==
  /\ preload[p] # None
  /\ row[p] # None \/ ~ Offered(p)
  /\ preload' = [preload EXCEPT ![p] = None]
  /\ UNCHANGED <<admin, row, unseen, version, sales, learn, queue, sync, shown, late, news, faults>>

AddToBasket(p) ==
  /\ Offered(p) /\ Active(p) /\ p \notin basket
  /\ basket' = basket \cup {p}
  /\ UNCHANGED <<admin, row, unseen, version, lines, learn, preload, queue, sync, shown, late, news,
                 faults>>

\* Mutant: Learn is asked again, as when the product was added to the basket.
ChargeLearn(p) == IF InLearn(p) # None THEN InLearn(p) ELSE version[p]

\* _process_basket_products: the newest version.
Charge(p) == version[p]

\* Checkout; without a version it fails.
Sell(p) ==
  /\ p \in basket /\ version[p] # None
  /\ lines' = lines \cup {[product |-> p, price |-> Charge(p)]}
  /\ basket' = basket \ {p}
  /\ UNCHANGED <<admin, row, unseen, version, learn, preload, queue, sync, shown, late, news, faults>>

-----------------------------------------------------------------------------
(* Learn, and the tasks.                                                   *)

LearnChanges(p) ==
  /\ news < MaxNews /\ news' = news + 1
  /\ \E v \in Answers \ {learn[p]} : learn' = [learn EXCEPT ![p] = v]
  /\ UNCHANGED <<admin, row, unseen, version, sales, preload, queue, sync, shown, late, faults>>

\* The beat, every midnight.
Midnight ==
  /\ queue' = queue \cup {All}
  /\ UNCHANGED <<admin, row, unseen, version, sales, learn, preload, sync, shown, late, news, faults>>

\* update_product_data: a task for each active product, or for each of those named by
\* id, SKU or name.
UpdateCommand(ps) ==
  /\ ps # {} /\ \A p \in ps : Active(p)
  /\ queue' = queue \cup ps
  /\ UNCHANGED <<admin, row, unseen, version, sales, learn, preload, sync, shown, late, news, faults>>

EndTask(w) ==
  /\ pc' = [pc EXCEPT ![w] = "idle"]
  /\ todo' = [todo EXCEPT ![w] = {}]
  /\ product' = [product EXCEPT ![w] = None]
  /\ fetched' = [fetched EXCEPT ![w] = None]

\* update_products: the active products among those asked for.
Syncable(t) == {p \in Products : t \in {p, All} /\ Active(p)}

TakeTask(w) ==
  /\ pc[w] = "idle"
  /\ \E t \in queue : /\ queue' = queue \ {t}
                      /\ todo' = [todo EXCEPT ![w] = Syncable(t)]
  /\ pc' = [pc EXCEPT ![w] = "loop"]
  /\ UNCHANGED <<admin, row, unseen, version, sales, learn, preload, product, fetched, shown, late,
                 news, faults>>

\* Mutant: the product is read among all, as when a deleted one should be kept
\* up to date.
ReadAll(p) == row[p] # None

\* Product.objects.get: only active products.
Read(p) == Active(p)

\* update_product_metadata reads the next product ...
ReadProduct(w) ==
  /\ pc[w] = "loop"
  /\ \E p \in todo[w] :
       /\ Read(p)
       /\ product' = [product EXCEPT ![w] = p]
       /\ todo' = [todo EXCEPT ![w] = @ \ {p}]
  /\ pc' = [pc EXCEPT ![w] = "fetch"]
  /\ UNCHANGED <<admin, row, unseen, version, sales, learn, preload, queue, fetched, shown, late,
                 news, faults>>

\* Mutant: no answer is taken for an answer.
KnownAlways(p) == TRUE

\* get_product_metadata has something to return.
Known(p) == InLearn(p) # None

\* ... asks Learn for it, which may know nothing or not answer: then it is left
\* as it is ...
FetchMetadata(w) ==
  /\ pc[w] = "fetch"
  /\ \/ /\ Known(product[w])
        /\ fetched' = [fetched EXCEPT ![w] = InLearn(product[w])]
        /\ pc' = [pc EXCEPT ![w] = "save"]
        /\ UNCHANGED <<product, faults>>
     \/ /\ \/ ~ Known(product[w]) /\ UNCHANGED faults
           \/ faults < MaxFaults /\ faults' = faults + 1
        /\ product' = [product EXCEPT ![w] = None]
        /\ pc' = [pc EXCEPT ![w] = "loop"]
        /\ UNCHANGED fetched
  /\ UNCHANGED <<admin, row, unseen, version, sales, learn, preload, queue, todo, shown, late, news>>

\* Mutant: no revision.
ReviseNever(p, price) == UNCHANGED version

SyncRevise(p, price) == Revise(p, price)

\* ... and saves row and version.
SaveProduct(w) ==
  /\ pc[w] = "save"
  /\ SaveRow(product[w], fetched[w])
  /\ SyncRevise(product[w], fetched[w])
  /\ product' = [product EXCEPT ![w] = None]
  /\ fetched' = [fetched EXCEPT ![w] = None]
  /\ pc' = [pc EXCEPT ![w] = "loop"]
  /\ UNCHANGED <<admin, unseen, sales, learn, preload, queue, todo, news, faults>>

\* The task ends: nothing is left, or a product has been deleted since the task
\* began, which raises and leaves the rest for another day.
EndLoop(w) ==
  /\ pc[w] = "loop"
  /\ todo[w] = {} \/ \E p \in todo[w] : ~ Read(p)
  /\ EndTask(w)
  /\ UNCHANGED <<admin, row, unseen, version, sales, learn, preload, queue, shown, late, news, faults>>

\* The worker dies, and its transaction with it.
WorkerDies(w) ==
  /\ pc[w] # "idle" /\ faults < MaxFaults
  /\ faults' = faults + 1
  /\ EndTask(w)
  /\ UNCHANGED <<admin, row, unseen, version, sales, learn, preload, queue, shown, late, news>>

SyncStep(w) == ReadProduct(w) \/ FetchMetadata(w) \/ SaveProduct(w) \/ EndLoop(w)

Next ==
  \/ \E s \in Systems : DeleteSystem(s) \/ \E d \in BOOLEAN : AddSystem(s, d)
  \/ \E p \in Products, v \in Prices :
       manage_product(p, v) \/ ApiUpdate(p, v) \/ AdminSave(p, v)
  \/ \E p \in Products : ImportProduct(p) \/ ImportCommit(p)
  \/ \E p \in Products : PreloadFetch(p) \/ PreloadCreate(p) \/ PreloadFails(p)
  \/ \E p \in Products : AddToBasket(p) \/ Sell(p) \/ LearnChanges(p)
  \/ Midnight
  \/ \E ps \in SUBSET Products : UpdateCommand(ps)
  \/ \E w \in Workers : TakeTask(w) \/ SyncStep(w) \/ WorkerDies(w)

\* Midnight comes, a transaction that has begun ends, and workers work.
Spec ==
  /\ Init /\ [][Next]_vars
  /\ WF_vars(Midnight)
  /\ \A p \in Products : WF_vars(ImportCommit(p))
  /\ \A w \in Workers : WF_vars(TakeTask(w)) /\ WF_vars(SyncStep(w))

-----------------------------------------------------------------------------
(* Properties.                                                             *)

\* What an order charges was once the price on show, even if it is not now: no
\* writer makes a version of a price that it does not save.
ChargedWasShown == \A l \in lines : l.price \in shown[l.product]

\* A product that was deleted while no task had it in hand stays deleted until an
\* administrator saves it; tasks that are queued or in their loop do not bring it
\* back.  (A task that has read it does.)
DeletedIsNotSynced ==
  [][\A p \in late : row'[p] # row[p] => edits' > edits]_vars

\* When administrators and Learn leave it alone, a product that Learn knows
\* comes to have Learn's price, and to be charged at it, whatever was saved
\* without a version before.
InStep(p) ==
  Active(p) /\ InLearn(p) # None => row[p].price = InLearn(p) /\ version[p] = row[p].price
LearnPrevails == <>[](\A p \in Products : InStep(p))

=============================================================================
