--------------------------- MODULE Catalogue_proofs ---------------------------
(***************************************************************************)
(* Catalogue, for any systems, products, prices, answers of Learn and      *)
(* workers: what is charged was on show, and what was deleted while no     *)
(* task had it in hand is not brought back by one.                         *)
(***************************************************************************)
EXTENDS Catalogue, TLAPS

\* Who has a product in hand, and what he has fetched for it.
InHand ==
  /\ \A w \in Workers : pc[w] \in {"fetch", "save"} => product[w] \in Products
  /\ \A w \in Workers : pc[w] = "save" => fetched[w] \in Prices

\* A version is of a price that was saved, and so is what was charged.
Versions ==
  /\ \A p \in Products : version[p] # None => version[p] \in shown[p]
  /\ ChargedWasShown

\* A row that is not committed is the first one of its product; one deleted late
\* is in nobody's hands, and what is in a worker's hands has a row.
Deleted ==
  /\ \A p \in Products : unseen[p] # None => row[p] = None
  /\ \A p \in late : row[p] # None /\ ~ row[p].active
  /\ \A p \in late, w \in Workers : product[w] # p
  /\ \A w \in Workers : product[w] # None => row[product[w]] # None

IInv == TypeOK /\ InHand /\ Versions /\ Deleted

-----------------------------------------------------------------------------

LEMMA InitInv == Init => IInv
<1> SUFFICES ASSUME Init PROVE IInv
    OBVIOUS
<1>1. /\ system \in [Systems -> {"absent", "active", "deleted"}]
      /\ row \in [Products -> Row \cup {None}] /\ unseen \in [Products -> Row \cup {None}]
      /\ version \in [Products -> Prices \cup {None}] /\ preload \in [Products -> Prices \cup {None}]
      /\ shown \in [Products -> SUBSET Prices] /\ learn \in [Products -> Answers]
  BY DEF Init
<1>2. /\ pc \in [Workers -> {"idle", "loop", "fetch", "save"}]
      /\ todo \in [Workers -> SUBSET Products]
      /\ product \in [Workers -> Products \cup {None}]
      /\ fetched \in [Workers -> Prices \cup {None}]
  BY DEF Init
<1>3. /\ edits \in 0 .. MaxEdits /\ news \in 0 .. MaxNews /\ faults \in 0 .. MaxFaults
      /\ lines \subseteq [product : Products, price : Prices]
      /\ basket \subseteq Products /\ queue \subseteq Products \cup {All} /\ late \subseteq Products
  BY CatalogueConstants DEF Init
<1>4. TypeOK
  BY <1>1, <1>2, <1>3 DEF TypeOK
<1>5. InHand /\ Versions /\ Deleted
  BY DEF Init, InHand, Versions, ChargedWasShown, Deleted
<1> QED
  BY <1>4, <1>5 DEF IInv

\* Learn's prices are prices.
LEMMA LearnPrice ==
  ASSUME TypeOK, NEW p \in Products, InLearn(p) # None
  PROVE  InLearn(p) \in Prices
BY LearnAnswers DEF TypeOK, InLearn

\* What a save does to the row and its history.
LEMMA SaveType ==
  ASSUME TypeOK, NEW p \in Products, NEW v \in Prices, SaveRow(p, v)
  PROVE  /\ row' \in [Products -> Row \cup {None}]
         /\ shown' \in [Products -> SUBSET Prices]
         /\ late' \subseteq Products
BY DEF TypeOK, SaveRow, Row

\* ... and it leaves alone what is charged, and what is deleted.
LEMMA SaveKeeps ==
  ASSUME IInv, NEW p \in Products, NEW v \in Prices, SaveRow(p, v)
  PROVE  /\ \A q \in Products : shown[q] \subseteq shown'[q]
         /\ v \in shown'[p]
         /\ \A q \in Products : q # p => row'[q] = row[q]
         /\ row'[p] # None
         /\ late' = late \ {p}
         /\ \A q \in late' : row'[q] # None /\ ~ row'[q].active
<1>1. [price |-> v, active |-> TRUE] # None
  <2>1. [price |-> v, active |-> TRUE] \in Row
    BY DEF Row
  <2> QED
    BY <2>1, CatalogueNone
<1> QED
  BY <1>1 DEF IInv, TypeOK, SaveRow, Deleted

LEMMA EndType ==
  ASSUME TypeOK, NEW w \in Workers, EndTask(w)
  PROVE  /\ pc' \in [Workers -> {"idle", "loop", "fetch", "save"}]
         /\ todo' \in [Workers -> SUBSET Products]
         /\ product' \in [Workers -> Products \cup {None}]
         /\ fetched' \in [Workers -> Prices \cup {None}]
BY DEF TypeOK, EndTask

\* Administrators and customers save rows; a revision goes with the row.
LEMMA SaveStep ==
  ASSUME IInv, NEW p \in Products, NEW v \in Prices, SaveRow(p, v),
         UNCHANGED version \/ Revise(p, v), unseen[p] = None \/ unseen'[p] = None,
         \A q \in Products : q # p => unseen'[q] = unseen[q],
         unseen[p] = None => unseen'[p] = None,
         UNCHANGED lines,
         \A w \in Workers : product'[w] = product[w] \/ product'[w] = None
  PROVE  Versions' /\ Deleted'
<1>1. Versions'
  <2>1. \A q \in Products : version'[q] # None => version'[q] \in shown'[q]
    BY SaveKeeps DEF IInv, TypeOK, Versions, Revise
  <2>2. ChargedWasShown'
    BY SaveKeeps DEF IInv, TypeOK, Versions, ChargedWasShown
  <2> QED
    BY <2>1, <2>2 DEF Versions
<1>2. Deleted'
  BY SaveKeeps, CatalogueNone DEF IInv, TypeOK, Deleted
<1> QED
  BY <1>1, <1>2

\* What administrators do to a product.
LEMMA AdminType ==
  ASSUME TypeOK, NEW p \in Products, NEW v \in Prices,
         manage_product(p, v) \/ ApiUpdate(p, v) \/ AdminSave(p, v)
  PROVE  TypeOK'
<1>1. edits' \in 0 .. MaxEdits
  BY CatalogueConstants
     DEF TypeOK, manage_product, AddProduct, UpdateProduct, RemoveProduct, ApiUpdate, AdminSave, Edit
<1>2. CASE RemoveProduct(p)
  <2>1. row' \in [Products -> Row \cup {None}]
    <3>1. row[p] \in Row
      BY <1>2 DEF RemoveProduct, TypeOK, Active
    <3>2. [row[p] EXCEPT !.active = FALSE] \in Row
      BY <3>1 DEF Row
    <3> QED
      BY <1>2, <3>2 DEF RemoveProduct, TypeOK
  <2>2. late' \subseteq Products
    BY <1>2 DEF RemoveProduct, TypeOK
  <2> QED
    BY <1>1, <1>2, <2>1, <2>2 DEF RemoveProduct, TypeOK, sales, sync
<1>3. CASE AddProduct(p, v)
  BY <1>1, <1>3, SaveType DEF AddProduct, CreateRow, TypeOK, sales, sync
<1>4. CASE UpdateProduct(p, v) \/ ApiUpdate(p, v)
  BY <1>1, <1>4, SaveType DEF UpdateProduct, ApiUpdate, TypeOK, sales, sync
<1>5. CASE AdminSave(p, v)
  BY <1>1, <1>5, SaveType DEF AdminSave, Revise, TypeOK, sales, sync
<1> QED
  BY <1>2, <1>3, <1>4, <1>5 DEF manage_product

LEMMA TypeStep == IInv /\ [Next]_vars => TypeOK'
<1> SUFFICES ASSUME IInv, [Next]_vars PROVE TypeOK'
    OBVIOUS
<1> USE CatalogueConstants DEF TypeOK
<1>0. TypeOK
  BY DEF IInv
<1>1. CASE UNCHANGED vars
  BY <1>0, <1>1 DEF vars, admin, sales, sync
<1>2. ASSUME NEW s \in Systems, NEW d \in BOOLEAN, DeleteSystem(s) \/ AddSystem(s, d) PROVE TypeOK'
  <2>1. edits' \in 0 .. MaxEdits
    BY <1>0, <1>2 DEF DeleteSystem, AddSystem, Edit
  <2>2. system' \in [Systems -> {"absent", "active", "deleted"}]
    BY <1>0, <1>2 DEF DeleteSystem, AddSystem
  <2> QED
    BY <1>0, <1>2, <2>1, <2>2 DEF DeleteSystem, AddSystem, sales, sync
<1>3. ASSUME NEW p \in Products, NEW v \in Prices,
             manage_product(p, v) \/ ApiUpdate(p, v) \/ AdminSave(p, v)
      PROVE  TypeOK'
  BY <1>0, <1>3, AdminType
<1>4. ASSUME NEW p \in Products, ImportProduct(p) PROVE TypeOK'
  <2>1. [price |-> InLearn(p), active |-> TRUE] \in Row
    BY <1>0, <1>4, LearnPrice DEF ImportProduct, Row
  <2> QED
    BY <1>0, <1>4, <2>1 DEF ImportProduct, Edit, sales, sync
<1>5. ASSUME NEW p \in Products, ImportCommit(p) PROVE TypeOK'
  <2>1. unseen[p].price \in Prices
    BY <1>0, <1>5 DEF ImportCommit, Row
  <2>2. /\ row' \in [Products -> Row \cup {None}]
        /\ shown' \in [Products -> SUBSET Prices]
        /\ late' \subseteq Products
    BY <1>0, <1>5, <2>1, SaveType DEF ImportCommit
  <2> QED
    BY <1>0, <1>5, <2>1, <2>2 DEF ImportCommit, Revise, admin, sales, sync
<1>6. ASSUME NEW p \in Products, PreloadFetch(p) PROVE TypeOK'
  BY <1>0, <1>6, LearnPrice DEF PreloadFetch, admin, sales, sync
<1>7. ASSUME NEW p \in Products, PreloadCreate(p) PROVE TypeOK'
  <2>1. preload[p] \in Prices
    BY <1>0, <1>7 DEF PreloadCreate
  <2>2. /\ row' \in [Products -> Row \cup {None}]
        /\ shown' \in [Products -> SUBSET Prices]
        /\ late' \subseteq Products
    BY <1>0, <1>7, <2>1, SaveType DEF PreloadCreate, CreateRow
  <2> QED
    BY <1>0, <1>7, <2>2 DEF PreloadCreate, CreateRow, admin, sales, sync
<1>8. ASSUME NEW p \in Products, PreloadFails(p) PROVE TypeOK'
  BY <1>0, <1>8 DEF PreloadFails, admin, sales, sync
<1>9. ASSUME NEW p \in Products, AddToBasket(p) \/ LearnChanges(p) PROVE TypeOK'
  <2>1. CASE AddToBasket(p)
    BY <1>0, <2>1 DEF AddToBasket, admin, sync
  <2>2. CASE LearnChanges(p)
    <3>1. news' \in 0 .. MaxNews /\ learn' \in [Products -> Answers]
      BY <1>0, <2>2 DEF LearnChanges
    <3> QED
      BY <1>0, <2>2, <3>1 DEF LearnChanges, admin, sales, sync
  <2> QED
    BY <1>9, <2>1, <2>2
<1>10. ASSUME NEW p \in Products, Sell(p) PROVE TypeOK'
  <2>1. [product |-> p, price |-> Charge(p)] \in [product : Products, price : Prices]
    BY <1>0, <1>10 DEF Sell, Charge
  <2> QED
    BY <1>0, <1>10, <2>1 DEF Sell, admin, sync
<1>11. CASE Midnight
  BY <1>0, <1>11 DEF Midnight, admin, sales, sync
<1>12. ASSUME NEW ps \in SUBSET Products, UpdateCommand(ps) PROVE TypeOK'
  BY <1>0, <1>12 DEF UpdateCommand, admin, sales, sync
<1>13. ASSUME NEW w \in Workers, TakeTask(w) PROVE TypeOK'
  BY <1>0, <1>13 DEF TakeTask, Syncable, admin, sales
<1>14. ASSUME NEW w \in Workers, ReadProduct(w) PROVE TypeOK'
  BY <1>0, <1>14 DEF ReadProduct, admin, sales
<1>15. ASSUME NEW w \in Workers, FetchMetadata(w) PROVE TypeOK'
  <2>1. product[w] \in Products
    BY <1>15 DEF FetchMetadata, IInv, InHand
  <2>2. /\ pc' \in [Workers -> {"idle", "loop", "fetch", "save"}]
        /\ product' \in [Workers -> Products \cup {None}]
    BY <1>0, <1>15, <2>1 DEF FetchMetadata
  <2>3. fetched' \in [Workers -> Prices \cup {None}]
    <3>1. Known(product[w]) => InLearn(product[w]) \in Prices
      BY <1>0, <2>1, LearnPrice DEF Known
    <3> QED
      BY <1>0, <1>15, <3>1 DEF FetchMetadata
  <2>4. faults' \in 0 .. MaxFaults
    BY <1>0, <1>15 DEF FetchMetadata
  <2> QED
    BY <1>0, <1>15, <2>2, <2>3, <2>4 DEF FetchMetadata, admin, sales
<1>16. ASSUME NEW w \in Workers, SaveProduct(w) PROVE TypeOK'
  <2>1. product[w] \in Products /\ fetched[w] \in Prices
    BY <1>16 DEF SaveProduct, IInv, InHand
  <2>2. /\ row' \in [Products -> Row \cup {None}]
        /\ shown' \in [Products -> SUBSET Prices]
        /\ late' \subseteq Products
    BY <1>0, <1>16, <2>1, SaveType DEF SaveProduct
  <2> QED
    BY <1>0, <1>16, <2>1, <2>2 DEF SaveProduct, SyncRevise, Revise, admin, sales
<1>17. ASSUME NEW w \in Workers, EndLoop(w) \/ WorkerDies(w) PROVE TypeOK'
  BY <1>0, <1>17, EndType DEF EndLoop, WorkerDies, admin, sales
<1> HIDE DEF TypeOK
<1> QED
  BY <1>1, <1>2, <1>3, <1>4, <1>5, <1>6, <1>7, <1>8, <1>9, <1>10, <1>11, <1>12, <1>13, <1>14,
     <1>15, <1>16, <1>17 DEF Next, SyncStep

-----------------------------------------------------------------------------
(* The invariant.                                                          *)

\* What saves no row.
LEMMA KeepStep ==
  ASSUME IInv, UNCHANGED <<row, unseen, version, lines, shown, late>>,
         \A w \in Workers : product'[w] # None =>
           \/ product'[w] = product[w]
           \/ product'[w] \notin late /\ row[product'[w]] # None
  PROVE  Versions' /\ Deleted'
BY CatalogueNone DEF IInv, TypeOK, Versions, ChargedWasShown, Deleted

LEMMA InHandStep == IInv /\ [Next]_vars => InHand'
<1> SUFFICES ASSUME IInv, [Next]_vars, NEW w \in Workers
             PROVE  /\ pc'[w] \in {"fetch", "save"} => product'[w] \in Products
                    /\ pc'[w] = "save" => fetched'[w] \in Prices
    BY DEF InHand
<1> USE DEF IInv, InHand, TypeOK
<1>1. CASE UNCHANGED sync
  BY <1>1 DEF sync
<1>2. ASSUME NEW v \in Workers, TakeTask(v) \/ SyncStep(v) \/ WorkerDies(v)
      PROVE  /\ pc'[w] \in {"fetch", "save"} => product'[w] \in Products
             /\ pc'[w] = "save" => fetched'[w] \in Prices
  <2>1. CASE TakeTask(v) \/ EndLoop(v) \/ WorkerDies(v)
    BY <2>1 DEF TakeTask, EndLoop, WorkerDies, EndTask
  <2>2. CASE ReadProduct(v)
    BY <2>2 DEF ReadProduct
  <2>3. CASE FetchMetadata(v)
    BY <2>3, LearnPrice DEF FetchMetadata, Known
  <2>4. CASE SaveProduct(v)
    BY <2>4 DEF SaveProduct
  <2> QED
    BY <1>2, <2>1, <2>2, <2>3, <2>4 DEF SyncStep
<1>3. CASE \/ \E s \in Systems : DeleteSystem(s) \/ \E d \in BOOLEAN : AddSystem(s, d)
           \/ \E p \in Products, v \in Prices :
                manage_product(p, v) \/ ApiUpdate(p, v) \/ AdminSave(p, v)
           \/ \E p \in Products : ImportProduct(p) \/ ImportCommit(p)
           \/ \E p \in Products : PreloadFetch(p) \/ PreloadCreate(p) \/ PreloadFails(p)
           \/ \E p \in Products : AddToBasket(p) \/ Sell(p) \/ LearnChanges(p)
           \/ Midnight
           \/ \E ps \in SUBSET Products : UpdateCommand(ps)
  <2>1. UNCHANGED sync
    BY <1>3
       DEF DeleteSystem, AddSystem, manage_product, AddProduct, UpdateProduct, RemoveProduct,
           ApiUpdate, AdminSave, ImportProduct, ImportCommit, PreloadFetch, PreloadCreate,
           PreloadFails, AddToBasket, Sell, LearnChanges, Midnight, UpdateCommand
  <2> QED
    BY <1>1, <2>1
<1>4. CASE UNCHANGED vars
  BY <1>1, <1>4 DEF vars
<1> QED
  BY <1>2, <1>3, <1>4 DEF Next

LEMMA VersionsStep == IInv /\ [Next]_vars => Versions' /\ Deleted'
<1> SUFFICES ASSUME IInv, [Next]_vars PROVE Versions' /\ Deleted'
    OBVIOUS
<1>1. CASE UNCHANGED vars
  BY <1>1, KeepStep DEF vars, sales, sync
<1>2. ASSUME NEW s \in Systems, NEW d \in BOOLEAN, DeleteSystem(s) \/ AddSystem(s, d)
      PROVE  Versions' /\ Deleted'
  BY <1>2, KeepStep DEF DeleteSystem, AddSystem, sales, sync
<1>3. ASSUME NEW p \in Products, NEW v \in Prices,
             AddProduct(p, v) \/ UpdateProduct(p, v) \/ ApiUpdate(p, v) \/ AdminSave(p, v)
      PROVE  Versions' /\ Deleted'
  <2>1. /\ SaveRow(p, v) /\ UNCHANGED <<unseen, lines, product>> /\ unseen[p] = None
        /\ UNCHANGED version \/ Revise(p, v)
    BY <1>3 DEF AddProduct, CreateRow, UpdateProduct, ApiUpdate, Active, AdminSave, IInv, Deleted,
                sales, sync
  <2> QED
    BY <2>1, SaveStep
<1>4. ASSUME NEW p \in Products, RemoveProduct(p) PROVE Versions' /\ Deleted'
  <2>1. /\ \A q \in Products : q # p => row'[q] = row[q]
        /\ row[p] # None /\ row'[p] # None /\ ~ row'[p].active
        /\ UNCHANGED <<unseen, version, lines, shown, product>>
    BY <1>4, CatalogueNone DEF RemoveProduct, Active, IInv, TypeOK, Row, sales, sync
  <2>2. Versions'
    BY <2>1 DEF IInv, Versions, ChargedWasShown
  <2>3. late' \subseteq late \cup {p} /\ \A w \in Workers : p \in late' \ late => product[w] # p
    BY <1>4 DEF RemoveProduct
  <2>4. Deleted'
    BY <2>1, <2>3 DEF IInv, TypeOK, Deleted
  <2> QED
    BY <2>2, <2>4
<1>5. ASSUME NEW p \in Products, ImportProduct(p) PROVE Versions' /\ Deleted'
  <2>1. /\ \A q \in Products : q # p => unseen'[q] = unseen[q]
        /\ row[p] = None /\ UNCHANGED <<row, version, lines, shown, late, product>>
    BY <1>5 DEF ImportProduct, sales, sync
  <2> QED
    BY <2>1 DEF IInv, Versions, ChargedWasShown, Deleted
<1>6. ASSUME NEW p \in Products, ImportCommit(p) PROVE Versions' /\ Deleted'
  <2>1. unseen[p].price \in Prices
    BY <1>6 DEF ImportCommit, IInv, TypeOK, Row
  <2> QED
    BY <1>6, <2>1, SaveStep DEF ImportCommit, IInv, TypeOK, sales, sync
<1>7. ASSUME NEW p \in Products, PreloadCreate(p) PROVE Versions' /\ Deleted'
  <2>1. preload[p] \in Prices
    BY <1>7 DEF PreloadCreate, IInv, TypeOK
  <2> QED
    BY <1>7, <2>1, SaveStep DEF PreloadCreate, CreateRow, sales, sync
<1>8. ASSUME NEW p \in Products,
             PreloadFetch(p) \/ PreloadFails(p) \/ AddToBasket(p) \/ LearnChanges(p)
      PROVE  Versions' /\ Deleted'
  BY <1>8, KeepStep DEF PreloadFetch, PreloadFails, AddToBasket, LearnChanges, sales, sync
<1>9. ASSUME NEW p \in Products, Sell(p) PROVE Versions' /\ Deleted'
  BY <1>9 DEF Sell, Charge, sync, IInv, TypeOK, Versions, ChargedWasShown, Deleted
<1>10. ASSUME Midnight \/ \E ps \in SUBSET Products : UpdateCommand(ps)
       PROVE  Versions' /\ Deleted'
  BY <1>10, KeepStep DEF Midnight, UpdateCommand, sales, sync
<1>11. ASSUME NEW w \in Workers, TakeTask(w) \/ EndLoop(w) \/ WorkerDies(w) \/ FetchMetadata(w)
       PROVE  Versions' /\ Deleted'
  <2>1. \A v \in Workers : product'[v] = product[v] \/ product'[v] = None
    BY <1>11 DEF TakeTask, EndLoop, WorkerDies, EndTask, FetchMetadata, IInv, TypeOK
  <2>2. UNCHANGED <<row, unseen, version, lines, shown, late>>
    BY <1>11 DEF TakeTask, EndLoop, WorkerDies, FetchMetadata, sales
  <2> QED
    BY <2>1, <2>2, KeepStep
<1>12. ASSUME NEW w \in Workers, ReadProduct(w) PROVE Versions' /\ Deleted'
  <2> PICK p \in todo[w] : Active(p) /\ product' = [product EXCEPT ![w] = p]
    BY <1>12 DEF ReadProduct, Read
  <2>1. p \notin late /\ row[p] # None
    BY DEF Active, IInv, Deleted
  <2>2. \A v \in Workers : product'[v] = product[v] \/ product'[v] = p
    BY DEF IInv, TypeOK
  <2> QED
    BY <1>12, <2>1, <2>2, KeepStep DEF ReadProduct, sales
<1>13. ASSUME NEW w \in Workers, SaveProduct(w) PROVE Versions' /\ Deleted'
  <2> DEFINE p == product[w]
             v == fetched[w]
  <2>1. p \in Products /\ v \in Prices /\ SaveRow(p, v) /\ Revise(p, v)
    BY <1>13 DEF SaveProduct, SyncRevise, IInv, InHand
  <2>2. /\ UNCHANGED <<unseen, lines>>
        /\ \A u \in Workers : product'[u] = product[u] \/ product'[u] = None
    BY <1>13 DEF SaveProduct, IInv, TypeOK, sales
  <2>3. \A q \in Products : unseen'[q] = unseen[q]
    BY <2>2
  <2>4. unseen[p] = None
    BY <2>1, CatalogueNone DEF IInv, Deleted
  <2> QED
    BY <2>1, <2>2, <2>3, <2>4, SaveStep
<1> QED
  BY <1>1, <1>2, <1>3, <1>4, <1>5, <1>6, <1>7, <1>8, <1>9, <1>10, <1>11, <1>12, <1>13
     DEF Next, SyncStep, manage_product

\* The invariant holds in every reachable state.
THEOREM Invariance == Spec => []IInv
<1>1. IInv /\ [Next]_vars => IInv'
  BY TypeStep, InHandStep, VersionsStep DEF IInv
<1> QED
  BY <1>1, InitInv, PTL DEF Spec

\* TypeOK is an invariant.
THEOREM TypeCorrect == Spec => []TypeOK
<1>1. IInv => TypeOK
  BY DEF IInv
<1> QED
  BY <1>1, Invariance, PTL

\* No order charges a price that was never on show.
THEOREM ChargesShownPrices == Spec => []ChargedWasShown
<1>1. IInv => ChargedWasShown
  BY DEF IInv, Versions
<1> QED
  BY <1>1, Invariance, PTL

\* No task brings back a product that was deleted while no task had it in hand.
THEOREM NotRevived == Spec => DeletedIsNotSynced
<1>1. IInv /\ [Next]_vars => [\A p \in late : row'[p] # row[p] => edits' > edits]_vars
  <2> SUFFICES ASSUME IInv, Next, NEW p \in late, row'[p] # row[p] PROVE edits' > edits
      OBVIOUS
  <2>1. p \in Products /\ row[p] # None /\ ~ Active(p) /\ unseen[p] = None
    BY DEF IInv, TypeOK, Deleted, Active
  <2>2. edits \in Nat
    BY CatalogueConstants DEF IInv, TypeOK
  <2>3. ASSUME NEW q \in Products, NEW v, SaveRow(q, v) PROVE q = p
    BY <2>3 DEF SaveRow, IInv, TypeOK
  <2>4. ASSUME NEW q \in Products, NEW v, manage_product(q, v) \/ ApiUpdate(q, v) \/ AdminSave(q, v)
        PROVE  edits' > edits
    BY <2>2, <2>4
       DEF manage_product, AddProduct, UpdateProduct, RemoveProduct, ApiUpdate, AdminSave, Edit
  <2>5. ASSUME NEW q \in Products, ImportCommit(q) \/ PreloadCreate(q) PROVE FALSE
    BY <2>1, <2>3, <2>5 DEF ImportCommit, PreloadCreate, CreateRow
  <2>6. ASSUME NEW w \in Workers, SaveProduct(w) PROVE FALSE
    BY <2>3, <2>6 DEF SaveProduct, IInv, InHand, Deleted
  <2>7. ~ UNCHANGED row
    OBVIOUS
  <2>8. CASE \E q \in Products, v \in Prices :
               manage_product(q, v) \/ ApiUpdate(q, v) \/ AdminSave(q, v)
    BY <2>4, <2>8
  <2>9. CASE \/ \E q \in Products : ImportCommit(q) \/ PreloadCreate(q)
             \/ \E w \in Workers : SaveProduct(w)
    BY <2>5, <2>6, <2>9
  <2>10. CASE \/ \E s \in Systems : DeleteSystem(s) \/ \E d \in BOOLEAN : AddSystem(s, d)
              \/ \E q \in Products : ImportProduct(q) \/ PreloadFetch(q) \/ PreloadFails(q)
              \/ \E q \in Products : AddToBasket(q) \/ Sell(q) \/ LearnChanges(q)
              \/ Midnight
              \/ \E ps \in SUBSET Products : UpdateCommand(ps)
              \/ \E w \in Workers : TakeTask(w) \/ ReadProduct(w) \/ FetchMetadata(w) \/ EndLoop(w)
              \/ \E w \in Workers : WorkerDies(w)
    BY <2>7, <2>10
       DEF DeleteSystem, AddSystem, ImportProduct, PreloadFetch, PreloadFails, AddToBasket, Sell,
           LearnChanges, Midnight, UpdateCommand, TakeTask, ReadProduct, FetchMetadata, EndLoop,
           WorkerDies
  <2> QED
    BY <2>8, <2>9, <2>10 DEF Next, SyncStep
<1> QED
  BY <1>1, Invariance, PTL DEF Spec, DeletedIsNotSynced
=============================================================================
