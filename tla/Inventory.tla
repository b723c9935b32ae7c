------------------------------ MODULE Inventory ------------------------------
(***************************************************************************)
(* The stock of the products: the quantity that sales take and              *)
(* cancellations give back, the ledger that explains it, corrections of the *)
(* count, and what the tills show.                                         *)
(*                                                                         *)
(* Sales and cancellations run READ COMMITTED and lock the rows of the      *)
(* stock one by one; corrections run SERIALIZABLE: they read from a         *)
(* snapshot and abort if the row they write is no longer the one they read. *)
(* The tills are told after the commit, in a step of its own.              *)
(***************************************************************************)
EXTENDS Integers, FiniteSets

CONSTANTS
    Products,       \* numbers, in the order of the product ids
    Orders,
    Quantities,     \* quantities of a position
    Counts,         \* what somebody counts or corrects the stock to
    MaxVersion,     \* bound: settings do not change a row of this version
    Txs,            \* requests that may run at the same time
    Keys,           \* idempotency keys of corrections
    Event,          \* the row of the event
    NoTx, NoKey

ASSUME InventoryAssumption ==
    /\ Products \subseteq Nat /\ IsFiniteSet(Products)
    /\ Quantities \subseteq Nat \ {0} /\ Counts \subseteq Nat
    /\ MaxVersion \in Nat
    /\ NoTx \notin Txs /\ NoKey \notin Keys
    /\ Event \notin Products /\ Event \notin Orders
    /\ Orders \intersect Products = {}

VARIABLES
    stock,      \* InventoryStock
    ledger,     \* sum of quantityDelta of the product's movements
    after,      \* quantityAfter of its last movement
    item,       \* status of the position of an order for a product
    sale,       \* quantity of the position's SALE movement, 0 without
    returned,   \* quantity its CANCELLATION movements gave back
    booked,     \* idempotency keys of corrections
    lock, tx,   \* row locks, requests
    shown       \* what the tills show of a product

stockVars == <<stock, ledger, after>>
saleVars  == <<item, sale, returned>>
vars      == <<stockVars, saleVars, booked, lock, tx, shown>>

Resources == Products \union Orders \union {Event}

StockType == [row : {"NONE", "TRACKED", "UNTRACKED"}, qty : Nat,
              blocked : BOOLEAN, version : Nat]

NoStock == [row |-> "NONE", qty |-> 0, blocked |-> FALSE, version |-> 0]

(* A change as broadcast to the tills.                                     *)
ShownType == [qty : Nat, blocked : BOOLEAN, version : Nat]

NoUnits == [p \in Products |-> 0]

Idle == [op |-> "none", order |-> Event, units |-> NoUnits, rows |-> {},
         want |-> {}, qty |-> 0, key |-> NoKey, read |-> NoStock,
         changes |-> {}]

TxType == [op : {"none", "sale", "cancel", "correct", "publish"},
           order : Orders \union {Event}, units : [Products -> Nat],
           rows : SUBSET Products, want : SUBSET Products,
           qty : Nat, key : Keys \union {NoKey}, read : StockType,
           changes : SUBSET (Products \X ShownType)]

(* Every variable keeps its type; the stock is never negative.             *)
TypeOK ==
    /\ stock \in [Products -> StockType]
    /\ ledger \in [Products -> Int] /\ after \in [Products -> Int]
    /\ item \in [Orders -> [Products -> {"NONE", "PENDING", "CANCELLED"}]]
    /\ sale \in [Orders -> [Products -> Nat]]
    /\ returned \in [Orders -> [Products -> Nat]]
    /\ booked \subseteq Keys
    /\ lock \in [Resources -> Txs \union {NoTx}]
    /\ DOMAIN tx = Txs /\ \A t \in Txs : tx[t] \in TxType
    /\ shown \in [Products -> ShownType]

Init ==
    /\ stock = [p \in Products |-> NoStock]
    /\ ledger = NoUnits /\ after = NoUnits
    /\ item = [o \in Orders |-> [p \in Products |-> "NONE"]]
    /\ sale = [o \in Orders |-> NoUnits]
    /\ returned = [o \in Orders |-> NoUnits]
    /\ booked = {}
    /\ lock = [r \in Resources |-> NoTx]
    /\ tx = [t \in Txs |-> Idle]
    /\ shown = [p \in Products |-> [qty |-> 0, blocked |-> FALSE, version |-> 0]]

(***************************************************************************)
(* Helpers                                                                 *)
(***************************************************************************)
Free(r) == lock[r] = NoTx
First(P) == CHOOSE p \in P : \A q \in P : p <= q

Tracked(p) == stock[p].row = "TRACKED"
Exists(o)  == \E p \in Products : item[o][p] # "NONE"

(* The rows of P change by delta, each with a movement.                    *)
Moves(P, delta) ==
    /\ stock' = [p \in Products |->
          IF p \in P THEN [stock[p] EXCEPT !.qty = stock[p].qty + delta[p],
                                           !.version = stock[p].version + 1]
          ELSE stock[p]]
    /\ ledger' = [p \in Products |->
          IF p \in P THEN ledger[p] + delta[p] ELSE ledger[p]]
    /\ after' = [p \in Products |->
          IF p \in P THEN stock[p].qty + delta[p] ELSE after[p]]

(* Commit: the locks go; what has changed is yet to be published.          *)
Commits(t, changes) ==
    /\ lock' = [r \in Resources |-> IF lock[r] = t THEN NoTx ELSE lock[r]]
    /\ tx' = [tx EXCEPT ![t] =
          IF changes = {} THEN Idle
          ELSE [Idle EXCEPT !.op = "publish", !.changes = changes]]

(* publishChanges reports every product as not blocked.                    *)
Changed(P, delta) ==
    {<<p, [qty |-> stock[p].qty + delta[p], blocked |-> FALSE,
           version |-> stock[p].version + 1]>> : p \in P}

(***************************************************************************)
(* reserveSale, recordSales                                                *)
(***************************************************************************)

(* createOrder and createQuickSale lock the event; rows that do not exist   *)
(* are not limited.                                                        *)
SaleStarts(t, o, units) ==
    /\ tx[t].op = "none"
    /\ ~Exists(o)
    /\ Free(Event)
    /\ lock' = [lock EXCEPT ![Event] = t]
    /\ LET rows == {p \in Products : units[p] > 0 /\ stock[p].row # "NONE"} IN
       tx' = [tx EXCEPT ![t] = [Idle EXCEPT !.op = "sale", !.order = o,
                !.units = units, !.rows = rows, !.want = rows]]
    /\ UNCHANGED <<stockVars, saleVars, booked, shown>>

(* Mutant: the rows are locked in any order.                               *)
LocksRow_AnyOrder(t) ==
    \E p \in tx[t].want :
       /\ Free(p)
       /\ lock' = [lock EXCEPT ![p] = t]
       /\ tx' = [tx EXCEPT ![t].want = tx[t].want \ {p}]
       /\ UNCHANGED <<stockVars, saleVars, booked, shown>>

(* SELECT ... ORDER BY "productId" ASC FOR UPDATE                          *)
LocksRow(t) ==
    LET p == First(tx[t].want) IN
    /\ tx[t].want # {}
    /\ Free(p)
    /\ lock' = [lock EXCEPT ![p] = t]
    /\ tx' = [tx EXCEPT ![t].want = tx[t].want \ {p}]
    /\ UNCHANGED <<stockVars, saleVars, booked, shown>>

Sellable(t) ==
    \A p \in tx[t].rows :
        ~stock[p].blocked /\ (Tracked(p) => stock[p].qty >= tx[t].units[p])

Sells(t) ==
    LET o     == tx[t].order
        P     == {p \in tx[t].rows : Tracked(p)}
        delta == [p \in Products |-> -tx[t].units[p]]
    IN
    /\ tx[t].op = "sale" /\ tx[t].want = {}
    /\ Sellable(t)
    /\ Moves(P, delta)
    /\ item' = [item EXCEPT ![o] = [p \in Products |->
          IF tx[t].units[p] > 0 THEN "PENDING" ELSE "NONE"]]
    /\ sale' = [sale EXCEPT ![o] = [p \in Products |->
          IF p \in P THEN tx[t].units[p] ELSE 0]]
    /\ Commits(t, Changed(P, delta))
    /\ UNCHANGED <<returned, booked, shown>>

(* INVENTORY_INSUFFICIENT, PRODUCT_UNAVAILABLE                             *)
SaleRejected(t) ==
    /\ tx[t].op = "sale" /\ tx[t].want = {}
    /\ ~Sellable(t)
    /\ Commits(t, {})
    /\ UNCHANGED <<stockVars, saleVars, booked, shown>>

(***************************************************************************)
(* reverseSales                                                            *)
(***************************************************************************)

(* cancelOrder and cancelOrderItem lock the order and go on if it, or the   *)
(* position, is not cancelled yet.  P: the positions of the request.       *)
CancelStarts(t, o, P) ==
    /\ tx[t].op = "none"
    /\ Free(o)
    /\ \E p \in P : item[o][p] = "PENDING"
    /\ lock' = [lock EXCEPT ![o] = t]
    /\ tx' = [tx EXCEPT ![t] = [Idle EXCEPT !.op = "cancel", !.order = o,
          !.rows = P, !.want = {p \in P : sale[o][p] > 0}]]
    /\ UNCHANGED <<stockVars, saleVars, booked, shown>>

CancelOrderStarts(t, o) ==
    CancelStarts(t, o, {p \in Products : item[o][p] # "NONE"})

CancelItemStarts(t, o, p) == CancelStarts(t, o, {p})

(* Mutant: a sale that was given back already is given back again.         *)
Unreversed_All(t) == {p \in tx[t].rows : sale[tx[t].order][p] > 0}

(* The SALE movements without a reversal, read with the rows locked.       *)
Unreversed(t) ==
    {p \in tx[t].rows : sale[tx[t].order][p] > 0 /\ returned[tx[t].order][p] = 0}

Reverses(t) ==
    LET o     == tx[t].order
        P     == {p \in Unreversed(t) : Tracked(p)}
        delta == sale[o]
    IN
    /\ tx[t].op = "cancel" /\ tx[t].want = {}
    /\ Moves(P, delta)
    /\ item' = [item EXCEPT ![o] = [p \in Products |->
          IF p \in tx[t].rows THEN "CANCELLED" ELSE item[o][p]]]
    /\ returned' = [returned EXCEPT ![o] = [p \in Products |->
          IF p \in P THEN returned[o][p] + sale[o][p] ELSE returned[o][p]]]
    /\ Commits(t, Changed(P, delta))
    /\ UNCHANGED <<sale, booked, shown>>

(***************************************************************************)
(* initialize, correction, settings                                        *)
(***************************************************************************)

(* A second initialization at the same time fails on the primary key: one   *)
(* step.                                                                   *)
Initialize(t, p, qty, row, blocked) ==
    /\ tx[t].op = "none"
    /\ stock[p].row = "NONE"
    /\ stock' = [stock EXCEPT ![p] =
          [row |-> row, qty |-> qty, blocked |-> blocked, version |-> 1]]
    /\ ledger' = [ledger EXCEPT ![p] = qty]
    /\ after' = [after EXCEPT ![p] = qty]
    /\ Commits(t, {<<p, [qty |-> qty, blocked |-> blocked, version |-> 1]>>})
    /\ UNCHANGED <<saleVars, booked, shown>>

(* The snapshot of a correction.                                           *)
CorrectionStarts(t, p, qty, key) ==
    /\ tx[t].op = "none"
    /\ key \notin booked
    /\ stock[p].row # "NONE"
    /\ tx' = [tx EXCEPT ![t] = [Idle EXCEPT !.op = "correct", !.rows = {p},
          !.qty = qty, !.key = key, !.read = stock[p]]]
    /\ UNCHANGED <<stockVars, saleVars, booked, lock, shown>>

(* Mutant: the correction goes on with the count it read.                  *)
RowUnchanged_Ignored(t, p) == TRUE

RowUnchanged(t, p) == stock[p] = tx[t].read

(* The row is written, or the transaction cannot be serialized.            *)
Correct(t) ==
    \E p \in tx[t].rows :
       LET qty == tx[t].qty IN
       /\ tx[t].op = "correct"
       /\ Free(p)
       /\ \/ /\ RowUnchanged(t, p) /\ tx[t].key \notin booked
             /\ stock' = [stock EXCEPT ![p] =
                   [stock[p] EXCEPT !.qty = qty, !.version = stock[p].version + 1]]
             /\ ledger' = [ledger EXCEPT ![p] = @ + (qty - tx[t].read.qty)]
             /\ after' = [after EXCEPT ![p] = qty]
             /\ booked' = booked \union {tx[t].key}
             /\ Commits(t, {<<p, [qty |-> qty, blocked |-> stock[p].blocked,
                                  version |-> stock[p].version + 1]>>})
          \/ /\ ~RowUnchanged(t, p) \/ tx[t].key \in booked
             /\ Commits(t, {})
             /\ UNCHANGED <<stockVars, booked>>
       /\ UNCHANGED <<saleVars, shown>>

(* settings writes what it read or cannot be serialized: one step.  There   *)
(* is no movement.                                                         *)
Settings(t, p) ==
    LET blocked == ~stock[p].blocked IN
    /\ tx[t].op = "none"
    /\ stock[p].row # "NONE" /\ Free(p)
    /\ stock[p].version < MaxVersion
    /\ stock' = [stock EXCEPT ![p] = [stock[p] EXCEPT
          !.blocked = blocked, !.version = stock[p].version + 1]]
    /\ Commits(t, {<<p, [qty |-> stock[p].qty, blocked |-> blocked,
                         version |-> stock[p].version + 1]>>})
    /\ UNCHANGED <<ledger, after, saleVars, booked, shown>>

(***************************************************************************)
(* The tills                                                               *)
(***************************************************************************)

(* The stream hands every message on; a till takes it as it comes.         *)
Publish(t) ==
    /\ tx[t].op = "publish"
    /\ shown' = [p \in Products |->
          IF \E c \in tx[t].changes : c[1] = p
          THEN (CHOOSE c \in tx[t].changes : c[1] = p)[2]
          ELSE shown[p]]
    /\ tx' = [tx EXCEPT ![t] = Idle]
    /\ UNCHANGED <<stockVars, saleVars, booked, lock>>

(* A till loads its products.                                              *)
LoadContext(p) ==
    /\ shown' = [shown EXCEPT ![p] = [qty |-> stock[p].qty,
          blocked |-> stock[p].blocked, version |-> stock[p].version]]
    /\ shown' # shown
    /\ UNCHANGED <<stockVars, saleVars, booked, lock, tx>>

(***************************************************************************)
(* Specification                                                           *)
(***************************************************************************)
Baskets == {u \in [Products -> Quantities \union {0}] :
               \E p \in Products : u[p] > 0}

Request(t) ==
    \/ \E o \in Orders, u \in Baskets : SaleStarts(t, o, u)
    \/ \E o \in Orders : \/ CancelOrderStarts(t, o)
                         \/ \E p \in Products : CancelItemStarts(t, o, p)
    \/ \E p \in Products :
          \/ \E q \in Counts, row \in {"TRACKED", "UNTRACKED"}, b \in BOOLEAN :
                Initialize(t, p, q, row, b)
          \/ \E q \in Counts, k \in Keys : CorrectionStarts(t, p, q, k)
          \/ Settings(t, p)

Next ==
    \/ \E t \in Txs : \/ Request(t) \/ LocksRow(t) \/ Sells(t) \/ SaleRejected(t)
                      \/ Reverses(t) \/ Correct(t) \/ Publish(t)
    \/ \E p \in Products : LoadContext(p)

Spec == Init /\ [][Next]_vars

(***************************************************************************)
(* Properties                                                              *)
(***************************************************************************)

(* The ledger explains the stock: the movements add up to it, the last one   *)
(* ends at it, and it is never below zero, whatever sales, cancellations and *)
(* corrections ran at the same time.                                       *)
LedgerExplainsStock ==
    \A p \in Products :
        stock[p].qty >= 0 /\ stock[p].qty = ledger[p] /\ stock[p].qty = after[p]

(* A cancelled position gives back what its sale took, once; a position      *)
(* that took nothing or is not cancelled gives nothing back.               *)
ReturnedOnce ==
    \A o \in Orders, p \in Products :
        returned[o][p] = IF item[o][p] = "CANCELLED" THEN sale[o][p] ELSE 0

(* Of any requests one does not wait for a row of another of them: nobody    *)
(* waits in a circle, however many are in it (the rows are locked in the     *)
(* order of the product ids).                                              *)
WaitsFor(t, u) == \E p \in tx[t].want : lock[p] = u

NoWaitCycle ==
    \A T \in (SUBSET Txs) \ {{}} : \E t \in T : \A u \in T : ~WaitsFor(t, u)

Quiet == \A t \in Txs : tx[t].op # "publish"

(* "Live-Bestandsanzeige": when nothing is left to be published, a till      *)
(* shows the stock.                                                        *)
TillsShowStock ==
    Quiet => \A p \in Products : shown[p].version = stock[p].version

(* A product that is blocked is shown as such when nothing is left to be     *)
(* published.                                                              *)
TillsShowBlocked ==
    Quiet => \A p \in Products : stock[p].blocked => shown[p].blocked
=============================================================================
