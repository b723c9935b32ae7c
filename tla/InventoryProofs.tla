--------------------------- MODULE InventoryProofs ---------------------------
(***************************************************************************)
(* Proofs about Inventory, for any number of products, orders, requests at  *)
(* a time and corrections.                                                 *)
(***************************************************************************)
EXTENDS Inventory, FiniteSetTheorems, WellFoundedInduction, TLAPS

(***************************************************************************)
(* The least and the greatest product of a set                             *)
(***************************************************************************)
LEMMA LeastNumber ==
    ASSUME NEW P \in SUBSET Nat, P # {}
    PROVE  \E p \in P : \A q \in P : p <= q
<1> DEFINE R == {ss \in Nat \X Nat : ss[1] < ss[2]}
<1>1. IsWellFoundedOn(R, Nat)
    BY NatLessThanWellFounded, Zenon DEF OpToRel
<1> HIDE DEF R
<1>2. PICK p \in P : \A q \in P : <<q, p>> \notin R
    BY <1>1, WFMin
<1>3. ASSUME NEW q \in P PROVE p <= q
    <2>1. <<q, p>> \in Nat \X Nat
        OBVIOUS
    <2>2. ~(q < p)
        BY <1>2, <2>1 DEF R
    <2> QED
        BY <2>2
<1> QED
    BY <1>3

(* Without a greatest element the step to the next greater one is an         *)
(* injection of the set into itself that misses the least one.             *)
LEMMA GreatestNumber ==
    ASSUME NEW P \in SUBSET Nat, P # {}, IsFiniteSet(P)
    PROVE  \E p \in P : \A q \in P : q <= p
<1> SUFFICES ASSUME \A p \in P : \E q \in P : p < q
             PROVE  FALSE
    OBVIOUS
<1> DEFINE IsNext(p, q) == q \in P /\ p < q /\ \A r \in P : p < r => q <= r
           next == [p \in P |-> CHOOSE q : IsNext(p, q)]
<1>1. ASSUME NEW p \in P PROVE IsNext(p, next[p])
    <2>1. {r \in P : p < r} \in SUBSET Nat /\ {r \in P : p < r} # {}
        OBVIOUS
    <2>2. PICK q \in {r \in P : p < r} : \A r \in {s \in P : p < s} : q <= r
        BY <2>1, LeastNumber, Zenon
    <2>3. IsNext(p, q)
        BY <2>2
    <2> HIDE DEF IsNext
    <2> QED
        BY <2>3
<1> HIDE DEF next
<1>2. next \in [P -> P]
    BY <1>1 DEF next
<1>3. next \in Injection(P, P)
    <2>1. ASSUME NEW p \in P, NEW q \in P, next[p] = next[q] PROVE p = q
        <3>1. p \in Nat /\ q \in Nat /\ next[p] \in Nat
            BY <1>2
        <3>2. p < next[p] /\ q < next[q]
            BY <1>1 DEF IsNext
        <3>3. (p < q => next[p] <= q) /\ (q < p => next[q] <= p)
            BY <1>1 DEF IsNext
        <3> QED
            BY <2>1, <3>1, <3>2, <3>3
    <2> QED
        BY <1>2, <2>1 DEF Injection, IsInjective
<1>4. next \in Surjection(P, P)
    BY <1>3, FS_Injection
<1>5. PICK least \in P : \A q \in P : least <= q
    BY LeastNumber
<1>6. PICK p \in P : next[p] = least
    BY <1>4 DEF Surjection
<1> QED
    BY <1>1, <1>5, <1>6

LEMMA FirstIsLeast ==
    ASSUME NEW P \in SUBSET Products, P # {}
    PROVE  First(P) \in P /\ \A q \in P : First(P) <= q
<1>1. \E p \in P : \A q \in P : p <= q
    BY LeastNumber, InventoryAssumption
<1> QED
    BY <1>1 DEF First

(***************************************************************************)
(* The inductive invariant                                                 *)
(***************************************************************************)

(* A sale holds the event, and its order does not exist yet.               *)
SaleInv(t) ==
    tx[t].op = "sale" =>
        /\ tx[t].order \in Orders /\ lock[Event] = t
        /\ \A p \in Products : item[tx[t].order][p] = "NONE"

(* A cancellation is of an order that exists.                              *)
CancelInv(t) ==
    tx[t].op = "cancel" =>
        /\ tx[t].order \in Orders
        /\ \E p \in Products : item[tx[t].order][p] # "NONE"

(* A correction has a key.                                                 *)
CorrectInv(t) == tx[t].op = "correct" => tx[t].key \in Keys

(* Only a sale or a cancellation holds rows or waits for one, and every      *)
(* product it waits for comes after those it holds.                        *)
LocksInv(t) ==
    /\ tx[t].op \notin {"sale", "cancel"} =>
          tx[t].want = {} /\ \A r \in Resources : lock[r] # t
    /\ \A p \in Products, q \in tx[t].want : lock[p] = t => p < q

RequestsInv == \A t \in Txs : SaleInv(t) /\ CancelInv(t) /\ CorrectInv(t) /\ LocksInv(t)

(* What does not exist has sold nothing, and what was sold from a tracked    *)
(* stock is tracked for good.                                              *)
SoldInv ==
    \A o \in Orders, p \in Products :
        /\ item[o][p] = "NONE" => sale[o][p] = 0
        /\ sale[o][p] > 0 => stock[p].row = "TRACKED"

IInv == TypeOK /\ LedgerExplainsStock /\ ReturnedOnce /\ SoldInv /\ RequestsInv

(***************************************************************************)
(* Types of the helpers                                                    *)
(***************************************************************************)
LEMMA IdleType == Idle \in TxType
BY DEF Idle, TxType, NoUnits, NoStock, StockType

LEMMA IdleFields ==
    /\ Idle.op = "none" /\ Idle.want = {} /\ Idle.order = Event
BY DEF Idle

(* A transaction that ends holds nothing and waits for nothing; what it      *)
(* leaves to be published is well formed.                                  *)
LEMMA CommitsType ==
    ASSUME TypeOK, NEW t \in Txs, NEW changes \in SUBSET (Products \X ShownType),
           Commits(t, changes)
    PROVE  /\ lock' \in [Resources -> Txs \union {NoTx}]
           /\ DOMAIN tx' = Txs /\ \A u \in Txs : tx'[u] \in TxType
           /\ tx'[t].op \in {"none", "publish"} /\ tx'[t].want = {}
           /\ \A u \in Txs \ {t} : tx'[u] = tx[u]
           /\ \A r \in Resources : /\ lock'[r] # t
                                   /\ lock[r] # t => lock'[r] = lock[r]
<1>1. [Idle EXCEPT !.op = "publish", !.changes = changes] \in TxType
    BY IdleType DEF TxType
<1>2. tx'[t] \in TxType /\ tx'[t].op \in {"none", "publish"} /\ tx'[t].want = {}
    BY <1>1, IdleType DEF Commits, TypeOK, Idle
<1>3. DOMAIN tx' = Txs /\ \A u \in Txs \ {t} : tx'[u] = tx[u]
    BY DEF Commits, TypeOK
<1>4. /\ lock' \in [Resources -> Txs \union {NoTx}]
      /\ \A r \in Resources : /\ lock'[r] # t
                              /\ lock[r] # t => lock'[r] = lock[r]
    BY InventoryAssumption DEF Commits, TypeOK
<1> QED
    BY <1>2, <1>3, <1>4 DEF TypeOK

(* A movement keeps the types as long as no stock is overdrawn, and the      *)
(* ledger with it.                                                         *)
LEMMA MovesStock ==
    ASSUME TypeOK, LedgerExplainsStock, NEW P \in SUBSET Products,
           NEW delta \in [Products -> Int],
           \A p \in P : stock[p].qty + delta[p] >= 0,
           Moves(P, delta)
    PROVE  /\ stock' \in [Products -> StockType]
           /\ ledger' \in [Products -> Int] /\ after' \in [Products -> Int]
           /\ LedgerExplainsStock'
           /\ \A p \in Products : stock'[p].row = stock[p].row
           /\ Changed(P, delta) \in SUBSET (Products \X ShownType)
<1>1. ASSUME NEW p \in P
      PROVE  stock[p].qty \in Nat /\ stock[p].version \in Nat /\ stock[p].qty + delta[p] \in Nat
    BY DEF TypeOK, StockType
<1>2. ASSUME NEW p \in P
      PROVE  /\ stock'[p] = [stock[p] EXCEPT !.qty = stock[p].qty + delta[p],
                                             !.version = stock[p].version + 1]
             /\ ledger'[p] = ledger[p] + delta[p]
             /\ after'[p] = stock[p].qty + delta[p]
    BY DEF Moves
<1>3. ASSUME NEW p \in Products \ P
      PROVE  stock'[p] = stock[p] /\ ledger'[p] = ledger[p] /\ after'[p] = after[p]
    BY DEF Moves
<1>4. ASSUME NEW p \in P
      PROVE  /\ stock'[p] \in StockType /\ stock'[p].row = stock[p].row
             /\ stock'[p].qty = stock[p].qty + delta[p]
    <2>1. stock[p] \in StockType
        BY DEF TypeOK
    <2>2. stock[p].qty + delta[p] \in Nat /\ stock[p].version + 1 \in Nat
        BY <1>1
    <2>3. stock'[p] = [stock[p] EXCEPT !.qty = stock[p].qty + delta[p],
                                       !.version = stock[p].version + 1]
        BY <1>2
    <2> QED
        BY <2>1, <2>2, <2>3 DEF StockType
<1>5. stock' \in [Products -> StockType] /\ \A p \in Products : stock'[p].row = stock[p].row
    <2>1. stock' = [p \in Products |-> stock'[p]]
        BY DEF Moves
    <2>2. \A p \in Products : stock'[p] \in StockType /\ stock'[p].row = stock[p].row
        BY <1>3, <1>4 DEF TypeOK
    <2> QED
        BY <2>1, <2>2
<1>6. ledger' \in [Products -> Int] /\ after' \in [Products -> Int]
    <2>1. ASSUME NEW p \in Products PROVE ledger'[p] \in Int /\ after'[p] \in Int
        <3>1. ledger[p] \in Int /\ after[p] \in Int /\ delta[p] \in Int
            BY DEF TypeOK
        <3>2. CASE p \in P
            <4>1. stock[p].qty + delta[p] \in Int
                BY <1>1, <3>2
            <4>2. ledger'[p] = ledger[p] + delta[p] /\ after'[p] = stock[p].qty + delta[p]
                BY <1>2, <3>2
            <4> QED
                BY <3>1, <4>1, <4>2
        <3>3. CASE p \notin P
            BY <1>3, <3>1, <3>3
        <3> QED
            BY <3>2, <3>3
    <2> QED
        BY <2>1 DEF Moves
<1>7. ASSUME NEW p \in Products
      PROVE  stock'[p].qty >= 0 /\ stock'[p].qty = ledger'[p] /\ stock'[p].qty = after'[p]
    <2>1. stock[p].qty >= 0 /\ stock[p].qty = ledger[p] /\ stock[p].qty = after[p]
        BY DEF LedgerExplainsStock
    <2>2. CASE p \in P
        BY <1>1, <1>2, <1>4, <2>1, <2>2
    <2>3. CASE p \notin P
        BY <1>3, <2>1, <2>3
    <2> QED
        BY <2>2, <2>3
<1>8. Changed(P, delta) \in SUBSET (Products \X ShownType)
    <2>1. ASSUME NEW p \in P
          PROVE  [qty |-> stock[p].qty + delta[p], blocked |-> FALSE,
                  version |-> stock[p].version + 1] \in ShownType
        BY <1>1 DEF ShownType
    <2> QED
        BY <2>1 DEF Changed
<1> QED
    BY <1>5, <1>6, <1>7, <1>8 DEF LedgerExplainsStock

(***************************************************************************)
(* What a step of one transaction leaves to the others                     *)
(***************************************************************************)

(* The others keep their locks, and the order in which they lock.          *)
LEMMA OthersLocks ==
    ASSUME TypeOK, RequestsInv, NEW t \in Txs,
           \A u \in Txs \ {t} : tx'[u] = tx[u],
           \A u \in Txs \ {t}, r \in Resources : lock'[r] = u <=> lock[r] = u
    PROVE  \A u \in Txs \ {t} : /\ LocksInv(u)'
                                /\ tx[u].op = "sale" => lock'[Event] = u
<1> SUFFICES ASSUME NEW u \in Txs \ {t}
             PROVE  LocksInv(u)' /\ (tx[u].op = "sale" => lock'[Event] = u)
    OBVIOUS
<1>1. LocksInv(u) /\ SaleInv(u)
    BY DEF RequestsInv
<1>2. Event \in Resources /\ Products \subseteq Resources
    BY DEF Resources
<1>3. tx'[u] = tx[u] /\ \A r \in Resources : lock'[r] = u <=> lock[r] = u
    OBVIOUS
<1>4. LocksInv(u)'
    BY <1>1, <1>2, <1>3 DEF LocksInv
<1> QED
    BY <1>1, <1>2, <1>3, <1>4 DEF SaleInv

(* A request that only locks, reads or gives up.                           *)
LEMMA RequestStep ==
    ASSUME IInv, NEW t \in Txs,
           DOMAIN tx' = Txs, tx'[t] \in TxType,
           \A u \in Txs \ {t} : tx'[u] = tx[u],
           lock' \in [Resources -> Txs \union {NoTx}],
           \A u \in Txs \ {t}, r \in Resources : lock'[r] = u <=> lock[r] = u,
           SaleInv(t)', CancelInv(t)', CorrectInv(t)', LocksInv(t)',
           UNCHANGED <<stockVars, saleVars, booked>>,
           shown' \in [Products -> ShownType]
    PROVE  IInv'
<1> USE DEF IInv
<1>1. TypeOK'
    <2>1. \A u \in Txs : tx'[u] \in TxType
        BY DEF TypeOK
    <2> QED
        BY <2>1 DEF TypeOK, stockVars, saleVars
<1>2. LedgerExplainsStock' /\ ReturnedOnce' /\ SoldInv'
    BY DEF stockVars, saleVars, LedgerExplainsStock, ReturnedOnce, SoldInv
<1>3. ASSUME NEW u \in Txs \ {t}
      PROVE  SaleInv(u)' /\ CancelInv(u)' /\ CorrectInv(u)' /\ LocksInv(u)'
    <2>1. SaleInv(u) /\ CancelInv(u) /\ CorrectInv(u)
        BY DEF RequestsInv
    <2>2. LocksInv(u)' /\ (tx[u].op = "sale" => lock'[Event] = u)
        BY OthersLocks
    <2>3. tx'[u] = tx[u] /\ item' = item
        BY DEF saleVars
    <2> QED
        BY <2>1, <2>2, <2>3 DEF SaleInv, CancelInv, CorrectInv
<1> QED
    BY <1>1, <1>2, <1>3 DEF RequestsInv

(* A transaction that ends, having written what keeps the data right and     *)
(* the orders of the others as they know them.                             *)
LEMMA CommitStep ==
    ASSUME IInv, NEW t \in Txs,
           NEW changes \in SUBSET (Products \X ShownType), Commits(t, changes),
           stock' \in [Products -> StockType],
           ledger' \in [Products -> Int], after' \in [Products -> Int],
           item' \in [Orders -> [Products -> {"NONE", "PENDING", "CANCELLED"}]],
           sale' \in [Orders -> [Products -> Nat]],
           returned' \in [Orders -> [Products -> Nat]],
           booked' \subseteq Keys, UNCHANGED shown,
           LedgerExplainsStock', ReturnedOnce', SoldInv',
           \A u \in Txs \ {t} :
              /\ tx[u].op = "sale" =>
                    \A p \in Products : item'[tx[u].order][p] = "NONE"
              /\ tx[u].op = "cancel" =>
                    \E p \in Products : item'[tx[u].order][p] # "NONE"
    PROVE  IInv'
<1> USE DEF IInv
<1>1. /\ lock' \in [Resources -> Txs \union {NoTx}]
      /\ DOMAIN tx' = Txs /\ \A u \in Txs : tx'[u] \in TxType
      /\ tx'[t].op \in {"none", "publish"} /\ tx'[t].want = {}
      /\ \A u \in Txs \ {t} : tx'[u] = tx[u]
      /\ \A r \in Resources : /\ lock'[r] # t
                              /\ lock[r] # t => lock'[r] = lock[r]
    BY CommitsType
<1>2. TypeOK'
    BY <1>1 DEF TypeOK
<1>3. \A u \in Txs \ {t}, r \in Resources : lock'[r] = u <=> lock[r] = u
    BY InventoryAssumption DEF Commits, TypeOK
<1>4. SaleInv(t)' /\ CancelInv(t)' /\ CorrectInv(t)' /\ LocksInv(t)'
    BY <1>1 DEF SaleInv, CancelInv, CorrectInv, LocksInv
<1>5. ASSUME NEW u \in Txs \ {t}
      PROVE  SaleInv(u)' /\ CancelInv(u)' /\ CorrectInv(u)' /\ LocksInv(u)'
    <2>1. SaleInv(u) /\ CancelInv(u) /\ CorrectInv(u)
        BY DEF RequestsInv
    <2>2. LocksInv(u)' /\ (tx[u].op = "sale" => lock'[Event] = u)
        BY <1>1, <1>3, OthersLocks
    <2>3. tx'[u] = tx[u]
        BY <1>1
    <2> QED
        BY <2>1, <2>2, <2>3 DEF SaleInv, CancelInv, CorrectInv
<1> QED
    BY <1>2, <1>4, <1>5 DEF RequestsInv

(***************************************************************************)
(* Every action keeps the invariant                                        *)
(***************************************************************************)
LEMMA InitIInv == Init => IInv
<1> SUFFICES ASSUME Init PROVE IInv
    OBVIOUS
<1>1. TypeOK
    BY IdleType DEF Init, TypeOK, NoUnits, NoStock, StockType, ShownType
<1>2. LedgerExplainsStock /\ ReturnedOnce /\ SoldInv
    BY DEF Init, LedgerExplainsStock, ReturnedOnce, SoldInv, NoUnits, NoStock
<1>3. RequestsInv
    BY InventoryAssumption DEF Init, RequestsInv, SaleInv, CancelInv, CorrectInv, LocksInv, Idle
<1> QED
    BY <1>1, <1>2, <1>3 DEF IInv

LEMMA SaleStartsStep ==
    ASSUME IInv, NEW t \in Txs, NEW o \in Orders, NEW u \in Baskets, SaleStarts(t, o, u)
    PROVE  IInv'
<1> DEFINE rows == {p \in Products : u[p] > 0 /\ stock[p].row # "NONE"}
           rec  == [Idle EXCEPT !.op = "sale", !.order = o, !.units = u,
                                !.rows = rows, !.want = rows]
<1>1. rec \in TxType /\ rec.op = "sale" /\ rec.order = o /\ rec.want = rows
    <2>1. u \in [Products -> Nat]
        <3>1. Quantities \union {0} \subseteq Nat
            BY InventoryAssumption
        <3>2. u \in [Products -> Quantities \union {0}]
            BY DEF Baskets
        <3> QED
            BY <3>1, <3>2
    <2> QED
        BY <2>1, IdleType DEF TxType, Idle
<1>2. tx' = [tx EXCEPT ![t] = rec] /\ DOMAIN tx = Txs
    BY DEF SaleStarts, IInv, TypeOK
<1> HIDE DEF rec
<1>3. tx'[t] = rec /\ DOMAIN tx' = Txs /\ \A v \in Txs \ {t} : tx'[v] = tx[v]
    BY <1>2
<1>4. lock \in [Resources -> Txs \union {NoTx}] /\ Event \in Resources
      /\ lock[Event] = NoTx /\ lock' = [lock EXCEPT ![Event] = t]
    BY DEF SaleStarts, Free, IInv, TypeOK, Resources
<1>5. SaleInv(t)'
    BY <1>1, <1>3, <1>4 DEF SaleInv, SaleStarts, Exists, saleVars
<1>6. LocksInv(t)'
    <2>1. \A r \in Resources : lock[r] # t
        BY DEF SaleStarts, IInv, RequestsInv, LocksInv
    <2>2. \A p \in Products : lock'[p] # t
        BY <1>4, <2>1, InventoryAssumption DEF Resources
    <2> QED
        BY <1>1, <1>3, <2>2 DEF LocksInv
<1>7. CancelInv(t)' /\ CorrectInv(t)'
    BY <1>1, <1>3 DEF CancelInv, CorrectInv
<1>8. lock' \in [Resources -> Txs \union {NoTx}]
      /\ \A v \in Txs \ {t}, r \in Resources : lock'[r] = v <=> lock[r] = v
    BY <1>4, InventoryAssumption
<1>9. UNCHANGED <<stockVars, saleVars, booked>> /\ shown' \in [Products -> ShownType]
    BY DEF SaleStarts, IInv, TypeOK
<1> QED
    BY <1>1, <1>3, <1>5, <1>6, <1>7, <1>8, <1>9, RequestStep

LEMMA CancelStartsStep ==
    ASSUME IInv, NEW t \in Txs, NEW o \in Orders, NEW P \in SUBSET Products,
           CancelStarts(t, o, P)
    PROVE  IInv'
<1> DEFINE rows == {p \in P : sale[o][p] > 0}
           rec  == [Idle EXCEPT !.op = "cancel", !.order = o, !.rows = P, !.want = rows]
<1>1. rec \in TxType /\ rec.op = "cancel" /\ rec.order = o /\ rec.want = rows
    BY IdleType DEF TxType, Idle
<1>2. tx' = [tx EXCEPT ![t] = rec] /\ DOMAIN tx = Txs
    BY DEF CancelStarts, IInv, TypeOK
<1> HIDE DEF rec
<1>3. tx'[t] = rec /\ DOMAIN tx' = Txs /\ \A v \in Txs \ {t} : tx'[v] = tx[v]
    BY <1>2
<1>4. lock \in [Resources -> Txs \union {NoTx}] /\ o \in Resources
      /\ lock[o] = NoTx /\ lock' = [lock EXCEPT ![o] = t]
    BY DEF CancelStarts, Free, IInv, TypeOK, Resources
<1>5. CancelInv(t)'
    <2>1. \E p \in Products : item[o][p] # "NONE"
        BY DEF CancelStarts
    <2>2. item' = item
        BY DEF CancelStarts, saleVars
    <2> QED
        BY <1>1, <1>3, <2>1, <2>2 DEF CancelInv
<1>6. LocksInv(t)'
    <2>1. \A r \in Resources : lock[r] # t
        BY DEF CancelStarts, IInv, RequestsInv, LocksInv
    <2>2. \A p \in Products : lock'[p] # t
        BY <1>4, <2>1, InventoryAssumption DEF Resources
    <2> QED
        BY <1>1, <1>3, <2>2 DEF LocksInv
<1>7. SaleInv(t)' /\ CorrectInv(t)'
    BY <1>1, <1>3 DEF SaleInv, CorrectInv
<1>8. lock' \in [Resources -> Txs \union {NoTx}]
      /\ \A v \in Txs \ {t}, r \in Resources : lock'[r] = v <=> lock[r] = v
    BY <1>4, InventoryAssumption
<1>9. UNCHANGED <<stockVars, saleVars, booked>> /\ shown' \in [Products -> ShownType]
    BY DEF CancelStarts, IInv, TypeOK
<1> QED
    BY <1>1, <1>3, <1>5, <1>6, <1>7, <1>8, <1>9, RequestStep

LEMMA LocksRowStep ==
    ASSUME IInv, NEW t \in Txs, LocksRow(t)
    PROVE  IInv'
<1> DEFINE p == First(tx[t].want)
           rec == [tx[t] EXCEPT !.want = tx[t].want \ {p}]
<1>1. tx[t] \in TxType /\ tx[t].want \in SUBSET Products /\ tx[t].want # {}
    BY DEF LocksRow, IInv, TypeOK, TxType
<1>2. p \in tx[t].want /\ \A q \in tx[t].want : p <= q
    BY <1>1, FirstIsLeast
<1> HIDE DEF p
<1>3. rec \in TxType /\ rec.op = tx[t].op /\ rec.order = tx[t].order
      /\ rec.want = tx[t].want \ {p}
    BY <1>1 DEF TxType
<1>4. tx' = [tx EXCEPT ![t] = rec] /\ DOMAIN tx = Txs
    BY DEF LocksRow, IInv, TypeOK, p
<1> HIDE DEF rec
<1>5. tx'[t] = rec /\ DOMAIN tx' = Txs /\ \A v \in Txs \ {t} : tx'[v] = tx[v]
    BY <1>4
<1>6. lock \in [Resources -> Txs \union {NoTx}] /\ p \in Resources
      /\ lock[p] = NoTx /\ lock' = [lock EXCEPT ![p] = t]
    BY <1>1, <1>2 DEF LocksRow, Free, IInv, TypeOK, Resources, p
<1>7. tx[t].op \in {"sale", "cancel"} /\ SaleInv(t) /\ CancelInv(t) /\ LocksInv(t)
    BY <1>1 DEF IInv, RequestsInv, LocksInv
<1>8. item' = item /\ UNCHANGED <<stockVars, saleVars, booked>>
      /\ shown' \in [Products -> ShownType]
    BY DEF LocksRow, IInv, TypeOK, saleVars
<1>9. SaleInv(t)' /\ CancelInv(t)' /\ CorrectInv(t)'
    <2>1. lock[Event] = t => lock'[Event] = t
        BY <1>6 DEF Resources
    <2> QED
        BY <1>3, <1>5, <1>7, <1>8, <2>1 DEF SaleInv, CancelInv, CorrectInv
<1>10. LocksInv(t)'
    <2>1. ASSUME NEW q \in Products, NEW r \in tx'[t].want, lock'[q] = t
          PROVE  q < r
        <3>1. r \in tx[t].want /\ r # p
            BY <1>3, <1>5, <2>1
        <3>2. CASE q = p
            <4>1. p \in Nat /\ r \in Nat /\ p <= r
                BY <1>1, <1>2, <3>1, InventoryAssumption
            <4> QED
                BY <3>1, <3>2, <4>1
        <3>3. CASE q # p
            BY <1>6, <1>7, <2>1, <3>1, <3>3 DEF LocksInv, Resources
        <3> QED
            BY <3>2, <3>3
    <2> QED
        BY <1>3, <1>5, <1>7, <2>1 DEF LocksInv
<1>11. lock' \in [Resources -> Txs \union {NoTx}]
       /\ \A v \in Txs \ {t}, r \in Resources : lock'[r] = v <=> lock[r] = v
    BY <1>6, InventoryAssumption
<1> QED
    BY <1>3, <1>5, <1>8, <1>9, <1>10, <1>11, RequestStep

LEMMA CorrectionStartsStep ==
    ASSUME IInv, NEW t \in Txs, NEW p \in Products, NEW q \in Counts, NEW k \in Keys,
           CorrectionStarts(t, p, q, k)
    PROVE  IInv'
<1> DEFINE rec == [Idle EXCEPT !.op = "correct", !.rows = {p}, !.qty = q,
                               !.key = k, !.read = stock[p]]
<1>1. rec \in TxType /\ rec.op = "correct" /\ rec.want = {} /\ rec.key = k
    <2>1. stock[p] \in StockType /\ q \in Nat
        BY InventoryAssumption DEF IInv, TypeOK
    <2> QED
        BY <2>1, IdleType DEF TxType, Idle
<1>2. tx' = [tx EXCEPT ![t] = rec] /\ DOMAIN tx = Txs
    BY DEF CorrectionStarts, IInv, TypeOK
<1> HIDE DEF rec
<1>3. tx'[t] = rec /\ DOMAIN tx' = Txs /\ \A v \in Txs \ {t} : tx'[v] = tx[v]
    BY <1>2
<1>4. lock' = lock /\ lock' \in [Resources -> Txs \union {NoTx}]
      /\ UNCHANGED <<stockVars, saleVars, booked>> /\ shown' \in [Products -> ShownType]
    BY DEF CorrectionStarts, IInv, TypeOK
<1>5. \A r \in Resources : lock[r] # t
    BY DEF CorrectionStarts, IInv, RequestsInv, LocksInv
<1>6. SaleInv(t)' /\ CancelInv(t)' /\ CorrectInv(t)' /\ LocksInv(t)'
    BY <1>1, <1>3, <1>4, <1>5 DEF SaleInv, CancelInv, CorrectInv, LocksInv
<1> QED
    BY <1>1, <1>3, <1>4, <1>6, RequestStep

LEMMA PublishStep ==
    ASSUME IInv, NEW t \in Txs, Publish(t)
    PROVE  IInv'
<1>1. tx'[t] = Idle /\ DOMAIN tx' = Txs /\ \A v \in Txs \ {t} : tx'[v] = tx[v]
    BY DEF Publish, IInv, TypeOK
<1>2. lock' = lock /\ lock' \in [Resources -> Txs \union {NoTx}]
      /\ UNCHANGED <<stockVars, saleVars, booked>>
    BY DEF Publish, IInv, TypeOK
<1>3. shown' \in [Products -> ShownType]
    <2>1. tx[t].changes \in SUBSET (Products \X ShownType)
        BY DEF IInv, TypeOK, TxType
    <2>2. ASSUME NEW p \in Products, NEW c \in tx[t].changes, c[1] = p
          PROVE  (CHOOSE d \in tx[t].changes : d[1] = p)[2] \in ShownType
        BY <2>1, <2>2
    <2>3. \A p \in Products : shown[p] \in ShownType
        BY DEF IInv, TypeOK
    <2> QED
        BY <2>2, <2>3 DEF Publish
<1>4. \A r \in Resources : lock[r] # t
    BY DEF Publish, IInv, RequestsInv, LocksInv
<1>5. SaleInv(t)' /\ CancelInv(t)' /\ CorrectInv(t)' /\ LocksInv(t)'
    BY <1>1, <1>2, <1>4, IdleFields DEF SaleInv, CancelInv, CorrectInv, LocksInv
<1> QED
    BY <1>1, <1>2, <1>3, <1>5, IdleType, RequestStep

(* A transaction that ends with nothing written.                           *)
LEMMA GivesUpStep ==
    ASSUME IInv, NEW t \in Txs, Commits(t, {}),
           UNCHANGED <<stockVars, saleVars, booked, shown>>
    PROVE  IInv'
<1>1. UNCHANGED <<stock, ledger, after, item, sale, returned, booked, shown>>
    BY DEF stockVars, saleVars
<1>2. LedgerExplainsStock' /\ ReturnedOnce' /\ SoldInv'
    BY <1>1 DEF IInv, LedgerExplainsStock, ReturnedOnce, SoldInv
<1>3. \A u \in Txs : SaleInv(u) /\ CancelInv(u)
    BY DEF IInv, RequestsInv
<1>4. {} \in SUBSET (Products \X ShownType)
    OBVIOUS
<1>5. TypeOK
    BY DEF IInv
<1>6. \A u \in Txs \ {t} :
         /\ tx[u].op = "sale" => \A p \in Products : item'[tx[u].order][p] = "NONE"
         /\ tx[u].op = "cancel" => \E p \in Products : item'[tx[u].order][p] # "NONE"
    BY <1>1, <1>3 DEF SaleInv, CancelInv
<1>7. /\ stock' \in [Products -> StockType]
      /\ ledger' \in [Products -> Int] /\ after' \in [Products -> Int]
      /\ item' \in [Orders -> [Products -> {"NONE", "PENDING", "CANCELLED"}]]
      /\ sale' \in [Orders -> [Products -> Nat]]
      /\ returned' \in [Orders -> [Products -> Nat]]
      /\ booked' \subseteq Keys
    BY <1>1, <1>5 DEF TypeOK
<1> QED
    BY <1>1, <1>2, <1>4, <1>6, <1>7, CommitStep

LEMMA SellsStep ==
    ASSUME IInv, NEW t \in Txs, Sells(t)
    PROVE  IInv'
<1> DEFINE o == tx[t].order
           P == {p \in tx[t].rows : Tracked(p)}
           units == tx[t].units
           delta == [p \in Products |-> -units[p]]
<1>1. /\ tx[t] \in TxType /\ tx[t].op = "sale"
      /\ o \in Orders /\ lock[Event] = t
      /\ \A p \in Products : item[o][p] = "NONE"
    BY DEF Sells, IInv, TypeOK, RequestsInv, SaleInv
<1>2. P \in SUBSET Products /\ units \in [Products -> Nat]
      /\ delta \in [Products -> Int]
    BY <1>1 DEF TxType
<1>3. \A p \in P : stock[p].qty + delta[p] >= 0
    <2>1. ASSUME NEW p \in P PROVE stock[p].qty + delta[p] >= 0
        <3>1. stock[p].qty \in Nat /\ units[p] \in Nat /\ delta[p] = -units[p]
            BY <1>2 DEF IInv, TypeOK, StockType
        <3>2. stock[p].qty >= units[p]
            BY DEF Sells, Sellable
        <3> QED
            BY <3>1, <3>2
    <2> QED
        BY <2>1
<1>4. Moves(P, delta) /\ Commits(t, Changed(P, delta)) /\ UNCHANGED <<returned, booked, shown>>
    BY DEF Sells
<1>5. /\ item' = [item EXCEPT ![o] = [p \in Products |->
                     IF units[p] > 0 THEN "PENDING" ELSE "NONE"]]
      /\ sale' = [sale EXCEPT ![o] = [p \in Products |->
                     IF p \in P THEN units[p] ELSE 0]]
    BY DEF Sells
<1> HIDE DEF delta
<1>6. /\ stock' \in [Products -> StockType]
      /\ ledger' \in [Products -> Int] /\ after' \in [Products -> Int]
      /\ LedgerExplainsStock'
      /\ \A p \in Products : stock'[p].row = stock[p].row
      /\ Changed(P, delta) \in SUBSET (Products \X ShownType)
    BY <1>2, <1>3, <1>4, MovesStock DEF IInv
<1>7. /\ item' \in [Orders -> [Products -> {"NONE", "PENDING", "CANCELLED"}]]
      /\ sale' \in [Orders -> [Products -> Nat]]
      /\ returned' \in [Orders -> [Products -> Nat]]
      /\ booked' \subseteq Keys
    BY <1>1, <1>2, <1>4, <1>5 DEF IInv, TypeOK
<1>8. ASSUME NEW p \in Products
      PROVE  /\ item'[o][p] = IF units[p] > 0 THEN "PENDING" ELSE "NONE"
             /\ sale'[o][p] = IF p \in P THEN units[p] ELSE 0
             /\ returned'[o][p] = 0
    <2>1. item' [o] = [q \in Products |-> IF units[q] > 0 THEN "PENDING" ELSE "NONE"]
          /\ sale'[o] = [q \in Products |-> IF q \in P THEN units[q] ELSE 0]
        BY <1>1, <1>5 DEF IInv, TypeOK
    <2>2. returned[o][p] = 0
        BY <1>1 DEF IInv, ReturnedOnce
    <2> QED
        BY <1>4, <2>1, <2>2
<1>9. ASSUME NEW x \in Orders \ {o}
      PROVE  item'[x] = item[x] /\ sale'[x] = sale[x] /\ returned'[x] = returned[x]
    BY <1>4, <1>5 DEF IInv, TypeOK
<1>10. ReturnedOnce'
    <2>1. ASSUME NEW x \in Orders, NEW p \in Products
          PROVE  returned'[x][p] = IF item'[x][p] = "CANCELLED" THEN sale'[x][p] ELSE 0
        <3>1. CASE x = o
            BY <1>8, <3>1
        <3>2. CASE x # o
            BY <1>9, <3>2 DEF IInv, ReturnedOnce
        <3> QED
            BY <3>1, <3>2
    <2> QED
        BY <2>1 DEF ReturnedOnce
<1>11. SoldInv'
    <2>1. ASSUME NEW x \in Orders, NEW p \in Products
          PROVE  /\ item'[x][p] = "NONE" => sale'[x][p] = 0
                 /\ sale'[x][p] > 0 => stock'[p].row = "TRACKED"
        <3>1. CASE x = o
            <4>1. units[p] \in Nat
                BY <1>2
            <4>2. p \in P => stock'[p].row = "TRACKED"
                BY <1>6 DEF Tracked
            <4> QED
                BY <1>8, <3>1, <4>1, <4>2
        <3>2. CASE x # o
            BY <1>6, <1>9, <3>2 DEF IInv, SoldInv
        <3> QED
            BY <3>1, <3>2
    <2> QED
        BY <2>1 DEF SoldInv
<1>12. ASSUME NEW u \in Txs \ {t}
       PROVE  /\ tx[u].op = "sale" =>
                    \A p \in Products : item'[tx[u].order][p] = "NONE"
              /\ tx[u].op = "cancel" =>
                    \E p \in Products : item'[tx[u].order][p] # "NONE"
    <2>1. SaleInv(u) /\ CancelInv(u)
        BY DEF IInv, RequestsInv
    <2>2. tx[u].op # "sale"
        BY <1>1, <2>1 DEF SaleInv
    <2>3. ASSUME tx[u].op = "cancel"
          PROVE  \E p \in Products : item'[tx[u].order][p] # "NONE"
        <3>1. tx[u].order \in Orders \ {o}
            BY <1>1, <2>1, <2>3 DEF CancelInv
        <3> QED
            BY <1>9, <2>1, <2>3, <3>1 DEF CancelInv
    <2> QED
        BY <2>2, <2>3
<1> QED
    BY <1>4, <1>6, <1>7, <1>10, <1>11, <1>12, CommitStep

LEMMA ReversesStep ==
    ASSUME IInv, NEW t \in Txs, Reverses(t)
    PROVE  IInv'
<1> DEFINE o == tx[t].order
           rows == tx[t].rows
           P == {p \in Unreversed(t) : Tracked(p)}
           delta == sale[o]
<1>1. /\ tx[t] \in TxType /\ tx[t].op = "cancel"
      /\ o \in Orders /\ \E p \in Products : item[o][p] # "NONE"
    BY DEF Reverses, IInv, TypeOK, RequestsInv, CancelInv
<1>2. P \in SUBSET Products /\ delta \in [Products -> Nat] /\ delta \in [Products -> Int]
    BY <1>1 DEF TxType, Unreversed, IInv, TypeOK
<1>3. \A p \in P : stock[p].qty + delta[p] >= 0
    <2>1. \A p \in P : stock[p].qty \in Nat /\ delta[p] \in Nat
        BY <1>2 DEF IInv, TypeOK, StockType
    <2> QED
        BY <2>1
<1>4. Moves(P, delta) /\ Commits(t, Changed(P, delta)) /\ UNCHANGED <<sale, booked, shown>>
    BY DEF Reverses
<1>5. /\ item' = [item EXCEPT ![o] = [p \in Products |->
                     IF p \in rows THEN "CANCELLED" ELSE item[o][p]]]
      /\ returned' = [returned EXCEPT ![o] = [p \in Products |->
                     IF p \in P THEN returned[o][p] + delta[p] ELSE returned[o][p]]]
    BY DEF Reverses
<1>6. /\ stock' \in [Products -> StockType]
      /\ ledger' \in [Products -> Int] /\ after' \in [Products -> Int]
      /\ LedgerExplainsStock'
      /\ \A p \in Products : stock'[p].row = stock[p].row
      /\ Changed(P, delta) \in SUBSET (Products \X ShownType)
    BY <1>2, <1>3, <1>4, MovesStock DEF IInv
<1>7. \A p \in Products :
         /\ item'[o][p] = IF p \in rows THEN "CANCELLED" ELSE item[o][p]
         /\ returned'[o][p] = IF p \in P THEN returned[o][p] + delta[p] ELSE returned[o][p]
    BY <1>1, <1>5 DEF IInv, TypeOK
<1>8. \A p \in Products :
         /\ item[o][p] \in {"NONE", "PENDING", "CANCELLED"}
         /\ returned[o][p] \in Nat /\ sale[o][p] \in Nat
    BY <1>1 DEF IInv, TypeOK
<1>9. ASSUME NEW x \in Orders \ {o}
      PROVE  item'[x] = item[x] /\ returned'[x] = returned[x]
    BY <1>5 DEF IInv, TypeOK
<1>10. /\ item' \in [Orders -> [Products -> {"NONE", "PENDING", "CANCELLED"}]]
       /\ sale' \in [Orders -> [Products -> Nat]]
       /\ returned' \in [Orders -> [Products -> Nat]]
       /\ booked' \subseteq Keys
    <2>1. [p \in Products |-> IF p \in P THEN returned[o][p] + delta[p] ELSE returned[o][p]]
            \in [Products -> Nat]
        BY <1>2, <1>8
    <2>2. [p \in Products |-> IF p \in rows THEN "CANCELLED" ELSE item[o][p]]
            \in [Products -> {"NONE", "PENDING", "CANCELLED"}]
        BY <1>8
    <2> QED
        BY <1>1, <1>4, <1>5, <2>1, <2>2 DEF IInv, TypeOK
<1>11. ReturnedOnce'
    <2>1. ASSUME NEW x \in Orders, NEW p \in Products
          PROVE  returned'[x][p] = IF item'[x][p] = "CANCELLED" THEN sale'[x][p] ELSE 0
        <3>1. returned[x][p] = IF item[x][p] = "CANCELLED" THEN sale[x][p] ELSE 0
            BY DEF IInv, ReturnedOnce
        <3>2. CASE x = o
            <4>1. p \in P <=> p \in rows /\ sale[o][p] > 0 /\ returned[o][p] = 0
                BY <1>1, <3>2 DEF Unreversed, Tracked, IInv, SoldInv
            <4> QED
                BY <1>4, <1>7, <1>8, <3>1, <3>2, <4>1
        <3>3. CASE x # o
            BY <1>4, <1>9, <3>1, <3>3
        <3> QED
            BY <3>2, <3>3
    <2> QED
        BY <2>1 DEF ReturnedOnce
<1>12. SoldInv'
    <2>1. ASSUME NEW x \in Orders, NEW p \in Products
          PROVE  /\ item'[x][p] = "NONE" => sale'[x][p] = 0
                 /\ sale'[x][p] > 0 => stock'[p].row = "TRACKED"
        <3>1. item'[x][p] = "NONE" => item[x][p] = "NONE"
            BY <1>7, <1>9
        <3> QED
            BY <1>4, <1>6, <3>1 DEF IInv, SoldInv
    <2> QED
        BY <2>1 DEF SoldInv
<1>13. ASSUME NEW u \in Txs \ {t}
       PROVE  /\ tx[u].op = "sale" =>
                    \A p \in Products : item'[tx[u].order][p] = "NONE"
              /\ tx[u].op = "cancel" =>
                    \E p \in Products : item'[tx[u].order][p] # "NONE"
    <2>1. SaleInv(u) /\ CancelInv(u)
        BY DEF IInv, RequestsInv
    <2>2. tx[u].op = "sale" => tx[u].order \in Orders \ {o}
        BY <1>1, <2>1 DEF SaleInv
    <2>3. \A p \in Products : item[o][p] # "NONE" => item'[o][p] # "NONE"
        BY <1>7
    <2> QED
        BY <1>9, <2>1, <2>2, <2>3 DEF SaleInv, CancelInv
<1> QED
    BY <1>4, <1>6, <1>10, <1>11, <1>12, <1>13, CommitStep

(* A row written outside of sales: the orders stay as they are.             *)
LEMMA RowWritten ==
    ASSUME IInv, NEW t \in Txs, NEW p \in Products, NEW row \in StockType,
           NEW changes \in SUBSET (Products \X ShownType), Commits(t, changes),
           stock' = [stock EXCEPT ![p] = row],
           stock[p].row = "TRACKED" => row.row = "TRACKED",
           ledger' \in [Products -> Int], after' \in [Products -> Int],
           \A q \in Products \ {p} : ledger'[q] = ledger[q] /\ after'[q] = after[q],
           ledger'[p] = row.qty, after'[p] = row.qty,
           booked' \subseteq Keys, UNCHANGED <<saleVars, shown>>
    PROVE  IInv'
<1>1. /\ stock' \in [Products -> StockType] /\ stock'[p] = row
      /\ \A q \in Products \ {p} : stock'[q] = stock[q]
    BY DEF IInv, TypeOK
<1>2. LedgerExplainsStock'
    <2>1. row.qty >= 0
        BY DEF StockType
    <2> QED
        BY <1>1, <2>1 DEF IInv, LedgerExplainsStock
<1>3. item' = item /\ sale' = sale /\ returned' = returned
    BY DEF saleVars
<1>4. ReturnedOnce' /\ SoldInv'
    BY <1>1, <1>3 DEF IInv, ReturnedOnce, SoldInv
<1>5. \A u \in Txs : SaleInv(u) /\ CancelInv(u)
    BY DEF IInv, RequestsInv
<1>6. \A u \in Txs \ {t} :
         /\ tx[u].op = "sale" => \A q \in Products : item'[tx[u].order][q] = "NONE"
         /\ tx[u].op = "cancel" => \E q \in Products : item'[tx[u].order][q] # "NONE"
    BY <1>3, <1>5 DEF SaleInv, CancelInv
<1>7. /\ item' \in [Orders -> [Products -> {"NONE", "PENDING", "CANCELLED"}]]
      /\ sale' \in [Orders -> [Products -> Nat]]
      /\ returned' \in [Orders -> [Products -> Nat]]
    BY <1>3 DEF IInv, TypeOK
<1> QED
    BY <1>1, <1>2, <1>4, <1>6, <1>7, CommitStep

LEMMA InitializeStep ==
    ASSUME IInv, NEW t \in Txs, NEW p \in Products, NEW q \in Counts,
           NEW row \in {"TRACKED", "UNTRACKED"}, NEW b \in BOOLEAN,
           Initialize(t, p, q, row, b)
    PROVE  IInv'
<1> DEFINE new == [row |-> row, qty |-> q, blocked |-> b, version |-> 1]
           changes == {<<p, [qty |-> q, blocked |-> b, version |-> 1]>>}
<1>1. q \in Nat
    BY InventoryAssumption
<1>2. new \in StockType /\ new.qty = q /\ changes \in SUBSET (Products \X ShownType)
    BY <1>1 DEF StockType, ShownType
<1>3. stock' = [stock EXCEPT ![p] = new] /\ Commits(t, changes)
      /\ UNCHANGED <<saleVars, shown>> /\ booked' \subseteq Keys
    BY DEF Initialize, IInv, TypeOK
<1>4. /\ ledger' \in [Products -> Int] /\ after' \in [Products -> Int]
      /\ \A r \in Products \ {p} : ledger'[r] = ledger[r] /\ after'[r] = after[r]
      /\ ledger'[p] = q /\ after'[p] = q
    BY <1>1 DEF Initialize, IInv, TypeOK
<1>5. stock[p].row # "TRACKED"
    BY DEF Initialize
<1> QED
    BY <1>2, <1>3, <1>4, <1>5, RowWritten

LEMMA SettingsStep ==
    ASSUME IInv, NEW t \in Txs, NEW p \in Products, Settings(t, p)
    PROVE  IInv'
<1> DEFINE blocked == ~stock[p].blocked
           new == [stock[p] EXCEPT !.blocked = blocked, !.version = stock[p].version + 1]
           changes == {<<p, [qty |-> stock[p].qty, blocked |-> blocked,
                             version |-> stock[p].version + 1]>>}
<1>1. stock[p] \in StockType /\ stock[p].version + 1 \in Nat /\ stock[p].qty \in Nat
      /\ blocked \in BOOLEAN
    BY DEF IInv, TypeOK, StockType
<1>2. new \in StockType /\ new.row = stock[p].row /\ new.qty = stock[p].qty
    BY <1>1 DEF StockType
<1>5. changes \in SUBSET (Products \X ShownType)
    <2>1. [qty |-> stock[p].qty, blocked |-> blocked, version |-> stock[p].version + 1]
            \in ShownType
        BY <1>1 DEF ShownType
    <2> QED
        BY <2>1
<1>3. stock' = [stock EXCEPT ![p] = new] /\ Commits(t, changes)
      /\ UNCHANGED <<ledger, after, booked>> /\ UNCHANGED <<saleVars, shown>>
    BY DEF Settings
<1>4. /\ ledger' \in [Products -> Int] /\ after' \in [Products -> Int] /\ booked' \subseteq Keys
      /\ ledger'[p] = stock[p].qty /\ after'[p] = stock[p].qty
    BY <1>3 DEF IInv, TypeOK, LedgerExplainsStock
<1> QED
    BY <1>2, <1>3, <1>4, <1>5, RowWritten

LEMMA CorrectStep ==
    ASSUME IInv, NEW t \in Txs, Correct(t)
    PROVE  IInv'
<1> DEFINE qty == tx[t].qty
<1>1. tx[t] \in TxType /\ qty \in Nat 
      /\ (tx[t].op = "correct" => tx[t].key \in Keys)
    BY DEF IInv, TypeOK, TxType, RequestsInv, CorrectInv
<1>2. PICK p \in tx[t].rows :
         /\ tx[t].op = "correct"
         /\ \/ /\ RowUnchanged(t, p) /\ tx[t].key \notin booked
               /\ stock' = [stock EXCEPT ![p] =
                     [stock[p] EXCEPT !.qty = qty, !.version = stock[p].version + 1]]
               /\ ledger' = [ledger EXCEPT ![p] = @ + (qty - tx[t].read.qty)]
               /\ after' = [after EXCEPT ![p] = qty]
               /\ booked' = booked \union {tx[t].key}
               /\ Commits(t, {<<p, [qty |-> qty, blocked |-> stock[p].blocked,
                                    version |-> stock[p].version + 1]>>})
            \/ Commits(t, {}) /\ UNCHANGED <<stockVars, booked>>
         /\ UNCHANGED <<saleVars, shown>>
    BY DEF Correct
<1>3. p \in Products
    BY <1>1 DEF TxType
<1>4. CASE Commits(t, {}) /\ UNCHANGED <<stockVars, booked>>
    BY <1>2, <1>4, GivesUpStep
<1>5. CASE /\ RowUnchanged(t, p) /\ tx[t].key \notin booked
           /\ stock' = [stock EXCEPT ![p] =
                 [stock[p] EXCEPT !.qty = qty, !.version = stock[p].version + 1]]
           /\ ledger' = [ledger EXCEPT ![p] = @ + (qty - tx[t].read.qty)]
           /\ after' = [after EXCEPT ![p] = qty]
           /\ booked' = booked \union {tx[t].key}
           /\ Commits(t, {<<p, [qty |-> qty, blocked |-> stock[p].blocked,
                                version |-> stock[p].version + 1]>>})
    <2> DEFINE new == [stock[p] EXCEPT !.qty = qty, !.version = stock[p].version + 1]
               changes == {<<p, [qty |-> qty, blocked |-> stock[p].blocked,
                                 version |-> stock[p].version + 1]>>}
    <2>1. stock[p] \in StockType /\ stock[p].version + 1 \in Nat
          /\ stock[p].blocked \in BOOLEAN /\ stock[p].qty \in Nat
        BY <1>3 DEF IInv, TypeOK, StockType
    <2>2. new \in StockType /\ new.row = stock[p].row /\ new.qty = qty
        BY <1>1, <2>1 DEF StockType
    <2> DEFINE row == [qty |-> qty, blocked |-> stock[p].blocked,
                             version |-> stock[p].version + 1]
    <2>6. changes \in SUBSET (Products \X ShownType)
        <3>1. row \in ShownType
            BY <1>1, <2>1 DEF ShownType
        <3> QED
            BY <1>3, <3>1
    <2>3. ledger[p] + (qty - tx[t].read.qty) = qty
        BY <1>1, <1>3, <1>5, <2>1 DEF RowUnchanged, IInv, LedgerExplainsStock
    <2>4. /\ ledger' \in [Products -> Int] /\ after' \in [Products -> Int]
          /\ \A q \in Products \ {p} : ledger'[q] = ledger[q] /\ after'[q] = after[q]
          /\ ledger'[p] = qty /\ after'[p] = qty
        BY <1>1, <1>3, <1>5, <2>3 DEF IInv, TypeOK
    <2>5. booked' \subseteq Keys
        BY <1>1, <1>2, <1>5 DEF IInv, TypeOK
    <2> QED
        BY <1>2, <1>3, <1>5, <2>2, <2>4, <2>5, <2>6, RowWritten
<1> QED
    BY <1>2, <1>4, <1>5

LEMMA LoadContextStep ==
    ASSUME IInv, NEW p \in Products, LoadContext(p)
    PROVE  IInv'
<1>1. shown' \in [Products -> ShownType]
    BY DEF LoadContext, IInv, TypeOK, StockType, ShownType
<1>2. UNCHANGED <<stock, ledger, after, item, sale, returned, booked, lock, tx>>
    BY DEF LoadContext, stockVars, saleVars
<1> QED
    BY <1>1, <1>2 DEF IInv, TypeOK, LedgerExplainsStock, ReturnedOnce, SoldInv,
                      RequestsInv, SaleInv, CancelInv, CorrectInv, LocksInv

LEMMA StepIInv == IInv /\ [Next]_vars => IInv'
<1> SUFFICES ASSUME IInv, [Next]_vars PROVE IInv'
    OBVIOUS
<1>1. ASSUME NEW t \in Txs, Request(t) PROVE IInv'
    <2>1. ASSUME NEW o \in Orders, NEW u \in Baskets, SaleStarts(t, o, u) PROVE IInv'
        BY <2>1, SaleStartsStep
    <2>2. ASSUME NEW o \in Orders, CancelOrderStarts(t, o) PROVE IInv'
        <3>1. {p \in Products : item[o][p] # "NONE"} \in SUBSET Products
            OBVIOUS
        <3> QED
            BY <2>2, <3>1, CancelStartsStep DEF CancelOrderStarts
    <2>3. ASSUME NEW o \in Orders, NEW p \in Products, CancelItemStarts(t, o, p) PROVE IInv'
        BY <2>3, CancelStartsStep DEF CancelItemStarts
    <2>4. ASSUME NEW p \in Products, NEW q \in Counts, NEW row \in {"TRACKED", "UNTRACKED"},
                 NEW b \in BOOLEAN, Initialize(t, p, q, row, b)
          PROVE  IInv'
        BY <2>4, InitializeStep
    <2>5. ASSUME NEW p \in Products, NEW q \in Counts, NEW k \in Keys,
                 CorrectionStarts(t, p, q, k)
          PROVE  IInv'
        BY <2>5, CorrectionStartsStep
    <2>6. ASSUME NEW p \in Products, Settings(t, p) PROVE IInv'
        BY <2>6, SettingsStep
    <2> QED
        BY <1>1, <2>1, <2>2, <2>3, <2>4, <2>5, <2>6 DEF Request
<1>2. ASSUME NEW t \in Txs, LocksRow(t) PROVE IInv'
    BY <1>2, LocksRowStep
<1>3. ASSUME NEW t \in Txs, Sells(t) PROVE IInv'
    BY <1>3, SellsStep
<1>4. ASSUME NEW t \in Txs, SaleRejected(t) PROVE IInv'
    BY <1>4, GivesUpStep DEF SaleRejected
<1>5. ASSUME NEW t \in Txs, Reverses(t) PROVE IInv'
    BY <1>5, ReversesStep
<1>6. ASSUME NEW t \in Txs, Correct(t) PROVE IInv'
    BY <1>6, CorrectStep
<1>7. ASSUME NEW t \in Txs, Publish(t) PROVE IInv'
    BY <1>7, PublishStep
<1>8. ASSUME NEW p \in Products, LoadContext(p) PROVE IInv'
    BY <1>8, LoadContextStep
<1>9. CASE UNCHANGED vars
    BY <1>9 DEF vars, stockVars, saleVars, IInv, TypeOK, LedgerExplainsStock, ReturnedOnce,
                SoldInv, RequestsInv, SaleInv, CancelInv, CorrectInv, LocksInv
<1> QED
    BY <1>1, <1>2, <1>3, <1>4, <1>5, <1>6, <1>7, <1>8, <1>9 DEF Next

(***************************************************************************)
(* Theorems                                                                *)
(***************************************************************************)
LEMMA Invariance == Spec => []IInv
BY InitIInv, StepIInv, PTL DEF Spec

(* Type correctness: no stock, no quantity and no version is ever negative. *)
THEOREM TypeCorrect == Spec => []TypeOK
<1>1. IInv => TypeOK
    BY DEF IInv
<1> QED
    BY <1>1, Invariance, PTL

(* The movements of every product add up to its stock, the last one ends at  *)
(* it and it is never negative, whatever sales, cancellations and            *)
(* corrections interleave (inventory.service.ts: reserveSale, recordSales,   *)
(* reverseSales, mutate).                                                  *)
THEOREM LedgerCorrect == Spec => []LedgerExplainsStock
<1>1. IInv => LedgerExplainsStock
    BY DEF IInv
<1> QED
    BY <1>1, Invariance, PTL

(* Every cancelled position has given back exactly what its sale took, no    *)
(* other position anything (reverseSales, whoever cancels at the same time).*)
THEOREM NothingReturnedTwice == Spec => []ReturnedOnce
<1>1. IInv => ReturnedOnce
    BY DEF IInv
<1> QED
    BY <1>1, Invariance, PTL

(* No set of requests waits for one another: of those that hold a row, the   *)
(* one with the greatest waits for nobody (ORDER BY "productId" FOR UPDATE).*)
THEOREM NoDeadlock == Spec => []NoWaitCycle
<1>1. IInv => NoWaitCycle
    <2> SUFFICES ASSUME IInv, NEW T \in (SUBSET Txs) \ {{}}
                 PROVE  \E t \in T : \A u \in T : ~WaitsFor(t, u)
        BY DEF NoWaitCycle
    <2> SUFFICES ASSUME \A t \in T : \E u \in T : WaitsFor(t, u)
                 PROVE  FALSE
        OBVIOUS
    <2> DEFINE Held == {p \in Products : lock[p] \in T}
    <2>1. \A t \in T : tx[t].want \in SUBSET Products /\ LocksInv(t)
        BY DEF IInv, TypeOK, TxType, RequestsInv
    <2>2. ASSUME NEW t \in T PROVE \E p \in Held : p \in tx[t].want
        BY <2>1 DEF WaitsFor
    <2>3. Held \in SUBSET Nat /\ Held # {}
        <3>1. T # {}
            OBVIOUS
        <3>2. Held # {}
            BY <2>2, <3>1
        <3> QED
            BY <3>2, InventoryAssumption
    <2>4. IsFiniteSet(Held)
        BY InventoryAssumption, FS_Subset
    <2>5. PICK p \in Held : \A q \in Held : q <= p
        BY <2>3, <2>4, GreatestNumber
    <2>6. PICK q \in Held : q \in tx[lock[p]].want
        BY <2>2
    <2>7. p < q
        BY <2>1, <2>6 DEF LocksInv
    <2>8. q <= p /\ p \in Nat /\ q \in Nat
        BY <2>3, <2>5
    <2> QED
        BY <2>7, <2>8
<1> QED
    BY <1>1, Invariance, PTL
=============================================================================
