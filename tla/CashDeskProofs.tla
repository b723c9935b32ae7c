--------------------------- MODULE CashDeskProofs ---------------------------
(***************************************************************************)
(* Proofs about CashDesk, for any number of orders, positions, vouchers,   *)
(* sessions and transactions at a time, and about EventMode, for any       *)
(* number of cashiers, administrators and clean-ups.                       *)
(***************************************************************************)
EXTENDS CashDesk, EventMode, FiniteSetTheorems, TLAPS

(***************************************************************************)
(* Sums over a finite set                                                  *)
(*                                                                         *)
(* The community module sums by a recursive function over the subsets of    *)
(* the set.  That there is such a function, and what it yields, follows     *)
(* from the well-foundedness of the strict subsets of a finite set: of the  *)
(* subsets for which a statement fails there would be a smallest one.       *)
(***************************************************************************)

(* The element a sum takes next.                                           *)
Pick(S) == CHOOSE x \in S : TRUE

(* The table of the sums of w over the subsets of S.                       *)
IsTable(w, S, f) ==
    f = [s \in SUBSET S |-> IF s = {} THEN 0
                            ELSE w[Pick(s)] + f[s \ {Pick(s)}]]

SumOver(w, S) == (CHOOSE f : IsTable(w, S, f))[S]

LEMMA PickIn == \A S : S # {} => Pick(S) \in S
BY DEF Pick

(* A set of finite sets has a smallest member.                             *)
LEMMA SmallestMember ==
    ASSUME NEW S, IsFiniteSet(S), NEW B \in SUBSET SUBSET S, B # {}
    PROVE  \E m \in B : \A s \in B : s \subseteq m => s = m
<1>1. IsWellFoundedOn(StrictSubsetOrdering(S), SUBSET S)
  BY FS_StrictSubsetOrderingWellFounded, FS_FiniteSubsetsOfFinite
<1>2. PICK m \in B : \A s \in B : ~(<<s, m>> \in StrictSubsetOrdering(S))
  BY <1>1, WFMin
<1>. QED  BY <1>2 DEF StrictSubsetOrdering

(* Two tables agree where both are defined.                                *)
LEMMA TablesAgree ==
    ASSUME NEW S, IsFiniteSet(S), NEW w, NEW T \in SUBSET S, NEW U \in SUBSET S,
           NEW f, NEW g, IsTable(w, T, f), IsTable(w, U, g)
    PROVE  \A s \in SUBSET (T \cap U) : f[s] = g[s]
<1>. DEFINE B == {s \in SUBSET (T \cap U) : f[s] # g[s]}
<1>. SUFFICES ASSUME B # {} PROVE FALSE
  OBVIOUS
<1>1. PICK m \in B : \A s \in B : s \subseteq m => s = m
  <2>. B \in SUBSET SUBSET S  OBVIOUS
  <2>. HIDE DEF B
  <2>. QED  BY SmallestMember
<1>2. m # {}
  BY <1>1 DEF IsTable
<1>3. Pick(m) \in m
  BY <1>2, PickIn
<1>4. m \ {Pick(m)} \in SUBSET (T \cap U) /\ m \ {Pick(m)} \notin B
  BY <1>1, <1>3
<1>5. f[m \ {Pick(m)}] = g[m \ {Pick(m)}]
  BY <1>4
<1>6. f[m] = w[Pick(m)] + f[m \ {Pick(m)}]
  BY <1>1, <1>2 DEF IsTable
<1>7. g[m] = w[Pick(m)] + g[m \ {Pick(m)}]
  BY <1>1, <1>2 DEF IsTable
<1>. QED  BY <1>1, <1>5, <1>6, <1>7

(* Every finite set has a table of its sums.                               *)
LEMMA TableExists ==
    ASSUME NEW S, IsFiniteSet(S), NEW w
    PROVE  \A T \in SUBSET S : \E f : IsTable(w, T, f)
<1>. DEFINE B == {T \in SUBSET S : ~ \E f : IsTable(w, T, f)}
            val(T) == (CHOOSE f : IsTable(w, T, f))[T]
<1>. SUFFICES ASSUME B # {} PROVE FALSE
  OBVIOUS
<1>1. PICK m \in B : \A s \in B : s \subseteq m => s = m
  <2>. B \in SUBSET SUBSET S  OBVIOUS
  <2>. HIDE DEF B
  <2>. QED  BY SmallestMember
<1>2. \A s \in SUBSET m : s # m => IsTable(w, s, CHOOSE f : IsTable(w, s, f))
  <2>. SUFFICES ASSUME NEW s \in SUBSET m, s # m
                PROVE  \E f : IsTable(w, s, f)
    OBVIOUS
  <2>. QED  BY <1>1
<1>3. \A s \in SUBSET m : s # m =>
         val(s) = IF s = {} THEN 0 ELSE w[Pick(s)] + val(s \ {Pick(s)})
  <2>. SUFFICES ASSUME NEW s \in SUBSET m, s # m
                PROVE  val(s) = IF s = {} THEN 0 ELSE w[Pick(s)] + val(s \ {Pick(s)})
    OBVIOUS
  <2>. DEFINE f == CHOOSE h : IsTable(w, s, h)
              r == s \ {Pick(s)}
              g == CHOOSE h : IsTable(w, r, h)
  <2>1. IsTable(w, s, f)
    BY <1>2
  <2>2. CASE s = {}
    BY <2>1, <2>2 DEF IsTable
  <2>3. CASE s # {}
    <3>1. Pick(s) \in s
      BY <2>3, PickIn
    <3>2. r # m /\ r \in SUBSET m
      BY <3>1
    <3>3. IsTable(w, r, g)
      BY <1>2, <3>2
    <3>4. f[r] = g[r]
      <4>1. s \in SUBSET S /\ r \in SUBSET S /\ r \in SUBSET (s \cap r)
        BY <1>1
      <4>. HIDE DEF f, g, r
      <4>. QED  BY <2>1, <3>3, <4>1, TablesAgree
    <3>5. f[s] = w[Pick(s)] + f[r]
      BY <2>1, <2>3 DEF IsTable
    <3>. QED  BY <3>4, <3>5, <2>3
  <2>. QED  BY <2>2, <2>3
<1>. DEFINE h == [s \in SUBSET m |->
                    IF s = m THEN IF m = {} THEN 0 ELSE w[Pick(m)] + val(m \ {Pick(m)})
                    ELSE val(s)]
<1>. HIDE DEF val
<1>4. IsTable(w, m, h)
  <2>1. \A s \in SUBSET m :
           h[s] = IF s = {} THEN 0 ELSE w[Pick(s)] + h[s \ {Pick(s)}]
    <3>. SUFFICES ASSUME NEW s \in SUBSET m
                  PROVE  h[s] = IF s = {} THEN 0 ELSE w[Pick(s)] + h[s \ {Pick(s)}]
      OBVIOUS
    <3>1. s # {} => s \ {Pick(s)} # m /\ s \ {Pick(s)} \in SUBSET m
      BY PickIn
    <3>2. s # {} => h[s \ {Pick(s)}] = val(s \ {Pick(s)})
      BY <3>1
    <3>3. CASE s = m
      BY <3>2, <3>3
    <3>4. CASE s # m
      BY <3>2, <3>4, <1>3
    <3>. QED  BY <3>3, <3>4
  <2>2. h = [s \in SUBSET m |-> h[s]]
    OBVIOUS
  <2>. HIDE DEF h
  <2>. QED  BY <2>1, <2>2 DEF IsTable
<1>. QED  BY <1>1, <1>4

(* A sum is its next element and the sum of the rest.                      *)
LEMMA SumStep ==
    ASSUME NEW S, IsFiniteSet(S), NEW w
    PROVE  \A T \in SUBSET S :
              SumOver(w, T) = IF T = {} THEN 0
                              ELSE w[Pick(T)] + SumOver(w, T \ {Pick(T)})
<1>. SUFFICES ASSUME NEW T \in SUBSET S
              PROVE  SumOver(w, T) = IF T = {} THEN 0
                              ELSE w[Pick(T)] + SumOver(w, T \ {Pick(T)})
  OBVIOUS
<1>. DEFINE r == T \ {Pick(T)}
            f == CHOOSE h : IsTable(w, T, h)
            g == CHOOSE h : IsTable(w, r, h)
<1>1. IsTable(w, T, f)
  BY TableExists
<1>2. IsTable(w, r, g)
  <2>1. r \in SUBSET S  OBVIOUS
  <2>. HIDE DEF r
  <2>. QED  BY <2>1, TableExists
<1>3. f[r] = g[r]
  <2>1. r \in SUBSET S /\ r \in SUBSET (T \cap r)  OBVIOUS
  <2>. HIDE DEF f, g, r
  <2>. QED  BY <1>1, <1>2, <2>1, TablesAgree
<1>4. f[T] = IF T = {} THEN 0 ELSE w[Pick(T)] + f[r]
  BY <1>1 DEF IsTable
<1>5. SumOver(w, T) = f[T] /\ SumOver(w, r) = g[r]
  BY DEF SumOver
<1>. HIDE DEF f, g
<1>. QED  BY <1>3, <1>4, <1>5

(* The sum of naturals is a natural.                                       *)
LEMMA SumNat ==
    ASSUME NEW S, IsFiniteSet(S), NEW w \in [S -> Nat]
    PROVE  \A T \in SUBSET S : SumOver(w, T) \in Nat
<1>. DEFINE B == {T \in SUBSET S : SumOver(w, T) \notin Nat}
<1>. SUFFICES ASSUME B # {} PROVE FALSE
  OBVIOUS
<1>1. PICK m \in B : \A s \in B : s \subseteq m => s = m
  <2>. B \in SUBSET SUBSET S  OBVIOUS
  <2>. HIDE DEF B
  <2>. QED  BY SmallestMember
<1>2. SumOver(w, m) = IF m = {} THEN 0
                      ELSE w[Pick(m)] + SumOver(w, m \ {Pick(m)})
  BY SumStep
<1>3. m # {} => Pick(m) \in m
  BY PickIn
<1>4. m # {} => SumOver(w, m \ {Pick(m)}) \in Nat
  <2>. SUFFICES ASSUME m # {} PROVE m \ {Pick(m)} \notin B
    OBVIOUS
  <2>. QED  BY <1>1, <1>3
<1>5. m # {} => w[Pick(m)] \in Nat
  BY <1>3
<1>. QED  BY <1>2, <1>4, <1>5

(* The sum of integers is an integer.                                      *)
LEMMA SumInt ==
    ASSUME NEW S, IsFiniteSet(S), NEW w, \A x \in S : w[x] \in Int
    PROVE  \A T \in SUBSET S : SumOver(w, T) \in Int
<1>0. \A T \in SUBSET S : SumOver(w, T) = IF T = {} THEN 0
                              ELSE w[Pick(T)] + SumOver(w, T \ {Pick(T)})
  BY SumStep, Zenon
<1>. DEFINE B == {T \in SUBSET S : SumOver(w, T) \notin Int}
<1>. SUFFICES ASSUME B # {} PROVE FALSE
  OBVIOUS
<1>1. PICK m \in B : \A s \in B : s \subseteq m => s = m
  <2>. B \in SUBSET SUBSET S  OBVIOUS
  <2>. HIDE DEF B
  <2>. QED  BY SmallestMember
<1>2. SumOver(w, m) = IF m = {} THEN 0
                      ELSE w[Pick(m)] + SumOver(w, m \ {Pick(m)})
  BY <1>0, <1>1
<1>3. m # {} => Pick(m) \in m
  BY PickIn
<1>4. m # {} => SumOver(w, m \ {Pick(m)}) \in Int
  <2>. SUFFICES ASSUME m # {} PROVE m \ {Pick(m)} \notin B
    OBVIOUS
  <2>. QED  BY <1>1, <1>3
<1>5. m # {} => w[Pick(m)] \in Int
  BY <1>3
<1>. QED  BY <1>2, <1>4, <1>5

(* The elements can be summed in any order: the sum is that of any of them  *)
(* and of the rest.                                                        *)
LEMMA SumTakes ==
    ASSUME NEW S, IsFiniteSet(S), NEW w, \A x \in S : w[x] \in Int
    PROVE  \A T \in SUBSET S : \A x \in T :
              SumOver(w, T) = w[x] + SumOver(w, T \ {x})
<1>. DEFINE Fails(T, x) == SumOver(w, T) # w[x] + SumOver(w, T \ {x})
            B == {T \in SUBSET S : \E x \in T : Fails(T, x)}
<1>. SUFFICES ASSUME B # {} PROVE FALSE
  OBVIOUS
<1>1. PICK m \in B : \A s \in B : s \subseteq m => s = m
  <2>. B \in SUBSET SUBSET S  OBVIOUS
  <2>. HIDE DEF B
  <2>. QED  BY SmallestMember
<1>2. PICK x \in m : Fails(m, x)
  BY <1>1
<1>. DEFINE y == Pick(m)
            both == (m \ {x}) \ {y}
<1>3. y \in m /\ m \in SUBSET S
  BY <1>1, <1>2, PickIn
<1>4. SumOver(w, m) = w[y] + SumOver(w, m \ {y})
  BY <1>2, <1>3, SumStep
<1>. HIDE DEF y
<1>5. x # y
  BY <1>2, <1>4
<1>6. SumOver(w, m \ {y}) = w[x] + SumOver(w, both)
  <2>1. x \in m \ {y} /\ m \ {y} \in SUBSET S /\ m \ {y} \subseteq m /\ m \ {y} # m
    BY <1>2, <1>3, <1>5
  <2>2. m \ {y} \notin B
    BY <1>1, <2>1
  <2>3. (m \ {y}) \ {x} = both
    OBVIOUS
  <2>4. ~Fails(m \ {y}, x)
    BY <2>1, <2>2
  <2>. QED  BY <2>3, <2>4
<1>7. SumOver(w, m \ {x}) = w[y] + SumOver(w, both)
  <2>1. y \in m \ {x} /\ m \ {x} \in SUBSET S /\ m \ {x} \subseteq m /\ m \ {x} # m
    BY <1>2, <1>3, <1>5
  <2>2. m \ {x} \notin B
    BY <1>1, <2>1
  <2>3. ~Fails(m \ {x}, y)
    BY <2>1, <2>2
  <2>. QED  BY <2>3
<1>8. w[x] \in Int /\ w[y] \in Int /\ SumOver(w, both) \in Int
  <2>1. both \in SUBSET S
    BY <1>3
  <2>. HIDE DEF both
  <2>. QED  BY <1>2, <1>3, <2>1, SumInt
<1>9. SumOver(w, m) = w[x] + SumOver(w, m \ {x})
  <2>. HIDE DEF both
  <2>. QED  BY <1>4, <1>6, <1>7, <1>8
<1>. QED  BY <1>2, <1>9

(* The sum of sums is the sum over the added weights.                      *)
LEMMA SumAdds ==
    ASSUME NEW S, IsFiniteSet(S), NEW w \in [S -> Nat], NEW v \in [S -> Nat],
           NEW u \in [S -> Nat], \A x \in S : u[x] = w[x] + v[x]
    PROVE  \A T \in SUBSET S : SumOver(u, T) = SumOver(w, T) + SumOver(v, T)
<1>. DEFINE B == {T \in SUBSET S : SumOver(u, T) # SumOver(w, T) + SumOver(v, T)}
<1>. SUFFICES ASSUME B # {} PROVE FALSE
  OBVIOUS
<1>1. PICK m \in B : \A s \in B : s \subseteq m => s = m
  <2>. B \in SUBSET SUBSET S  OBVIOUS
  <2>. HIDE DEF B
  <2>. QED  BY SmallestMember
<1>2. \A a \in {u, v, w} :
         /\ SumOver(a, m) = IF m = {} THEN 0
                            ELSE a[Pick(m)] + SumOver(a, m \ {Pick(m)})
         /\ SumOver(a, m \ {Pick(m)}) \in Nat
  <2>. SUFFICES ASSUME NEW a \in {u, v, w}
                PROVE  /\ SumOver(a, m) = IF m = {} THEN 0
                            ELSE a[Pick(m)] + SumOver(a, m \ {Pick(m)})
                       /\ SumOver(a, m \ {Pick(m)}) \in Nat
    OBVIOUS
  <2>1. a \in [S -> Nat]  OBVIOUS
  <2>2. m \ {Pick(m)} \in SUBSET S  OBVIOUS
  <2>3. SumOver(a, m \ {Pick(m)}) \in Nat
    BY <2>1, <2>2, SumNat
  <2>4. SumOver(a, m) = IF m = {} THEN 0
                        ELSE a[Pick(m)] + SumOver(a, m \ {Pick(m)})
    BY <2>1, SumStep
  <2>. QED  BY <2>3, <2>4
<1>3. m # {}
  BY <1>2
<1>4. Pick(m) \in m
  BY <1>3, PickIn
<1>5. SumOver(u, m \ {Pick(m)}) = SumOver(w, m \ {Pick(m)}) + SumOver(v, m \ {Pick(m)})
  <2>. SUFFICES m \ {Pick(m)} \notin B
    OBVIOUS
  <2>. QED  BY <1>1, <1>4
<1>6. u[Pick(m)] = w[Pick(m)] + v[Pick(m)] /\ w[Pick(m)] \in Nat /\ v[Pick(m)] \in Nat
  BY <1>4
<1>. QED  BY <1>2, <1>3, <1>5, <1>6

(* What the units of one position are worth.                               *)
WeightOf(units) == [i \in Items |-> units[i] * Price[i]]

LEMMA WorthIsSum ==
    ASSUME NEW units
    PROVE  Worth(units) = SumOver(WeightOf(units), Items)
<1>. DEFINE Entry(f, s) == IF s = {} THEN 0
                           ELSE units[Pick(s)] * Price[Pick(s)] + f[s \ {Pick(s)}]
<1>1. Worth(units) = (CHOOSE f : f = [s \in SUBSET Items |-> Entry(f, s)])[Items]
    BY DEF Worth, MapThenSumSet, MapThenFoldSet, Pick
<1>2. \A s \in SUBSET Items :
         s # {} => WeightOf(units)[Pick(s)] = units[Pick(s)] * Price[Pick(s)]
    BY PickIn DEF WeightOf
<1>3. \A f : [s \in SUBSET Items |-> Entry(f, s)]
           = [s \in SUBSET Items |->
                 IF s = {} THEN 0
                 ELSE WeightOf(units)[Pick(s)] + f[s \ {Pick(s)}]]
    BY <1>2
<1>4. \A f : (f = [s \in SUBSET Items |-> Entry(f, s)])
             <=> IsTable(WeightOf(units), Items, f)
    BY <1>3 DEF IsTable
<1>5. (CHOOSE f : f = [s \in SUBSET Items |-> Entry(f, s)])
      = (CHOOSE f : IsTable(WeightOf(units), Items, f))
    BY <1>4
<1>. QED
    BY <1>1, <1>5 DEF SumOver

LEMMA WeightType ==
    ASSUME NEW units \in [Items -> Nat]
    PROVE  WeightOf(units) \in [Items -> Nat]
<1>1. \A i \in Items : units[i] * Price[i] \in Nat
    <2>. SUFFICES ASSUME NEW n \in Nat, NEW m \in Nat PROVE n * m \in Nat
        BY CashAssumption
    <2>. QED  OBVIOUS
<1>. QED
    BY <1>1 DEF WeightOf

(* Units are worth an amount that is not negative.                         *)
LEMMA WorthNat == \A units \in [Items -> Nat] : Worth(units) \in Nat
<1>. SUFFICES ASSUME NEW units \in [Items -> Nat] PROVE Worth(units) \in Nat
    OBVIOUS
<1>1. SumOver(WeightOf(units), Items) \in Nat
    BY WeightType, SumNat, CashAssumption
<1>. QED
    BY <1>1, WorthIsSum

LEMMA WorthType == \A units \in [Items -> 0..MaxQty] : Worth(units) \in Nat
<1>. SUFFICES ASSUME NEW units \in [Items -> 0..MaxQty]
              PROVE  units \in [Items -> Nat]
    BY WorthNat
<1>. QED
    BY CashAssumption

(* Units paid one after the other are worth what they are worth together.   *)
LEMMA WorthAdds ==
    ASSUME NEW a \in [Items -> Nat], NEW b \in [Items -> Nat],
           NEW c \in [Items -> Nat], \A i \in Items : c[i] = a[i] + b[i]
    PROVE  Worth(c) = Worth(a) + Worth(b)
<1>1. \A i \in Items : WeightOf(c)[i] = WeightOf(a)[i] + WeightOf(b)[i]
    <2>. SUFFICES ASSUME NEW i \in Items
                  PROVE  c[i] * Price[i] = a[i] * Price[i] + b[i] * Price[i]
        BY DEF WeightOf
    <2>1. \A x \in Nat, y \in Nat, p \in Nat : (x + y) * p = x * p + y * p
        OBVIOUS
    <2>. QED
        BY <2>1, CashAssumption
<1>2. SumOver(WeightOf(c), Items)
      = SumOver(WeightOf(a), Items) + SumOver(WeightOf(b), Items)
    <2>1. Items \in SUBSET Items
        OBVIOUS
    <2>2. /\ WeightOf(a) \in [Items -> Nat] /\ WeightOf(b) \in [Items -> Nat]
          /\ WeightOf(c) \in [Items -> Nat]
        BY WeightType
    <2>. QED
        BY <1>1, <2>1, <2>2, SumAdds, CashAssumption
<1>. QED
    BY <1>2, WorthIsSum

(* More units are worth no less.                                           *)
LEMMA WorthGrows ==
    ASSUME NEW a \in [Items -> Nat], NEW c \in [Items -> Nat],
           \A i \in Items : a[i] <= c[i]
    PROVE  Worth(a) <= Worth(c)
<1>. DEFINE b == [i \in Items |-> c[i] - a[i]]
<1>1. b \in [Items -> Nat]
    OBVIOUS
<1>2. \A i \in Items : c[i] = a[i] + b[i]
    OBVIOUS
<1>. HIDE DEF b
<1>3. Worth(c) = Worth(a) + Worth(b)
    BY <1>1, <1>2, WorthAdds
<1>. QED
    BY <1>1, <1>3, WorthNat

(***************************************************************************)
(* The inductive invariant                                                 *)
(***************************************************************************)

(* A transaction that is about to create an order holds the event, and the   *)
(* order does not exist yet.                                               *)
CreatesInv(t) ==
    tx[t].op \in {"create", "quick"} =>
        /\ tx[t].order \in Orders
        /\ lock[Event] = t
        /\ order[tx[t].order].life = "NONE"
        /\ tx[t].op = "create" => tx[t].refund <= Gross

(* A transaction that is about to book a payment holds the order, and what  *)
(* it read of it still holds.                                              *)
PaysInv(t) ==
    tx[t].op \in {"add", "split", "redeem"} =>
        /\ tx[t].order \in Orders
        /\ lock[tx[t].order] = t
        /\ order[tx[t].order].life # "NONE"
        /\ tx[t].op = "add" =>
              /\ tx[t].row = order[tx[t].order]
              /\ tx[t].row.paid + tx[t].amount <= tx[t].row.total
        /\ tx[t].op = "redeem" =>
              /\ tx[t].row = order[tx[t].order]
              /\ tx[t].row.paid < tx[t].row.total
        /\ tx[t].op = "split" =>
              /\ tx[t].items = item[tx[t].order]
              /\ \A i \in Items :
                    tx[t].items[i].paid + tx[t].units[i] <= Qty[i]

(* A redemption is of a voucher for an order that existed at its start.    *)
RedeemsInv(t) ==
    tx[t].op \in {"redeemStart", "redeem"} =>
        /\ tx[t].order \in Orders /\ tx[t].voucher \in Vouchers
        /\ tx[t].key \in Keys
        /\ tx[t].row.life # "NONE"

TransactionInv(t) == CreatesInv(t) /\ PaysInv(t) /\ RedeemsInv(t)

TxInv == \A t \in Txs : TransactionInv(t)

(* Units paid by position are among the units marked as paid.              *)
UnitsInv ==
    \A o \in Orders, i \in Items :
        /\ splitUnits[o][i] <= item[o][i].paid
        /\ item[o][i].paid <= Qty[i]
        /\ order[o].life = "NONE" => splitUnits[o][i] = 0

IInv == TypeOK /\ TxInv /\ UnitsInv /\ VouchersConserved

(***************************************************************************)
(* Types of the helpers                                                    *)
(***************************************************************************)
LEMMA GrossType == Gross \in Nat
BY CashAssumption, WorthType DEF Gross

LEMMA ActiveSessionType ==
    ActiveSession \in Sessions \union {NoSession}
BY DEF ActiveSession

LEMMA IdleType == Idle \in TxType
<1>1. NoOrder \in OrderType
    BY DEF NoOrder, OrderType
<1>2. [i \in Items |-> 0] \in [Items -> 0..MaxQty]
    BY CashAssumption
<1>3. [i \in Items |-> [paid |-> 0, cancelled |-> FALSE]] \in [Items -> ItemType]
    BY DEF ItemType
<1> QED
    BY <1>1, <1>2, <1>3 DEF Idle, TxType

LEMMA OutstandingType ==
    ASSUME NEW row \in OrderType
    PROVE  /\ Outstanding(row) \in Nat
           /\ row.paid < row.total => row.paid + Outstanding(row) = row.total
BY DEF Outstanding, Larger, OrderType

LEMMA LocksType ==
    ASSUME TransactionType, NEW t \in Txs, NEW R, Locks(t, R)
    PROVE  lock' \in [Resources -> Txs \union {NoTx}]
BY DEF TransactionType, Locks

LEMMA EndsType ==
    ASSUME TransactionType, NEW t \in Txs, Ends(t)
    PROVE  TransactionType'
<1>1. lock' \in [Resources -> Txs \union {NoTx}]
    BY DEF TransactionType, Ends
<1>2. tx' \in [Txs -> TxType]
    BY IdleType DEF TransactionType, Ends
<1> QED
    BY <1>1, <1>2 DEF TransactionType

LEMMA BooksType ==
    ASSUME DrawerType, NEW s \in Sessions \union {NoSession}, NEW a \in Int,
           Books(s, a), UNCHANGED <<session, expected>>
    PROVE  DrawerType'
BY DEF DrawerType, Books, NoSession

(* What does not change keeps its type.                                    *)
LEMMA Frames ==
    ASSUME TypeOK
    PROVE  /\ UNCHANGED moneyVars => MoneyType'
           /\ UNCHANGED voucherVars => VouchersType'
           /\ UNCHANGED drawerVars => DrawerType'
           /\ UNCHANGED <<lock, tx>> => TransactionType'
BY DEF TypeOK, MoneyType, VouchersType, DrawerType, TransactionType,
       moneyVars, voucherVars, drawerVars

(***************************************************************************)
(* Type correctness                                                        *)
(***************************************************************************)

(* A request only takes its locks and fills in its transaction.            *)
LEMMA RequestType ==
    ASSUME TypeOK, NEW t \in Txs, NEW rec \in TxType,
           tx' = [tx EXCEPT ![t] = rec],
           lock' \in [Resources -> Txs \union {NoTx}],
           UNCHANGED <<moneyVars, voucherVars, drawerVars>>
    PROVE  TypeOK'
<1>1. TransactionType'
    BY DEF TypeOK, TransactionType
<1> QED
    BY <1>1, Frames DEF TypeOK

LEMMA CreateStartsType ==
    ASSUME TypeOK, NEW t \in Txs, NEW o \in Orders, NEW r \in Refunds,
           NEW a \in Amounts \union {0}, NEW byCash \in BOOLEAN,
           CreateStarts(t, o, r, a, byCash)
    PROVE  TypeOK'
<1>1. a \in Nat /\ r \in Nat
    BY CashAssumption
<1>2. [[Idle EXCEPT !.refund = r, !.amount = a, !.cash = byCash,
                    !.session = ActiveSession]
         EXCEPT !.op = "create", !.order = o] \in TxType
    BY <1>1, IdleType, ActiveSessionType DEF TxType
<1>3. lock' \in [Resources -> Txs \union {NoTx}]
    BY LocksType DEF CreateStarts, TypeOK
<1> QED
    BY <1>2, <1>3, RequestType DEF CreateStarts, Starts

LEMMA QuickSaleStartsType ==
    ASSUME TypeOK, NEW t \in Txs, NEW o \in Orders, NEW r \in Refunds,
           NEW byCash \in BOOLEAN, QuickSaleStarts(t, o, r, byCash)
    PROVE  TypeOK'
<1>1. [[Idle EXCEPT !.refund = r, !.cash = byCash, !.session = ActiveSession]
         EXCEPT !.op = "quick", !.order = o] \in TxType
    BY IdleType, ActiveSessionType, CashAssumption DEF TxType
<1>2. lock' \in [Resources -> Txs \union {NoTx}]
    BY LocksType DEF QuickSaleStarts, TypeOK
<1> QED
    BY <1>1, <1>2, RequestType DEF QuickSaleStarts, Starts

LEMMA AddStartsType ==
    ASSUME TypeOK, NEW t \in Txs, NEW o \in Orders, NEW a \in Amounts,
           NEW byCash \in BOOLEAN, AddStarts(t, o, a, byCash)
    PROVE  TypeOK'
<1>1. order[o] \in OrderType
    BY DEF TypeOK, MoneyType
<1>2. [[Idle EXCEPT !.amount = a, !.cash = byCash, !.session = ActiveSession,
                    !.row = order[o]]
         EXCEPT !.op = "add", !.order = o] \in TxType
    BY <1>1, IdleType, ActiveSessionType, CashAssumption DEF TxType
<1>3. lock' \in [Resources -> Txs \union {NoTx}]
    BY LocksType DEF AddStarts, LockOrderForPayment, TypeOK
<1> QED
    BY <1>2, <1>3, RequestType DEF AddStarts, Starts

LEMMA SplitStartsType ==
    ASSUME TypeOK, NEW t \in Txs, NEW o \in Orders, NEW u \in SomeUnits,
           NEW byCash \in BOOLEAN, SplitStarts(t, o, u, byCash)
    PROVE  TypeOK'
<1>1. item[o] \in [Items -> ItemType]
    BY DEF TypeOK, MoneyType
<1>2. u \in [Items -> 0..MaxQty] /\ Worth(u) \in Nat
    BY WorthType DEF SomeUnits
<1>3. [[Idle EXCEPT !.units = u, !.amount = Worth(u), !.cash = byCash,
                    !.session = ActiveSession, !.items = item[o]]
         EXCEPT !.op = "split", !.order = o] \in TxType
    BY <1>1, <1>2, IdleType, ActiveSessionType DEF TxType
<1>4. lock' \in [Resources -> Txs \union {NoTx}]
    BY LocksType DEF SplitStarts, LockOrderForPayment, TypeOK
<1> QED
    BY <1>3, <1>4, RequestType DEF SplitStarts, Starts

LEMMA RedeemStartsType ==
    ASSUME TypeOK, NEW t \in Txs, NEW o \in Orders, NEW v \in Vouchers,
           NEW k \in Keys, NEW byCash \in BOOLEAN,
           RedeemStarts(t, o, v, k, byCash)
    PROVE  TypeOK'
<1> DEFINE b == IF voucher[v].status = "ACTIVE" THEN voucher[v].balance ELSE 0
<1>1. order[o] \in OrderType /\ item[o] \in [Items -> ItemType]
    BY DEF TypeOK, MoneyType
<1>2. b \in Nat
    BY DEF TypeOK, VouchersType, VoucherType
<1> HIDE DEF b
<1>3. [Idle EXCEPT !.op = "redeemStart", !.order = o, !.voucher = v,
                   !.key = k, !.cash = byCash, !.session = ActiveSession,
                   !.row = order[o], !.items = item[o], !.balance = b]
         \in TxType
    BY <1>1, <1>2, IdleType, ActiveSessionType DEF TxType
<1>4. lock' \in [Resources -> Txs \union {NoTx}]
    BY DEF RedeemStarts, TypeOK, TransactionType
<1> QED
    BY <1>3, <1>4, RequestType DEF RedeemStarts, b

(* A transaction that is running read a session and amounts.               *)
LEMMA RunningType ==
    ASSUME TypeOK, NEW t \in Txs
    PROVE  /\ tx[t] \in TxType
           /\ tx[t].session \in Sessions \union {NoSession}
           /\ tx[t].amount \in Nat /\ tx[t].refund \in Nat
           /\ tx[t].balance \in Nat /\ tx[t].row \in OrderType
           /\ tx[t].units \in [Items -> Nat]
           /\ tx[t].items \in [Items -> ItemType]
           /\ \A a \in Int : CashOf(t, a) \in Int
<1>1. tx[t] \in TxType
    BY DEF TypeOK, TransactionType
<1> QED
    BY <1>1 DEF TxType, CashOf

LEMMA CreateOrderType ==
    ASSUME TypeOK, NEW t \in Txs, CreatesInv(t), CreateOrder(t)
    PROVE  TypeOK'
<1> DEFINE o     == tx[t].order
           total == Gross - tx[t].refund
           pay   == StatusOnCreate(tx[t].amount, total)
<1>1. o \in Orders /\ total \in Nat /\ tx[t].op = "create"
    BY GrossType, RunningType DEF CreateOrder, CreatesInv
<1>2. pay \in {"OPEN", "PARTIALLY_PAID", "PAID"}
    BY DEF StatusOnCreate
<1>3. /\ order' = [order EXCEPT ![o] =
            [life |-> "SUBMITTED", pay |-> pay, total |-> total,
             refund |-> tx[t].refund, paid |-> tx[t].amount]]
      /\ item' = [item EXCEPT ![o] =
            [i \in Items |-> [paid |-> IF pay = "PAID" THEN Qty[i] ELSE 0,
                              cancelled |-> FALSE]]]
      /\ UNCHANGED splitUnits
    BY DEF CreateOrder
<1> HIDE DEF o, total, pay
<1>4. order' \in [Orders -> OrderType]
    BY <1>1, <1>2, <1>3, RunningType DEF TypeOK, MoneyType, OrderType
<1>5. item' \in [Orders -> [Items -> ItemType]]
    BY <1>1, <1>3, CashAssumption DEF TypeOK, MoneyType, ItemType
<1>6. MoneyType'
    BY <1>3, <1>4, <1>5 DEF TypeOK, MoneyType
<1>7. DrawerType'
    BY RunningType, BooksType DEF CreateOrder, TypeOK
<1> QED
    BY <1>6, <1>7, Frames, EndsType DEF CreateOrder, TypeOK

LEMMA QuickSaleType ==
    ASSUME TypeOK, NEW t \in Txs, CreatesInv(t), QuickSale(t)
    PROVE  TypeOK'
<1> DEFINE o      == tx[t].order
           total  == Larger(0, Gross - tx[t].refund)
           payout == Larger(0, tx[t].refund - Gross)
<1>1. o \in Orders
    BY DEF QuickSale, CreatesInv
<1>2. total \in Nat /\ payout \in Nat
    BY GrossType, RunningType DEF Larger
<1>3. /\ order' = [order EXCEPT ![o] =
            [life |-> "SUBMITTED", pay |-> "PAID", total |-> total,
             refund |-> tx[t].refund, paid |-> total + payout]]
      /\ item' = [item EXCEPT ![o] =
            [i \in Items |-> [paid |-> Qty[i], cancelled |-> FALSE]]]
      /\ UNCHANGED splitUnits
      /\ Books(tx[t].session, CashOf(t, total) - payout)
    BY DEF QuickSale
<1> HIDE DEF o, total, payout
<1>4. order' \in [Orders -> OrderType]
    BY <1>1, <1>2, <1>3, RunningType DEF TypeOK, MoneyType, OrderType
<1>5. item' \in [Orders -> [Items -> ItemType]]
    BY <1>1, <1>3, CashAssumption DEF TypeOK, MoneyType, ItemType
<1>6. MoneyType'
    BY <1>3, <1>4, <1>5 DEF TypeOK, MoneyType
<1>7. CashOf(t, total) - payout \in Int
    BY <1>2, RunningType
<1>8. DrawerType'
    BY <1>3, <1>7, RunningType, BooksType DEF QuickSale, TypeOK
<1> QED
    BY <1>6, <1>8, Frames, EndsType DEF QuickSale, TypeOK

LEMMA PaysType ==
    ASSUME MoneyType, NEW o \in Orders, NEW a \in Nat,
           NEW status \in {"OPEN", "PARTIALLY_PAID", "PAID"},
           Pays(o, a, status)
    PROVE  order' \in [Orders -> OrderType]
<1> DEFINE row == [order[o] EXCEPT !.paid = order[o].paid + a, !.pay = status]
<1>1. row \in OrderType
    <2>1. order[o] \in OrderType
        BY DEF MoneyType
    <2>2. order[o].paid + a \in Nat
        BY <2>1 DEF OrderType
    <2>3. \A n \in Nat : [order[o] EXCEPT !.paid = n, !.pay = status] \in OrderType
        BY <2>1 DEF OrderType
    <2> QED
        BY <2>2, <2>3
<1>2. order' = [order EXCEPT ![o] = row]
    BY DEF Pays
<1> HIDE DEF row
<1> QED
    BY <1>1, <1>2 DEF MoneyType

LEMMA AddPaymentsType ==
    ASSUME TypeOK, NEW t \in Txs, PaysInv(t), AddPayments(t)
    PROVE  TypeOK'
<1>1. tx[t].order \in Orders
    BY DEF AddPayments, PaysInv
<1>2. order' \in [Orders -> OrderType]
    BY <1>1, RunningType, PaysType DEF AddPayments, TypeOK
<1>3. MoneyType'
    BY <1>2 DEF AddPayments, TypeOK, MoneyType
<1>4. DrawerType'
    <2>1. /\ Books(tx[t].session, CashOf(t, tx[t].amount))
          /\ UNCHANGED <<session, expected>>
        BY DEF AddPayments
    <2>2. CashOf(t, tx[t].amount) \in Int
        BY RunningType
    <2> QED
        BY <2>1, <2>2, RunningType, BooksType DEF TypeOK
<1> QED
    BY <1>3, <1>4, Frames, EndsType DEF AddPayments, TypeOK

LEMMA SplitPaymentType ==
    ASSUME TypeOK, NEW t \in Txs, PaysInv(t), SplitPayment(t)
    PROVE  TypeOK'
<1> DEFINE o == tx[t].order
           marked == [i \in Items |->
                         IF tx[t].units[i] > 0
                         THEN [item[o][i] EXCEPT !.paid = PaidAfter(t)[i]]
                         ELSE item[o][i]]
<1>1. o \in Orders
    BY DEF SplitPayment, PaysInv
<1>2. \A i \in Items : PaidAfter(t)[i] \in Nat
    BY RunningType DEF PaidAfter, ItemType
<1>3. order' \in [Orders -> OrderType]
    BY <1>1, RunningType, PaysType DEF SplitPayment, TypeOK
<1>4. marked \in [Items -> ItemType]
    <2>1. \A i \in Items : item[o][i] \in ItemType
        BY <1>1 DEF TypeOK, MoneyType
    <2> QED
        BY <1>2, <2>1 DEF ItemType
<1>5. item' = [item EXCEPT ![o] = marked]
    BY DEF SplitPayment
<1>6. splitUnits' = [splitUnits EXCEPT ![o] =
          [i \in Items |-> splitUnits[o][i] + tx[t].units[i]]]
    BY DEF SplitPayment
<1>7. DrawerType'
    <2>1. /\ Books(tx[t].session, CashOf(t, tx[t].amount))
          /\ UNCHANGED <<session, expected>>
        BY DEF SplitPayment
    <2>2. CashOf(t, tx[t].amount) \in Int
        BY RunningType
    <2> QED
        BY <2>1, <2>2, RunningType, BooksType DEF TypeOK
<1> HIDE DEF o, marked
<1>8. item' \in [Orders -> [Items -> ItemType]]
    BY <1>1, <1>4, <1>5 DEF TypeOK, MoneyType
<1>9. splitUnits' \in [Orders -> [Items -> Nat]]
    BY <1>1, <1>6, RunningType DEF TypeOK, MoneyType
<1>10. MoneyType'
    BY <1>3, <1>8, <1>9 DEF MoneyType
<1>11. VouchersType' /\ TransactionType'
    BY Frames, EndsType DEF SplitPayment, TypeOK
<1> QED
    BY <1>7, <1>10, <1>11 DEF TypeOK

LEMMA CancelOrderType ==
    ASSUME TypeOK, NEW o \in Orders, CancelOrder(o)
    PROVE  TypeOK'
<1>1. order' \in [Orders -> OrderType]
    BY DEF CancelOrder, TypeOK, MoneyType, OrderType
<1>2. item' = [item EXCEPT ![o] =
          [i \in Items |-> [item[o][i] EXCEPT !.cancelled = TRUE]]]
    BY DEF CancelOrder
<1>3. item' \in [Orders -> [Items -> ItemType]]
    <2>1. \A i \in Items : item[o][i] \in ItemType
        BY DEF TypeOK, MoneyType
    <2>2. \A i \in Items : [item[o][i] EXCEPT !.cancelled = TRUE] \in ItemType
        BY <2>1 DEF ItemType
    <2> QED
        BY <1>2, <2>2 DEF TypeOK, MoneyType
<1> QED
    BY <1>1, <1>3, Frames DEF CancelOrder, TypeOK, MoneyType

LEMMA CancelOrderItemType ==
    ASSUME TypeOK, NEW o \in Orders, NEW i \in Items, CancelOrderItem(o, i)
    PROVE  TypeOK'
<1> DEFINE rest  == {j \in Items \ {i} : ~item[o][j].cancelled}
           left  == Worth([j \in Items |-> IF j \in rest THEN Qty[j] ELSE 0])
           total == Larger(0, left - order[o].refund)
           row   == [order[o] EXCEPT !.total = total,
                        !.life = IF rest = {} THEN "CANCELLED"
                                 ELSE order[o].life]
<1>1. [j \in Items |-> IF j \in rest THEN Qty[j] ELSE 0] \in [Items -> 0..MaxQty]
    BY CashAssumption
<1>2. left \in Nat
    BY <1>1, WorthType
<1>3. order[o] \in OrderType
    BY DEF TypeOK, MoneyType
<1>4. order' = [order EXCEPT ![o] = row]
    BY DEF CancelOrderItem
<1> HIDE DEF left
<1>5. total \in Nat
    BY <1>2, <1>3 DEF Larger, OrderType
<1> HIDE DEF total, rest
<1>6. row \in OrderType
    BY <1>3, <1>5 DEF OrderType
<1> HIDE DEF row
<1>7. order' \in [Orders -> OrderType]
    BY <1>4, <1>6 DEF TypeOK, MoneyType
<1>8. item' \in [Orders -> [Items -> ItemType]]
    <2>1. item[o][i] \in ItemType /\ item[o] \in [Items -> ItemType]
        BY DEF TypeOK, MoneyType
    <2>2. [item[o][i] EXCEPT !.cancelled = TRUE] \in ItemType
        BY <2>1 DEF ItemType
    <2>3. item' = [item EXCEPT ![o] =
              [item[o] EXCEPT ![i] = [item[o][i] EXCEPT !.cancelled = TRUE]]]
        BY DEF CancelOrderItem, TypeOK, MoneyType
    <2> QED
        BY <2>1, <2>2, <2>3 DEF TypeOK, MoneyType
<1> QED
    BY <1>7, <1>8, Frames DEF CancelOrderItem, TypeOK, MoneyType

LEMMA RedeemLocksOrderType ==
    ASSUME TypeOK, NEW t \in Txs, RedeemLocksOrder(t)
    PROVE  TypeOK'
<1>1. CASE Ends(t)
    BY <1>1, EndsType, Frames DEF RedeemLocksOrder, TypeOK
<1>2. CASE /\ Locks(t, {tx[t].order})
           /\ tx' = [tx EXCEPT ![t].op = "redeem"]
    <2>1. [tx[t] EXCEPT !.op = "redeem"] \in TxType
        BY RunningType DEF TxType
    <2>2. lock' \in [Resources -> Txs \union {NoTx}]
        BY <1>2, LocksType DEF TypeOK
    <2>3. tx' = [tx EXCEPT ![t] = [tx[t] EXCEPT !.op = "redeem"]]
        BY <1>2 DEF TypeOK, TransactionType
    <2> QED
        BY <2>1, <2>2, <2>3, RequestType DEF RedeemLocksOrder
<1> QED
    BY <1>1, <1>2 DEF RedeemLocksOrder

(* A redemption takes no more than the balance.                            *)
LEMMA RedeemedType ==
    ASSUME TypeOK, NEW t \in Txs
    PROVE  LET due  == Outstanding(tx[t].row)
               part == Smaller(tx[t].balance, due)
           IN  /\ due \in Nat /\ part \in Nat
               /\ due - part \in Nat /\ tx[t].balance - part \in Nat
<1>1. Outstanding(tx[t].row) \in Nat
    BY RunningType, OutstandingType
<1> QED
    BY <1>1, RunningType DEF Smaller

LEMMA RedeemType ==
    ASSUME TypeOK, NEW t \in Txs, PaysInv(t), RedeemsInv(t), Redeem(t)
    PROVE  TypeOK'
<1> DEFINE o    == tx[t].order
           v    == tx[t].voucher
           due  == Outstanding(tx[t].row)
           part == Smaller(tx[t].balance, due)
           left == tx[t].balance - part
<1>1. CASE UNCHANGED <<voucherVars, order, cash>>
    BY <1>1, EndsType, Frames
       DEF Redeem, TypeOK, moneyVars, drawerVars
<1>2. CASE VoucherUnchanged(t) /\ tx[t].key \notin booked
    <2>1. o \in Orders /\ v \in Vouchers /\ tx[t].key \in Keys
        BY DEF Redeem, RedeemsInv
    <2>2. due \in Nat /\ part \in Nat /\ due - part \in Nat /\ left \in Nat
        BY RedeemedType
    <2>3. /\ voucher' = [voucher EXCEPT ![v] =
                [status |-> IF left = 0 THEN "DEPLETED" ELSE "ACTIVE",
                 balance |-> left]]
          /\ booked' = booked \union {tx[t].key}
          /\ spent' = [spent EXCEPT ![v] = spent[v] + part]
        BY <1>2 DEF Redeem
    <2>4. /\ Pays(o, due, IF tx[t].row.paid + due = tx[t].row.total
                          THEN "PAID" ELSE "PARTIALLY_PAID")
          /\ UNCHANGED <<item, splitUnits>>
        BY <1>2 DEF Redeem
    <2>5. /\ Books(tx[t].session, CashOf(t, due - part))
          /\ UNCHANGED <<session, expected>>
        BY <1>2 DEF Redeem
    <2> HIDE DEF o, v, due, part, left
    <2>6. order' \in [Orders -> OrderType]
        BY <2>1, <2>2, <2>4, PaysType DEF TypeOK
    <2>7. MoneyType'
        BY <2>4, <2>6 DEF TypeOK, MoneyType
    <2>8. VouchersType'
        BY <2>1, <2>2, <2>3 DEF TypeOK, VouchersType, VoucherType
    <2>9. CashOf(t, due - part) \in Int
        BY <2>2, RunningType
    <2>10. DrawerType'
        BY <2>5, <2>9, RunningType, BooksType DEF TypeOK
    <2>11. TransactionType'
        BY EndsType DEF Redeem, TypeOK
    <2> QED
        BY <2>7, <2>8, <2>10, <2>11 DEF TypeOK
<1> QED
    BY <1>1, <1>2 DEF Redeem

LEMMA IssueVoucherType ==
    ASSUME TypeOK, NEW v \in Vouchers, IssueVoucher(v) \/ CancelVoucher(v)
    PROVE  TypeOK'
<1>1. VouchersType'
    BY CashAssumption
       DEF IssueVoucher, CancelVoucher, TypeOK, VouchersType, VoucherType
<1> QED
    BY <1>1, Frames DEF IssueVoucher, CancelVoucher, TypeOK

LEMMA SessionType ==
    ASSUME TypeOK, NEW s \in Sessions, StartSession(s) \/ CloseSession(s)
    PROVE  TypeOK'
<1>1. DrawerType'
    BY DEF StartSession, CloseSession, TypeOK, DrawerType
<1> QED
    BY <1>1, Frames DEF StartSession, CloseSession, TypeOK

(* Methods are CASH and CARD, so byCash is a Boolean.                      *)
LEMMA ByCash == \A b \in {m = "CASH" : m \in Methods} : b \in BOOLEAN
OBVIOUS

LEMMA TypeStep == TypeOK /\ TxInv /\ Next => TypeOK'
<1> SUFFICES ASSUME TypeOK, TxInv, Next PROVE TypeOK'
    OBVIOUS
<1>1. CASE \E t \in Txs : Commits(t)
    BY <1>1, CreateOrderType, QuickSaleType, AddPaymentsType, SplitPaymentType,
       RedeemLocksOrderType, RedeemType DEF Commits, TxInv, TransactionInv
<1>2. CASE \E t \in Txs, o \in Orders : Request(t, o)
    BY <1>2, ByCash, CreateStartsType, QuickSaleStartsType, AddStartsType,
       SplitStartsType, RedeemStartsType DEF Request
<1>3. CASE \E o \in Orders : CancelOrder(o) \/ \E i \in Items : CancelOrderItem(o, i)
    BY <1>3, CancelOrderType, CancelOrderItemType
<1>4. CASE \E v \in Vouchers : IssueVoucher(v) \/ CancelVoucher(v)
    BY <1>4, IssueVoucherType
<1>5. CASE \E s \in Sessions : StartSession(s) \/ CloseSession(s)
    BY <1>5, SessionType
<1> QED
    BY <1>1, <1>2, <1>3, <1>4, <1>5 DEF Next

(***************************************************************************)
(* What a transaction read under a lock stays true                         *)
(***************************************************************************)

(* Locks are taken only on what is free: other transactions keep theirs.    *)
LEMMA LocksKeep ==
    ASSUME TypeOK, NEW t \in Txs, NEW R, Locks(t, R)
    PROVE  \A u \in Txs, r \in Resources : lock[r] = u => lock'[r] = u
BY CashAssumption DEF Locks, Free, TypeOK, TransactionType

LEMMA EndsKeep ==
    ASSUME TypeOK, NEW t \in Txs, Ends(t)
    PROVE  /\ \A u \in Txs \ {t}, r \in Resources : lock[r] = u => lock'[r] = u
           /\ \A u \in Txs \ {t} : tx'[u] = tx[u]
           /\ tx'[t].op = "none"
BY DEF Ends, TypeOK, TransactionType, Idle

(* A transaction whose locks and whose order are left alone.               *)
LEMMA TransactionFrame ==
    ASSUME TypeOK, NEW u \in Txs, TransactionInv(u), tx'[u] = tx[u],
           \A r \in Resources : lock[r] = u => lock'[r] = u,
           tx[u].op \in {"create", "quick", "add", "split", "redeem"} =>
              /\ order'[tx[u].order] = order[tx[u].order]
              /\ item'[tx[u].order] = item[tx[u].order]
    PROVE  TransactionInv(u)'
<1>1. Event \in Resources /\ Orders \subseteq Resources
    BY DEF Resources
<1>2. CreatesInv(u)'
    BY <1>1 DEF TransactionInv, CreatesInv
<1>3. PaysInv(u)'
    BY <1>1 DEF TransactionInv, PaysInv
<1>4. RedeemsInv(u)'
    BY DEF TransactionInv, RedeemsInv
<1> QED
    BY <1>2, <1>3, <1>4 DEF TransactionInv

(* A request: the others are left alone.                                   *)
LEMMA RequestTx ==
    ASSUME TypeOK, TxInv, NEW t \in Txs, NEW rec,
           tx' = [tx EXCEPT ![t] = rec],
           \A u \in Txs, r \in Resources : lock[r] = u => lock'[r] = u,
           UNCHANGED moneyVars, TransactionInv(t)'
    PROVE  TxInv'
<1>1. ASSUME NEW u \in Txs, u # t PROVE TransactionInv(u)'
    <2>1. tx'[u] = tx[u]
        BY <1>1 DEF TypeOK, TransactionType
    <2>2. UNCHANGED <<order, item>>
        BY DEF moneyVars
    <2> QED
        BY <1>1, <2>1, <2>2, TransactionFrame DEF TxInv
<1> QED
    BY <1>1 DEF TxInv

LEMMA IdleTx ==
    ASSUME NEW t \in Txs, tx'[t].op = "none" PROVE TransactionInv(t)'
BY DEF TransactionInv, CreatesInv, PaysInv, RedeemsInv

(* A commit writes only the order of its transaction, which no other        *)
(* transaction is about to write.                                          *)
LEMMA CommitTx ==
    ASSUME TypeOK, TxInv, NEW t \in Txs, Ends(t),
           tx[t].op \in {"create", "quick", "add", "split", "redeem"},
           \A p \in Orders : p # tx[t].order =>
               order'[p] = order[p] /\ item'[p] = item[p]
    PROVE  TxInv'
<1>1. TransactionInv(t)'
    BY EndsKeep, IdleTx
<1>2. ASSUME NEW u \in Txs, u # t PROVE TransactionInv(u)'
    <2>1. TransactionInv(t) /\ TransactionInv(u)
        BY DEF TxInv
    <2>2. tx[u].op \in {"create", "quick", "add", "split", "redeem"} =>
             tx[u].order \in Orders /\ tx[u].order # tx[t].order
        BY <1>2, <2>1 DEF TransactionInv, CreatesInv, PaysInv
    <2> QED
        BY <1>2, <2>1, <2>2, EndsKeep, TransactionFrame
<1> QED
    BY <1>1, <1>2 DEF TxInv

(* A cancellation writes an order that exists and that nobody has locked.   *)
LEMMA CancelTx ==
    ASSUME TypeOK, TxInv, NEW o \in Orders, Exists(o), Free(o),
           UNCHANGED <<lock, tx>>,
           \A p \in Orders : p # o => order'[p] = order[p] /\ item'[p] = item[p]
    PROVE  TxInv'
<1>1. ASSUME NEW u \in Txs PROVE TransactionInv(u)'
    <2>1. TransactionInv(u)
        BY DEF TxInv
    <2>2. tx[u].op \in {"create", "quick", "add", "split", "redeem"} =>
             tx[u].order \in Orders /\ tx[u].order # o
        BY <2>1, CashAssumption
           DEF TransactionInv, CreatesInv, PaysInv, Exists, Free
    <2> QED
        BY <2>1, <2>2, TransactionFrame
<1> QED
    BY <1>1 DEF TxInv

LEMMA CreateStartsTx ==
    ASSUME TypeOK, TxInv, NEW t \in Txs, NEW o \in Orders, NEW r \in Refunds,
           NEW a, NEW byCash, CreateStarts(t, o, r, a, byCash)
    PROVE  TxInv'
<1> DEFINE rec == [[Idle EXCEPT !.refund = r, !.amount = a, !.cash = byCash,
                                !.session = ActiveSession]
                     EXCEPT !.op = "create", !.order = o]
<1>1. tx' = [tx EXCEPT ![t] = rec] /\ UNCHANGED moneyVars /\ Locks(t, {Event})
    BY DEF CreateStarts, Starts
<1>2. rec.op = "create" /\ rec.order = o /\ rec.refund = r
    BY DEF Idle
<1>3. order[o].life = "NONE" /\ r <= Gross
    BY DEF CreateStarts, Exists
<1> HIDE DEF rec
<1>4. tx'[t] = rec
    BY <1>1 DEF TypeOK, TransactionType
<1>5. lock'[Event] = t
    BY <1>1 DEF Locks, Resources
<1>6. TransactionInv(t)'
    BY <1>1, <1>2, <1>3, <1>4, <1>5
       DEF TransactionInv, CreatesInv, PaysInv, RedeemsInv, moneyVars
<1> QED
    BY <1>1, <1>6, LocksKeep, RequestTx

LEMMA QuickSaleStartsTx ==
    ASSUME TypeOK, TxInv, NEW t \in Txs, NEW o \in Orders, NEW r \in Refunds,
           NEW byCash, QuickSaleStarts(t, o, r, byCash)
    PROVE  TxInv'
<1> DEFINE rec == [[Idle EXCEPT !.refund = r, !.cash = byCash,
                                !.session = ActiveSession]
                     EXCEPT !.op = "quick", !.order = o]
<1>1. /\ tx' = [tx EXCEPT ![t] = rec] /\ UNCHANGED moneyVars
      /\ Locks(t, {Event, ActiveSession})
    BY DEF QuickSaleStarts, Starts
<1>2. rec.op = "quick" /\ rec.order = o
    BY DEF Idle
<1>3. order[o].life = "NONE"
    BY DEF QuickSaleStarts, Exists
<1> HIDE DEF rec
<1>4. tx'[t] = rec
    BY <1>1 DEF TypeOK, TransactionType
<1>5. lock'[Event] = t
    BY <1>1 DEF Locks, Resources
<1>6. TransactionInv(t)'
    BY <1>1, <1>2, <1>3, <1>4, <1>5
       DEF TransactionInv, CreatesInv, PaysInv, RedeemsInv, moneyVars
<1> QED
    BY <1>1, <1>6, LocksKeep, RequestTx

LEMMA AddStartsTx ==
    ASSUME TypeOK, TxInv, NEW t \in Txs, NEW o \in Orders, NEW a \in Amounts,
           NEW byCash, AddStarts(t, o, a, byCash)
    PROVE  TxInv'
<1> DEFINE rec == [[Idle EXCEPT !.amount = a, !.cash = byCash,
                                !.session = ActiveSession, !.row = order[o]]
                     EXCEPT !.op = "add", !.order = o]
<1>1. tx' = [tx EXCEPT ![t] = rec] /\ UNCHANGED moneyVars /\ Locks(t, {o})
    BY DEF AddStarts, Starts, LockOrderForPayment
<1>2. rec.op = "add" /\ rec.order = o /\ rec.row = order[o] /\ rec.amount = a
    BY DEF Idle
<1>3. order[o].life # "NONE" /\ order[o].paid + a <= order[o].total
    BY DEF AddStarts, Exists
<1> HIDE DEF rec
<1>4. tx'[t] = rec
    BY <1>1 DEF TypeOK, TransactionType
<1>5. lock'[o] = t
    BY <1>1 DEF Locks, Resources
<1>6. TransactionInv(t)'
    BY <1>1, <1>2, <1>3, <1>4, <1>5
       DEF TransactionInv, CreatesInv, PaysInv, RedeemsInv, moneyVars
<1> QED
    BY <1>1, <1>6, LocksKeep, RequestTx

LEMMA SplitStartsTx ==
    ASSUME TypeOK, TxInv, NEW t \in Txs, NEW o \in Orders, NEW w \in SomeUnits,
           NEW byCash, SplitStarts(t, o, w, byCash)
    PROVE  TxInv'
<1> DEFINE rec == [[Idle EXCEPT !.units = w, !.amount = Worth(w),
                                !.cash = byCash, !.session = ActiveSession,
                                !.items = item[o]]
                     EXCEPT !.op = "split", !.order = o]
<1>1. tx' = [tx EXCEPT ![t] = rec] /\ UNCHANGED moneyVars /\ Locks(t, {o})
    BY DEF SplitStarts, Starts, LockOrderForPayment
<1>2. rec.op = "split" /\ rec.order = o /\ rec.items = item[o] /\ rec.units = w
    BY DEF Idle
<1>3. order[o].life # "NONE"
    BY DEF SplitStarts, Exists
<1>4. \A i \in Items : item[o][i].paid + w[i] <= Qty[i]
    <2> SUFFICES ASSUME NEW i \in Items PROVE item[o][i].paid + w[i] <= Qty[i]
        OBVIOUS
    <2>1. item[o][i].paid \in Nat /\ w[i] \in Nat /\ Qty[i] \in Nat
        BY CashAssumption DEF TypeOK, MoneyType, ItemType, SomeUnits
    <2>2. w[i] <= Qty[i] - item[o][i].paid
        BY DEF SplitStarts
    <2> QED
        BY <2>1, <2>2
<1> HIDE DEF rec
<1>5. tx'[t] = rec
    BY <1>1 DEF TypeOK, TransactionType
<1>6. lock'[o] = t
    BY <1>1 DEF Locks, Resources
<1>7. TransactionInv(t)'
    BY <1>1, <1>2, <1>3, <1>4, <1>5, <1>6
       DEF TransactionInv, CreatesInv, PaysInv, RedeemsInv, moneyVars
<1> QED
    BY <1>1, <1>7, LocksKeep, RequestTx

LEMMA RedeemStartsTx ==
    ASSUME TypeOK, TxInv, NEW t \in Txs, NEW o \in Orders, NEW v \in Vouchers,
           NEW k \in Keys, NEW byCash, RedeemStarts(t, o, v, k, byCash)
    PROVE  TxInv'
<1> DEFINE rec == [Idle EXCEPT !.op = "redeemStart", !.order = o, !.voucher = v,
                       !.key = k, !.cash = byCash, !.session = ActiveSession,
                       !.row = order[o], !.items = item[o],
                       !.balance = IF voucher[v].status = "ACTIVE"
                                   THEN voucher[v].balance ELSE 0]
<1>1. tx' = [tx EXCEPT ![t] = rec] /\ UNCHANGED moneyVars /\ UNCHANGED lock
    BY DEF RedeemStarts
<1>2. /\ rec.op = "redeemStart" /\ rec.order = o /\ rec.voucher = v
      /\ rec.key = k /\ rec.row.life # "NONE"
    BY DEF Idle, RedeemStarts, Exists
<1> HIDE DEF rec
<1>3. tx'[t] = rec
    BY <1>1 DEF TypeOK, TransactionType
<1>4. TransactionInv(t)'
    BY <1>2, <1>3 DEF TransactionInv, CreatesInv, PaysInv, RedeemsInv
<1> QED
    BY <1>1, <1>4, RequestTx

LEMMA RedeemLocksOrderTx ==
    ASSUME TypeOK, TxInv, NEW t \in Txs, RedeemLocksOrder(t)
    PROVE  TxInv'
<1> DEFINE o == tx[t].order
<1>1. tx[t].op = "redeemStart" /\ UNCHANGED <<order, item, splitUnits>>
    BY DEF RedeemLocksOrder, moneyVars
<1>2. CASE Ends(t)
    <2>1. TransactionInv(t)'
        BY <1>2, EndsKeep, IdleTx
    <2>2. ASSUME NEW u \in Txs, u # t PROVE TransactionInv(u)'
        BY <1>1, <1>2, <2>2, EndsKeep, TransactionFrame DEF TxInv
    <2> QED
        BY <2>1, <2>2 DEF TxInv
<1>3. CASE /\ OrderUnchanged(t) /\ Outstanding(tx[t].row) > 0
           /\ Locks(t, {o}) /\ tx' = [tx EXCEPT ![t].op = "redeem"]
    <2> DEFINE rec == [tx[t] EXCEPT !.op = "redeem"]
    <2>1. tx' = [tx EXCEPT ![t] = rec]
        BY <1>3 DEF TypeOK, TransactionType
    <2>2. /\ rec.op = "redeem" /\ rec.order = o /\ rec.row = tx[t].row
          /\ rec.voucher = tx[t].voucher /\ rec.key = tx[t].key
        BY RunningType DEF TxType
    <2>3. /\ o \in Orders /\ tx[t].voucher \in Vouchers /\ tx[t].key \in Keys
          /\ tx[t].row.life # "NONE"
        BY <1>1 DEF TxInv, TransactionInv, RedeemsInv
    <2>4. tx[t].row = order[o]
        BY <1>3 DEF OrderUnchanged
    <2>5. tx[t].row.paid < tx[t].row.total
        BY <1>3, RunningType DEF Outstanding, Larger, OrderType
    <2> HIDE DEF rec
    <2>6. tx'[t] = rec
        BY <2>1 DEF TypeOK, TransactionType
    <2>7. lock'[o] = t
        BY <1>3, <2>3 DEF Locks, Resources
    <2>8. TransactionInv(t)'
        BY <1>1, <2>2, <2>3, <2>4, <2>5, <2>6, <2>7
           DEF TransactionInv, CreatesInv, PaysInv, RedeemsInv
    <2> QED
        BY <1>1, <1>3, <2>1, <2>8, LocksKeep, RequestTx DEF moneyVars
<1> QED
    BY <1>2, <1>3 DEF RedeemLocksOrder

(* A payment changes the order it is for and nothing else of the orders.    *)
LEMMA PaysFrame ==
    ASSUME NEW o \in Orders, NEW a, NEW status, MoneyType, Pays(o, a, status)
    PROVE  /\ \A p \in Orders : p # o => order'[p] = order[p]
           /\ order'[o].life = order[o].life /\ order'[o].total = order[o].total
           /\ order'[o].paid = order[o].paid + a
BY DEF Pays, MoneyType, OrderType

LEMMA CommitsTx ==
    ASSUME TypeOK, TxInv, NEW t \in Txs, Commits(t)
    PROVE  TxInv'
<1>1. CASE CreateOrder(t) \/ QuickSale(t)
    <2>1. \A p \in Orders : p # tx[t].order =>
             order'[p] = order[p] /\ item'[p] = item[p]
        BY <1>1 DEF CreateOrder, QuickSale, TypeOK, MoneyType
    <2>2. Ends(t) /\ tx[t].op \in {"create", "quick"}
        BY <1>1 DEF CreateOrder, QuickSale
    <2> QED
        BY <2>1, <2>2, CommitTx
<1>2. CASE AddPayments(t)
    <2>1. tx[t].order \in Orders /\ tx[t].op = "add" /\ Ends(t) /\ UNCHANGED item
        BY <1>2 DEF AddPayments, TxInv, TransactionInv, PaysInv
    <2>2. \A p \in Orders : p # tx[t].order => order'[p] = order[p]
        BY <1>2, <2>1, PaysFrame DEF AddPayments, TypeOK
    <2> QED
        BY <2>1, <2>2, CommitTx
<1>3. CASE SplitPayment(t)
    <2>1. tx[t].order \in Orders /\ tx[t].op = "split" /\ Ends(t)
        BY <1>3 DEF SplitPayment, TxInv, TransactionInv, PaysInv
    <2>2. \A p \in Orders : p # tx[t].order => order'[p] = order[p]
        BY <1>3, <2>1, PaysFrame DEF SplitPayment, TypeOK
    <2>3. \A p \in Orders : p # tx[t].order => item'[p] = item[p]
        BY <1>3, <2>1 DEF SplitPayment, TypeOK, MoneyType
    <2> QED
        BY <2>1, <2>2, <2>3, CommitTx
<1>4. CASE RedeemLocksOrder(t)
    BY <1>4, RedeemLocksOrderTx
<1>5. CASE Redeem(t)
    <2>1. tx[t].order \in Orders /\ tx[t].op = "redeem" /\ Ends(t) /\ UNCHANGED item
        BY <1>5 DEF Redeem, TxInv, TransactionInv, PaysInv
    <2>2. \A p \in Orders : p # tx[t].order => order'[p] = order[p]
        BY <1>5, <2>1, PaysFrame DEF Redeem, TypeOK
    <2> QED
        BY <2>1, <2>2, CommitTx
<1> QED
    BY <1>1, <1>2, <1>3, <1>4, <1>5 DEF Commits

LEMMA TxStep == TypeOK /\ TxInv /\ Next => TxInv'
<1> SUFFICES ASSUME TypeOK, TxInv, Next PROVE TxInv'
    OBVIOUS
<1>1. CASE \E t \in Txs : Commits(t)
    BY <1>1, CommitsTx
<1>2. CASE \E t \in Txs, o \in Orders : Request(t, o)
    BY <1>2, CreateStartsTx, QuickSaleStartsTx, AddStartsTx, SplitStartsTx,
       RedeemStartsTx DEF Request
<1>3. CASE \E o \in Orders : CancelOrder(o) \/ \E i \in Items : CancelOrderItem(o, i)
    <2>1. PICK o \in Orders :
             CancelOrder(o) \/ \E i \in Items : CancelOrderItem(o, i)
        BY <1>3
    <2>2. Exists(o) /\ Free(o) /\ UNCHANGED <<lock, tx>>
        BY <2>1 DEF CancelOrder, CancelOrderItem
    <2>3. \A p \in Orders : p # o => order'[p] = order[p] /\ item'[p] = item[p]
        BY <2>1 DEF CancelOrder, CancelOrderItem, TypeOK, MoneyType
    <2> QED
        BY <2>2, <2>3, CancelTx
<1>4. CASE UNCHANGED <<moneyVars, lock, tx>>
    BY <1>4, TransactionFrame DEF TxInv, moneyVars
<1>5. CASE \E v \in Vouchers : IssueVoucher(v) \/ CancelVoucher(v)
    BY <1>4, <1>5 DEF IssueVoucher, CancelVoucher
<1>6. CASE \E s \in Sessions : StartSession(s) \/ CloseSession(s)
    BY <1>4, <1>6 DEF StartSession, CloseSession
<1> QED
    BY <1>1, <1>2, <1>3, <1>5, <1>6 DEF Next

(***************************************************************************)
(* Units paid by position                                                  *)
(***************************************************************************)

(* Steps that touch neither units nor the life of an order.                *)
LEMMA UnitsFrame ==
    ASSUME UnitsInv, UNCHANGED <<item, splitUnits>>,
           \A o \in Orders : order'[o].life = order[o].life
    PROVE  UnitsInv'
BY DEF UnitsInv

LEMMA CreateUnits ==
    ASSUME IInv, NEW t \in Txs, CreateOrder(t) \/ QuickSale(t)
    PROVE  UnitsInv'
<1> DEFINE o == tx[t].order
<1>1. o \in Orders /\ order[o].life = "NONE"
    BY DEF CreateOrder, QuickSale, IInv, TxInv, TransactionInv, CreatesInv
<1>2. \A i \in Items : Qty[i] \in Nat
    BY CashAssumption
<1>3. /\ \A i \in Items : item'[o][i].paid \in {0, Qty[i]}
      /\ \A p \in Orders : p # o => item'[p] = item[p] /\ order'[p] = order[p]
      /\ order'[o].life # "NONE"
      /\ UNCHANGED splitUnits
    BY <1>1 DEF CreateOrder, QuickSale, IInv, TypeOK, MoneyType
<1>4. \A i \in Items : splitUnits[o][i] = 0
    BY <1>1 DEF IInv, UnitsInv
<1> HIDE DEF o
<1>5. ASSUME NEW p \in Orders, NEW i \in Items
      PROVE  /\ splitUnits'[p][i] <= item'[p][i].paid
             /\ item'[p][i].paid <= Qty[i]
             /\ order'[p].life = "NONE" => splitUnits'[p][i] = 0
    <2>1. CASE p = o
        BY <1>2, <1>3, <1>4, <2>1
    <2>2. CASE p # o
        BY <1>3, <2>2 DEF IInv, UnitsInv
    <2> QED
        BY <2>1, <2>2
<1> QED
    BY <1>5 DEF UnitsInv

LEMMA SplitUnits ==
    ASSUME IInv, NEW t \in Txs, SplitPayment(t)
    PROVE  UnitsInv'
<1> DEFINE o == tx[t].order
<1>1. /\ o \in Orders /\ order[o].life # "NONE" /\ tx[t].items = item[o]
      /\ \A i \in Items : tx[t].items[i].paid + tx[t].units[i] <= Qty[i]
    BY DEF SplitPayment, IInv, TxInv, TransactionInv, PaysInv
<1>2. \A p \in Orders : order'[p].life = order[p].life
    BY <1>1, PaysFrame DEF SplitPayment, IInv, TypeOK
<1>3. \A p \in Orders : p # o =>
         item'[p] = item[p] /\ splitUnits'[p] = splitUnits[p]
    BY <1>1 DEF SplitPayment, IInv, TypeOK, MoneyType
<1>4. ASSUME NEW i \in Items
      PROVE  /\ item[o][i].paid \in Nat /\ tx[t].units[i] \in Nat
             /\ item'[o][i].paid = item[o][i].paid + tx[t].units[i]
             /\ splitUnits'[o][i] = splitUnits[o][i] + tx[t].units[i]
             /\ splitUnits[o][i] \in Nat
    <2>1. item[o][i] \in ItemType /\ tx[t].units[i] \in Nat
        BY <1>1, RunningType DEF IInv, TypeOK, MoneyType
    <2>2. item'[o][i] = IF tx[t].units[i] > 0
                        THEN [item[o][i] EXCEPT !.paid = PaidAfter(t)[i]]
                        ELSE item[o][i]
        BY <1>1 DEF SplitPayment, IInv, TypeOK, MoneyType
    <2>3. PaidAfter(t)[i] = item[o][i].paid + tx[t].units[i]
        BY <1>1 DEF PaidAfter
    <2>4. splitUnits'[o][i] = splitUnits[o][i] + tx[t].units[i]
        BY <1>1 DEF SplitPayment, IInv, TypeOK, MoneyType
    <2>5. splitUnits[o][i] \in Nat
        BY <1>1 DEF IInv, TypeOK, MoneyType
    <2> QED
        BY <2>1, <2>2, <2>3, <2>4, <2>5 DEF ItemType
<1> HIDE DEF o
<1>5. ASSUME NEW p \in Orders, NEW i \in Items
      PROVE  /\ splitUnits'[p][i] <= item'[p][i].paid
             /\ item'[p][i].paid <= Qty[i]
             /\ order'[p].life = "NONE" => splitUnits'[p][i] = 0
    <2>1. CASE p = o
        BY <1>1, <1>2, <1>4, <2>1 DEF IInv, UnitsInv
    <2>2. CASE p # o
        BY <1>2, <1>3, <2>2 DEF IInv, UnitsInv
    <2> QED
        BY <2>1, <2>2
<1> QED
    BY <1>5 DEF UnitsInv

LEMMA CancelUnits ==
    ASSUME IInv, NEW o \in Orders,
           CancelOrder(o) \/ \E i \in Items : CancelOrderItem(o, i)
    PROVE  UnitsInv'
<1>1. \A p \in Orders, i \in Items : item[p][i] \in ItemType
    BY DEF IInv, TypeOK, MoneyType
<1>2. \A p \in Orders, i \in Items : item'[p][i].paid = item[p][i].paid
    <2>1. CASE CancelOrder(o)
        BY <1>1, <2>1 DEF CancelOrder, IInv, TypeOK, MoneyType, ItemType
    <2>2. ASSUME NEW j \in Items, CancelOrderItem(o, j)
          PROVE  \A p \in Orders, i \in Items : item'[p][i].paid = item[p][i].paid
        <3>1. item' = [item EXCEPT ![o] =
                  [item[o] EXCEPT ![j] = [item[o][j] EXCEPT !.cancelled = TRUE]]]
            BY <2>2 DEF CancelOrderItem, IInv, TypeOK, MoneyType
        <3>2. [item[o][j] EXCEPT !.cancelled = TRUE].paid = item[o][j].paid
            BY <1>1 DEF ItemType
        <3>3. item[o] \in [Items -> ItemType] /\ item \in [Orders -> [Items -> ItemType]]
            BY DEF IInv, TypeOK, MoneyType
        <3> QED
            BY <3>1, <3>2, <3>3
    <2> QED
        BY <2>1, <2>2
<1>3. order[o].life # "NONE" /\ UNCHANGED splitUnits
    BY DEF CancelOrder, CancelOrderItem, Exists
<1>4. \A p \in Orders : order'[p].life = "NONE" => order[p].life = "NONE"
    <2>1. \A p \in Orders : p # o => order'[p] = order[p]
        BY DEF CancelOrder, CancelOrderItem, IInv, TypeOK, MoneyType
    <2>2. order'[o].life # "NONE"
        <3>1. order[o] \in OrderType /\ order \in [Orders -> OrderType]
            BY DEF IInv, TypeOK, MoneyType
        <3>2. CASE CancelOrder(o)
            BY <3>1, <3>2 DEF CancelOrder, OrderType
        <3>3. ASSUME NEW j \in Items, CancelOrderItem(o, j)
              PROVE  order'[o].life # "NONE"
            <4>1. PICK total, life :
                     /\ order' = [order EXCEPT ![o] =
                           [order[o] EXCEPT !.total = total, !.life = life]]
                     /\ life \in {"CANCELLED", order[o].life}
                BY <3>3 DEF CancelOrderItem
            <4>2. [order[o] EXCEPT !.total = total, !.life = life].life = life
                BY <3>1 DEF OrderType
            <4> QED
                BY <1>3, <3>1, <4>1, <4>2
        <3> QED
            BY <3>2, <3>3
    <2> QED
        BY <2>1, <2>2
<1> QED
    BY <1>2, <1>3, <1>4 DEF IInv, UnitsInv

LEMMA UnitsStep == IInv /\ Next => UnitsInv'
<1> SUFFICES ASSUME IInv, Next PROVE UnitsInv'
    OBVIOUS
<1>1. CASE UNCHANGED moneyVars
    BY <1>1, UnitsFrame DEF IInv, moneyVars
<1>2. ASSUME NEW t \in Txs, Commits(t) PROVE UnitsInv'
    <2>1. CASE CreateOrder(t) \/ QuickSale(t)
        BY <2>1, CreateUnits
    <2>2. CASE AddPayments(t)
        <3>1. tx[t].order \in Orders
            BY <2>2 DEF AddPayments, IInv, TxInv, TransactionInv, PaysInv
        <3>2. \A p \in Orders : order'[p].life = order[p].life
            BY <2>2, <3>1, PaysFrame DEF AddPayments, IInv, TypeOK
        <3> QED
            BY <2>2, <3>2, UnitsFrame DEF AddPayments, IInv
    <2>3. CASE SplitPayment(t)
        BY <2>3, SplitUnits
    <2>4. CASE RedeemLocksOrder(t)
        BY <1>1, <2>4 DEF RedeemLocksOrder
    <2>5. CASE Redeem(t)
        <3>1. tx[t].order \in Orders
            BY <2>5 DEF Redeem, IInv, TxInv, TransactionInv, PaysInv
        <3>2. \A p \in Orders : order'[p].life = order[p].life
            BY <2>5, <3>1, PaysFrame DEF Redeem, IInv, TypeOK
        <3> QED
            BY <2>5, <3>2, UnitsFrame DEF Redeem, IInv
    <2> QED
        BY <1>2, <2>1, <2>2, <2>3, <2>4, <2>5 DEF Commits
<1>3. ASSUME NEW t \in Txs, NEW o \in Orders, Request(t, o) PROVE UnitsInv'
    BY <1>1, <1>3 DEF Request, CreateStarts, QuickSaleStarts, AddStarts,
       SplitStarts, RedeemStarts
<1>4. CASE \E o \in Orders : CancelOrder(o) \/ \E i \in Items : CancelOrderItem(o, i)
    BY <1>4, CancelUnits
<1>5. CASE \E v \in Vouchers : IssueVoucher(v) \/ CancelVoucher(v)
    BY <1>1, <1>5 DEF IssueVoucher, CancelVoucher
<1>6. CASE \E s \in Sessions : StartSession(s) \/ CloseSession(s)
    BY <1>1, <1>6 DEF StartSession, CloseSession
<1> QED
    BY <1>2, <1>3, <1>4, <1>5, <1>6 DEF Next

(***************************************************************************)
(* Vouchers                                                                *)
(***************************************************************************)

(* VouchersConserved for one voucher.                                      *)
Conserved(v) ==
    CASE voucher[v].status = "NONE"      -> spent[v] = 0
      [] voucher[v].status = "CANCELLED" -> spent[v] = 0
      [] OTHER -> voucher[v].balance + spent[v] = Value

LEMMA ConservedAll == VouchersConserved <=> \A v \in Vouchers : Conserved(v)
BY DEF VouchersConserved, Conserved

LEMMA RedeemConserves ==
    ASSUME IInv, NEW t \in Txs, Redeem(t)
    PROVE  VouchersConserved'
<1> DEFINE due  == Outstanding(tx[t].row)
           part == Smaller(tx[t].balance, due)
           left == tx[t].balance - part
<1>1. CASE UNCHANGED voucherVars
    BY <1>1 DEF IInv, VouchersConserved, voucherVars
<1>2. CASE VoucherUnchanged(t) /\ tx[t].key \notin booked
    <2>1. PICK v \in Vouchers : v = tx[t].voucher
        BY DEF Redeem, IInv, TxInv, TransactionInv, RedeemsInv
    <2>2. part \in Nat /\ left \in Nat /\ tx[t].balance \in Nat
        BY RedeemedType, RunningType DEF IInv
    <2>3. /\ voucher' = [voucher EXCEPT ![v] =
                [status |-> IF left = 0 THEN "DEPLETED" ELSE "ACTIVE",
                 balance |-> left]]
          /\ spent' = [spent EXCEPT ![v] = spent[v] + part]
        BY <1>2, <2>1 DEF Redeem
    <2>4. voucher[v] = [status |-> "ACTIVE", balance |-> tx[t].balance]
        BY <1>2, <2>1 DEF VoucherUnchanged
    <2>5. left = tx[t].balance - part
        OBVIOUS
    <2> HIDE DEF due, part, left
    <2>6. /\ voucher \in [Vouchers -> VoucherType]
          /\ spent \in [Vouchers -> Nat]
        BY DEF IInv, TypeOK, VouchersType
    <2>7. tx[t].balance + spent[v] = Value
        BY <2>1, <2>4, ConservedAll DEF IInv, Conserved
    <2>8. Conserved(v)'
        <3>1. /\ voucher'[v].status \in {"DEPLETED", "ACTIVE"}
              /\ voucher'[v].balance = left /\ spent'[v] = spent[v] + part
            BY <2>1, <2>3, <2>6
        <3>2. left + (spent[v] + part) = Value
            BY <2>1, <2>2, <2>5, <2>6, <2>7
        <3> QED
            BY <3>1, <3>2 DEF Conserved
    <2>9. ASSUME NEW w \in Vouchers, w # v PROVE Conserved(w)'
        <3>1. voucher'[w] = voucher[w] /\ spent'[w] = spent[w]
            BY <2>1, <2>3, <2>6, <2>9
        <3> QED
            BY <3>1, ConservedAll DEF IInv, Conserved
    <2>10. \A w \in Vouchers : Conserved(w)'
        BY <2>8, <2>9
    <2> QED
        BY <2>10 DEF VouchersConserved, Conserved
<1> QED
    BY <1>1, <1>2 DEF Redeem

LEMMA IssueConserves ==
    ASSUME IInv, NEW v \in Vouchers, IssueVoucher(v) \/ CancelVoucher(v)
    PROVE  VouchersConserved'
<1>1. /\ voucher \in [Vouchers -> VoucherType] /\ spent \in [Vouchers -> Nat]
      /\ Value \in Nat
    BY CashAssumption DEF IInv, TypeOK, VouchersType
<1>2. spent' = spent /\ spent[v] = 0
    <2>1. CASE IssueVoucher(v)
        BY <2>1, ConservedAll DEF IssueVoucher, IInv, Conserved
    <2>2. CASE CancelVoucher(v)
        BY <1>1, <2>2, ConservedAll DEF CancelVoucher, IInv, Conserved
    <2> QED
        BY <2>1, <2>2
<1>3. Conserved(v)'
    BY <1>1, <1>2 DEF IssueVoucher, CancelVoucher, Conserved
<1>4. ASSUME NEW w \in Vouchers, w # v PROVE Conserved(w)'
    <2>1. voucher'[w] = voucher[w]
        BY <1>1, <1>4 DEF IssueVoucher, CancelVoucher
    <2> QED
        BY <1>2, <2>1, ConservedAll DEF IInv, Conserved
<1>5. \A w \in Vouchers : Conserved(w)'
    BY <1>3, <1>4
<1> QED
    BY <1>5 DEF VouchersConserved, Conserved

LEMMA VoucherStep == IInv /\ Next => VouchersConserved'
<1> SUFFICES ASSUME IInv, Next PROVE VouchersConserved'
    OBVIOUS
<1>1. CASE UNCHANGED voucherVars
    BY <1>1 DEF IInv, VouchersConserved, voucherVars
<1>2. ASSUME NEW t \in Txs, Commits(t) PROVE VouchersConserved'
    <2>1. CASE Redeem(t)
        BY <2>1, RedeemConserves
    <2>2. CASE ~Redeem(t)
        BY <1>1, <1>2, <2>2 DEF Commits, CreateOrder, QuickSale, AddPayments,
           SplitPayment, RedeemLocksOrder
    <2> QED
        BY <2>1, <2>2
<1>3. ASSUME NEW t \in Txs, NEW o \in Orders, Request(t, o)
      PROVE  VouchersConserved'
    BY <1>1, <1>3 DEF Request, CreateStarts, QuickSaleStarts, AddStarts,
       SplitStarts, RedeemStarts
<1>4. CASE \E o \in Orders : CancelOrder(o) \/ \E i \in Items : CancelOrderItem(o, i)
    BY <1>1, <1>4 DEF CancelOrder, CancelOrderItem
<1>5. CASE \E v \in Vouchers : IssueVoucher(v) \/ CancelVoucher(v)
    BY <1>5, IssueConserves
<1>6. CASE \E s \in Sessions : StartSession(s) \/ CloseSession(s)
    BY <1>1, <1>6 DEF StartSession, CloseSession
<1> QED
    BY <1>2, <1>3, <1>4, <1>5, <1>6 DEF Next

(***************************************************************************)
(* Orders that are PAID are covered                                        *)
(*                                                                         *)
(* The total never exceeds what the positions cost and never falls below    *)
(* what the positions that are left cost less the refund, so that           *)
(* cancelling a position never raises it.  While an order is not PAID, its   *)
(* payments are worth at least the units marked as paid: the payment by      *)
(* position that marks the last of them has covered them all.              *)
(***************************************************************************)

(* The units of an order that are not cancelled, and those marked as paid.  *)
Left(o)   == [i \in Items |-> IF item[o][i].cancelled THEN 0 ELSE Qty[i]]
Marked(o) == [i \in Items |-> item[o][i].paid]

OrderCovered(o) ==
    Exists(o) =>
        /\ order[o].total <= Gross
        /\ Worth(Left(o)) <= order[o].total + order[o].refund
        /\ order[o].pay = "PAID" => order[o].total <= order[o].paid
        /\ order[o].pay # "PAID" => Worth(Marked(o)) <= order[o].paid

(* A payment is under way only for an order that is not PAID; one by         *)
(* position is worth its units.                                            *)
Unsettled(t) ==
    /\ tx[t].op \in {"add", "split"} => order[tx[t].order].pay # "PAID"
    /\ tx[t].op = "split" => tx[t].amount = Worth(tx[t].units)

CoverInv == /\ \A o \in Orders : OrderCovered(o)
            /\ \A t \in Txs : Unsettled(t)

NoUnits == [i \in Items |-> 0]

LEMMA WorthOfNothing == Worth(NoUnits) = 0
<1>1. NoUnits \in [Items -> Nat] /\ \A i \in Items : NoUnits[i] = NoUnits[i] + NoUnits[i]
    BY DEF NoUnits
<1>2. Worth(NoUnits) = Worth(NoUnits) + Worth(NoUnits) /\ Worth(NoUnits) \in Nat
    BY <1>1, WorthAdds, WorthNat
<1>3. \A n \in Nat : n = n + n => n = 0
    OBVIOUS
<1> HIDE DEF NoUnits
<1> QED
    BY <1>2, <1>3

LEMMA QtyNat == Qty \in [Items -> Nat] /\ Gross \in Nat
BY CashAssumption, GrossType

LEMMA MarkedType ==
    ASSUME MoneyType, NEW o \in Orders
    PROVE  Marked(o) \in [Items -> Nat] /\ Left(o) \in [Items -> Nat]
BY QtyNat DEF MoneyType, ItemType, Marked, Left

LEMMA OrderNats ==
    ASSUME MoneyType, NEW o \in Orders
    PROVE  /\ order[o].total \in Nat /\ order[o].refund \in Nat
           /\ order[o].paid \in Nat
BY DEF MoneyType, OrderType

(* An order that a step leaves alone stays covered.                        *)
LEMMA CoverFrame ==
    ASSUME NEW o \in Orders, OrderCovered(o), order'[o] = order[o],
           item'[o] = item[o]
    PROVE  OrderCovered(o)'
<1>1. Left(o)' = Left(o) /\ Marked(o)' = Marked(o)
    BY DEF Left, Marked
<1> QED
    BY <1>1 DEF OrderCovered, Exists

(* What a payment writes.                                                  *)
LEMMA PaysWrites ==
    ASSUME NEW o \in Orders, NEW a, NEW status, MoneyType, Pays(o, a, status)
    PROVE  /\ \A p \in Orders : p # o => order'[p] = order[p]
           /\ order'[o].life = order[o].life /\ order'[o].total = order[o].total
           /\ order'[o].refund = order[o].refund /\ order'[o].pay = status
           /\ order'[o].paid = order[o].paid + a
BY DEF Pays, MoneyType, OrderType

(* A payment that is not by position: the order was not PAID, and is only    *)
(* when the payment covers the rest.                                       *)
LEMMA PaymentCovered ==
    ASSUME MoneyType, NEW o \in Orders, OrderCovered(o), Exists(o),
           order[o].pay # "PAID", NEW a \in Nat, NEW status,
           Pays(o, a, status), item'[o] = item[o],
           status = "PAID" => order[o].total <= order[o].paid + a
    PROVE  OrderCovered(o)'
<1>1. Left(o)' = Left(o) /\ Marked(o)' = Marked(o)
    BY DEF Left, Marked
<1>2. Worth(Marked(o)) \in Nat
    BY MarkedType, WorthNat
<1> QED
    BY <1>1, <1>2, PaysWrites, OrderNats DEF OrderCovered, Exists

LEMMA AddCovered ==
    ASSUME IInv, CoverInv, NEW t \in Txs, AddPayments(t), NEW o \in Orders
    PROVE  OrderCovered(o)'
<1>1. /\ PaysInv(t) /\ Unsettled(t) /\ OrderCovered(o) /\ MoneyType
      /\ tx[t].op = "add" /\ UNCHANGED item
    BY DEF IInv, TypeOK, TxInv, TransactionInv, CoverInv, AddPayments
<1>2. /\ tx[t].order \in Orders /\ tx[t].row = order[tx[t].order]
      /\ Exists(tx[t].order) /\ order[tx[t].order].pay # "PAID"
    BY <1>1 DEF PaysInv, Unsettled, Exists
<1>3. tx[t].amount \in Nat
    BY RunningType DEF IInv, TypeOK
<1> DEFINE status == IF tx[t].row.paid + tx[t].amount >= tx[t].row.total
                     THEN "PAID" ELSE "PARTIALLY_PAID"
<1>4. Pays(tx[t].order, tx[t].amount, status)
    BY DEF AddPayments
<1>5. CASE o = tx[t].order
    <2>1. status = "PAID" => order[o].total <= order[o].paid + tx[t].amount
        BY <1>1, <1>2, <1>3, <1>5, OrderNats
    <2> HIDE DEF status
    <2> QED
        BY <1>1, <1>2, <1>3, <1>4, <1>5, <2>1, PaymentCovered
<1>6. CASE o # tx[t].order
    <2>1. order'[o] = order[o]
        BY <1>1, <1>2, <1>4, <1>6, PaysFrame
    <2> QED
        BY <1>1, <2>1, CoverFrame
<1> QED
    BY <1>5, <1>6

LEMMA RedeemCovered ==
    ASSUME IInv, CoverInv, NEW t \in Txs, Redeem(t), NEW o \in Orders
    PROVE  OrderCovered(o)'
<1>1. /\ PaysInv(t) /\ OrderCovered(o) /\ MoneyType
      /\ tx[t].op = "redeem" /\ UNCHANGED item
    BY DEF IInv, TypeOK, TxInv, TransactionInv, CoverInv, Redeem
<1>2. /\ tx[t].order \in Orders /\ tx[t].row = order[tx[t].order]
      /\ Exists(tx[t].order) /\ tx[t].row.paid < tx[t].row.total
    BY <1>1 DEF PaysInv, Exists
<1> DEFINE due    == Outstanding(tx[t].row)
           status == IF tx[t].row.paid + due = tx[t].row.total
                     THEN "PAID" ELSE "PARTIALLY_PAID"
<1>3. CASE UNCHANGED order
    BY <1>1, <1>3, CoverFrame
<1>4. CASE Pays(tx[t].order, due, status)
    <2>1. CASE o = tx[t].order
        <3>1. tx[t].row \in OrderType /\ due \in Nat
            BY <1>1, <1>2, OutstandingType DEF MoneyType
        <3>2. order[o].paid + due = order[o].total
            BY <1>2, <2>1, <3>1, OutstandingType
        <3>3. order[o].pay # "PAID"
            BY <1>1, <1>2, <2>1, OrderNats DEF OrderCovered
        <3>4. status = "PAID" => order[o].total <= order[o].paid + due
            BY <1>1, <3>1, <3>2, OrderNats
        <3> HIDE DEF due, status
        <3> QED
            BY <1>1, <1>2, <1>4, <2>1, <3>1, <3>3, <3>4, PaymentCovered
    <2>2. CASE o # tx[t].order
        <3>1. order'[o] = order[o]
            BY <1>1, <1>2, <1>4, <2>2, PaysFrame
        <3> QED
            BY <1>1, <3>1, CoverFrame
    <2> QED
        BY <2>1, <2>2
<1> QED
    BY <1>3, <1>4 DEF Redeem

LEMMA CreateCovered ==
    ASSUME IInv, CoverInv, NEW t \in Txs, CreateOrder(t) \/ QuickSale(t),
           NEW o \in Orders
    PROVE  OrderCovered(o)'
<1> DEFINE n == tx[t].order
<1>1. /\ CreatesInv(t) /\ OrderCovered(o) /\ MoneyType
      /\ tx[t].op \in {"create", "quick"} /\ n \in Orders
    BY DEF IInv, TypeOK, TxInv, TransactionInv, CoverInv, CreatesInv,
           CreateOrder, QuickSale
<1>2. CASE o = n
    <2>1. /\ item'[o] \in [Items -> ItemType]
          /\ \A i \in Items : item'[o][i].cancelled = FALSE
          /\ order'[o].pay # "PAID" => \A i \in Items : item'[o][i].paid = 0
        <3>1. CASE CreateOrder(t)
            <4> DEFINE pay == StatusOnCreate(tx[t].amount, Gross - tx[t].refund)
            <4>1. order'[o].pay = pay
                BY <1>1, <1>2, <3>1 DEF CreateOrder, MoneyType
            <4>2. item'[o] = [i \in Items |->
                                [paid |-> IF pay = "PAID" THEN Qty[i] ELSE 0,
                                 cancelled |-> FALSE]]
                BY <1>1, <1>2, <3>1 DEF CreateOrder, MoneyType
            <4> HIDE DEF pay
            <4> QED
                BY <4>1, <4>2, QtyNat DEF ItemType
        <3>2. CASE QuickSale(t)
            <4>1. order'[o].pay = "PAID"
                BY <1>1, <1>2, <3>2 DEF QuickSale, MoneyType
            <4>2. item'[o] = [i \in Items |->
                                [paid |-> Qty[i], cancelled |-> FALSE]]
                BY <1>1, <1>2, <3>2 DEF QuickSale, MoneyType
            <4> QED
                BY <4>1, <4>2, QtyNat DEF ItemType
        <3> QED
            BY <3>1, <3>2
    <2>2. Left(o)' = Qty
        BY <2>1, QtyNat DEF Left
    <2>3. order'[o].pay # "PAID" => Marked(o)' = NoUnits
        BY <2>1 DEF Marked, NoUnits
    <2>4. /\ tx[t].refund \in Nat /\ tx[t].amount \in Nat
        BY RunningType DEF IInv, TypeOK
    <2>5. /\ order'[o].total \in Nat /\ order'[o].paid \in Nat
          /\ order'[o].total <= Gross
          /\ Gross <= order'[o].total + order'[o].refund
          /\ order'[o].pay = "PAID" => order'[o].total <= order'[o].paid
        <3>1. CASE CreateOrder(t)
            <4>1. tx[t].refund <= Gross
                BY <1>1, <3>1 DEF CreatesInv, CreateOrder
            <4>2. /\ order'[o].total = Gross - tx[t].refund
                  /\ order'[o].refund = tx[t].refund
                  /\ order'[o].paid = tx[t].amount
                  /\ order'[o].pay = StatusOnCreate(tx[t].amount, Gross - tx[t].refund)
                BY <1>1, <1>2, <3>1 DEF CreateOrder, MoneyType
            <4> QED
                BY <2>4, <4>1, <4>2, QtyNat DEF StatusOnCreate
        <3>2. CASE QuickSale(t)
            <4>1. /\ order'[o].total = Larger(0, Gross - tx[t].refund)
                  /\ order'[o].refund = tx[t].refund
                  /\ order'[o].paid = Larger(0, Gross - tx[t].refund)
                                        + Larger(0, tx[t].refund - Gross)
                BY <1>1, <1>2, <3>2 DEF QuickSale, MoneyType
            <4> QED
                BY <2>4, <4>1, QtyNat DEF Larger
        <3> QED
            BY <3>1, <3>2
    <2> QED
        BY <2>2, <2>3, <2>5, WorthOfNothing DEF OrderCovered, Gross
<1>3. CASE o # n
    <2>1. order'[o] = order[o] /\ item'[o] = item[o]
        BY <1>1, <1>3 DEF CreateOrder, QuickSale, MoneyType
    <2> QED
        BY <1>1, <2>1, CoverFrame
<1> QED
    BY <1>2, <1>3

(* A payment by position adds what its units are worth to the payments and   *)
(* its units to those marked; when all are marked, all are paid for.       *)
LEMMA SplitCovered ==
    ASSUME IInv, CoverInv, NEW t \in Txs, SplitPayment(t), NEW o \in Orders
    PROVE  OrderCovered(o)'
<1> DEFINE n == tx[t].order
<1>1. /\ PaysInv(t) /\ Unsettled(t) /\ OrderCovered(o) /\ MoneyType /\ MoneyType'
      /\ tx[t].op = "split"
    BY SplitPaymentType DEF IInv, TypeOK, TxInv, TransactionInv, CoverInv,
       SplitPayment
<1>2. /\ n \in Orders /\ tx[t].items = item[n] /\ Exists(n)
      /\ order[n].pay # "PAID" /\ tx[t].amount = Worth(tx[t].units)
    BY <1>1 DEF PaysInv, Unsettled, Exists
<1>3. tx[t].units \in [Items -> Nat]
    BY RunningType, CashAssumption DEF IInv, TypeOK
<1> DEFINE status == IF AllItemsFullyPaid(t) THEN "PAID" ELSE "PARTIALLY_PAID"
<1>4. Pays(n, tx[t].amount, status)
    BY DEF SplitPayment
<1>5. CASE o = n
    <2>1. \A i \in Items :
             /\ item[o][i] \in ItemType
             /\ item'[o][i] = IF tx[t].units[i] > 0
                              THEN [item[o][i] EXCEPT !.paid = PaidAfter(t)[i]]
                              ELSE item[o][i]
             /\ PaidAfter(t)[i] = item[o][i].paid + tx[t].units[i]
        BY <1>1, <1>2, <1>5 DEF SplitPayment, PaidAfter, MoneyType
    <2>2. \A i \in Items :
             /\ item'[o][i].cancelled = item[o][i].cancelled
             /\ item'[o][i].paid = item[o][i].paid + tx[t].units[i]
             /\ item'[o][i].paid = PaidAfter(t)[i]
        <3> SUFFICES ASSUME NEW i \in Items
                     PROVE  /\ item'[o][i].cancelled = item[o][i].cancelled
                            /\ item'[o][i].paid = item[o][i].paid + tx[t].units[i]
                            /\ item'[o][i].paid = PaidAfter(t)[i]
            OBVIOUS
        <3>1. item[o][i].paid \in Nat /\ tx[t].units[i] \in Nat
            BY <1>3, <2>1 DEF ItemType
        <3>2. CASE tx[t].units[i] > 0
            <4>1. item'[o][i] = [item[o][i] EXCEPT !.paid = PaidAfter(t)[i]]
                BY <2>1, <3>2
            <4>2. item[o][i] \in ItemType
                BY <2>1
            <4>3. /\ item'[o][i].cancelled = item[o][i].cancelled
                  /\ item'[o][i].paid = PaidAfter(t)[i]
                BY <4>1, <4>2 DEF ItemType
            <4> QED
                BY <2>1, <4>3
        <3>3. CASE tx[t].units[i] = 0
            <4>1. ~(tx[t].units[i] > 0)
                BY <3>3
            <4>2. item'[o][i] = item[o][i]
                BY <2>1, <4>1
            <4>3. item[o][i].paid + tx[t].units[i] = item[o][i].paid
                BY <3>1, <3>3
            <4> QED
                BY <2>1, <4>2, <4>3
        <3> QED
            BY <3>1, <3>2, <3>3
    <2>3. Left(o)' = Left(o)
        BY <2>2 DEF Left
    <2>4. \A i \in Items : Marked(o)'[i] = Marked(o)[i] + tx[t].units[i]
        BY <2>2 DEF Marked
    <2>5. Marked(o) \in [Items -> Nat] /\ Marked(o)' \in [Items -> Nat]
        BY <1>1, MarkedType, <2>1, <2>2, <1>3 DEF Marked, ItemType
    <2>6. Worth(Marked(o)') = Worth(Marked(o)) + tx[t].amount
        BY <1>2, <1>3, <2>4, <2>5, WorthAdds
    <2>7. Worth(Marked(o)') <= order[o].paid + tx[t].amount
        <3>1. Worth(Marked(o)) <= order[o].paid
            BY <1>1, <1>2, <1>5 DEF OrderCovered
        <3>2. Worth(Marked(o)) \in Nat /\ tx[t].amount \in Nat
            BY <1>2, <1>3, <2>5, WorthNat
        <3> QED
            BY <1>1, <2>6, <3>1, <3>2, OrderNats
    <2>8. AllItemsFullyPaid(t) => Gross <= Worth(Marked(o)')
        <3> SUFFICES ASSUME AllItemsFullyPaid(t)
                     PROVE  \A i \in Items : Qty[i] <= Marked(o)'[i]
            BY <2>5, QtyNat, WorthGrows DEF Gross
        <3> SUFFICES ASSUME NEW i \in Items PROVE Qty[i] <= Marked(o)'[i]
            OBVIOUS
        <3>1. Marked(o)'[i] = PaidAfter(t)[i] /\ Marked(o)'[i] \in Nat
            BY <2>2, <2>5 DEF Marked
        <3>2. PaidAfter(t)[i] >= Qty[i] /\ Qty[i] \in Nat
            BY QtyNat DEF AllItemsFullyPaid
        <3> QED
            BY <3>1, <3>2
    <2>9. /\ order'[o].life = order[o].life /\ order'[o].total = order[o].total
          /\ order'[o].refund = order[o].refund /\ order'[o].pay = status
          /\ order'[o].paid = order[o].paid + tx[t].amount
        BY <1>1, <1>2, <1>4, <1>5, PaysWrites
    <2>10. order'[o].pay = "PAID" => AllItemsFullyPaid(t)
        BY <2>9
    <2>11. order'[o].pay = "PAID" => order'[o].total <= order'[o].paid
        <3>1. Worth(Marked(o)') \in Nat /\ order[o].total <= Gross
            BY <1>1, <1>2, <1>5, <2>5, WorthNat DEF OrderCovered
        <3>2. order'[o].paid \in Nat /\ order[o].total \in Nat
            BY <1>1, OrderNats DEF MoneyType, OrderType
        <3> QED
            BY <2>7, <2>8, <2>9, <2>10, <3>1, <3>2, QtyNat
    <2> QED
        BY <1>1, <1>2, <1>5, <2>3, <2>7, <2>9, <2>11 DEF OrderCovered, Exists
<1>6. CASE o # n
    <2>1. order'[o] = order[o]
        BY <1>1, <1>2, <1>4, <1>6, PaysFrame
    <2>2. item'[o] = item[o]
        BY <1>1, <1>2, <1>6 DEF SplitPayment, MoneyType
    <2> QED
        BY <1>1, <2>1, <2>2, CoverFrame
<1> QED
    BY <1>5, <1>6

LEMMA CancelOrderCovered ==
    ASSUME IInv, CoverInv, NEW n \in Orders, CancelOrder(n), NEW o \in Orders
    PROVE  OrderCovered(o)'
<1>1. OrderCovered(o) /\ MoneyType
    BY DEF IInv, TypeOK, CoverInv
<1>2. CASE o = n
    <2>1. \A i \in Items : item[o][i] \in ItemType
        BY <1>1 DEF MoneyType
    <2>2. \A i \in Items :
             item'[o][i].cancelled = TRUE /\ item'[o][i].paid = item[o][i].paid
        BY <1>1, <1>2, <2>1 DEF CancelOrder, MoneyType, ItemType
    <2>3. Left(o)' = NoUnits /\ Marked(o)' = Marked(o)
        BY <2>2 DEF Left, Marked, NoUnits
    <2>4. /\ order'[o].total = order[o].total /\ order'[o].paid = order[o].paid
          /\ order'[o].refund = order[o].refund /\ order'[o].pay = order[o].pay
          /\ Exists(o)
        BY <1>1, <1>2 DEF CancelOrder, MoneyType, OrderType
    <2> QED
        BY <1>1, <2>3, <2>4, WorthOfNothing, OrderNats DEF OrderCovered
<1>3. CASE o # n
    <2>1. order'[o] = order[o] /\ item'[o] = item[o]
        BY <1>1, <1>3 DEF CancelOrder, MoneyType
    <2> QED
        BY <1>1, <2>1, CoverFrame
<1> QED
    BY <1>2, <1>3

(* Fewer positions are left, which never raises the total.                 *)
LEMMA CancelItemCovered ==
    ASSUME IInv, CoverInv, NEW n \in Orders, NEW j \in Items,
           CancelOrderItem(n, j), NEW o \in Orders
    PROVE  OrderCovered(o)'
<1>1. OrderCovered(o) /\ MoneyType
    BY DEF IInv, TypeOK, CoverInv
<1>2. CASE o = n
    <2> DEFINE rest  == {i \in Items \ {j} : ~item[o][i].cancelled}
               kept  == [i \in Items |-> IF i \in rest THEN Qty[i] ELSE 0]
               total == Larger(0, Worth(kept) - order[o].refund)
    <2>1. /\ \A i \in Items : item[o][i] \in ItemType
          /\ order[o] \in OrderType
        BY <1>1 DEF MoneyType
    <2>2. item'[o] = [item[o] EXCEPT ![j] = [item[o][j] EXCEPT !.cancelled = TRUE]]
        BY <1>1, <1>2 DEF CancelOrderItem, MoneyType
    <2>3. \A i \in Items :
             /\ item'[o][i].paid = item[o][i].paid
             /\ item'[o][i].cancelled = (item[o][i].cancelled \/ i = j)
        <3>1. [item[o][j] EXCEPT !.cancelled = TRUE].cancelled = TRUE
            BY <2>1 DEF ItemType
        <3>2. [item[o][j] EXCEPT !.cancelled = TRUE].paid = item[o][j].paid
            BY <2>1 DEF ItemType
        <3>3. item[o] \in [Items -> ItemType]
            BY <1>1 DEF MoneyType
        <3>4. \A i \in Items : item[o][i].cancelled \in BOOLEAN
            BY <2>1 DEF ItemType
        <3> QED
            BY <2>2, <3>1, <3>2, <3>3, <3>4
    <2>4. Marked(o)' = Marked(o)
        BY <2>3 DEF Marked
    <2>5. Left(o)' = kept
        BY <2>3 DEF Left
    <2>6. order'[o] = [order[o] EXCEPT !.total = total,
                          !.life = IF rest = {} THEN "CANCELLED" ELSE order[o].life]
        BY <1>1, <1>2 DEF CancelOrderItem, MoneyType
    <2>7. kept \in [Items -> Nat] /\ \A i \in Items : kept[i] <= Left(o)[i]
        BY QtyNat DEF Left
    <2> HIDE DEF kept, rest
    <2>8. Worth(kept) <= Worth(Left(o)) /\ Worth(kept) \in Nat /\ Worth(Left(o)) \in Nat
        BY <1>1, <2>7, MarkedType, WorthGrows, WorthNat
    <2>9. /\ Exists(o) /\ Worth(Left(o)) <= order[o].total + order[o].refund
          /\ order[o].total <= Gross
        BY <1>1, <1>2 DEF CancelOrderItem, OrderCovered
    <2>10. /\ total \in Nat /\ total <= order[o].total
           /\ Worth(kept) <= total + order[o].refund
        BY <1>1, <2>8, <2>9, OrderNats DEF Larger
    <2> HIDE DEF total
    <2>11. /\ order'[o].total = total /\ order'[o].paid = order[o].paid
           /\ order'[o].refund = order[o].refund /\ order'[o].pay = order[o].pay
        BY <2>1, <2>6 DEF OrderType
    <2> QED
        BY <1>1, <2>4, <2>5, <2>9, <2>10, <2>11, OrderNats, QtyNat DEF OrderCovered
<1>3. CASE o # n
    <2>1. order'[o] = order[o] /\ item'[o] = item[o]
        BY <1>1, <1>3 DEF CancelOrderItem, MoneyType
    <2> QED
        BY <1>1, <2>1, CoverFrame
<1> QED
    BY <1>2, <1>3

LEMMA OrdersCovered ==
    ASSUME IInv, CoverInv, Next, NEW o \in Orders
    PROVE  OrderCovered(o)'
<1>1. CASE UNCHANGED moneyVars
    BY <1>1, CoverFrame DEF CoverInv, moneyVars
<1>2. ASSUME NEW t \in Txs, Commits(t) PROVE OrderCovered(o)'
    <2>1. CASE RedeemLocksOrder(t)
        BY <1>1, <2>1 DEF RedeemLocksOrder
    <2> QED
        BY <1>2, <2>1, CreateCovered, AddCovered, SplitCovered, RedeemCovered
           DEF Commits
<1>3. ASSUME NEW t \in Txs, NEW p \in Orders, Request(t, p) PROVE OrderCovered(o)'
    BY <1>1, <1>3 DEF Request, CreateStarts, QuickSaleStarts, AddStarts,
       SplitStarts, RedeemStarts
<1>4. CASE \E p \in Orders : CancelOrder(p) \/ \E i \in Items : CancelOrderItem(p, i)
    BY <1>4, CancelOrderCovered, CancelItemCovered
<1>5. CASE \E v \in Vouchers : IssueVoucher(v) \/ CancelVoucher(v)
    BY <1>1, <1>5 DEF IssueVoucher, CancelVoucher
<1>6. CASE \E s \in Sessions : StartSession(s) \/ CloseSession(s)
    BY <1>1, <1>6 DEF StartSession, CloseSession
<1> QED
    BY <1>2, <1>3, <1>4, <1>5, <1>6 DEF Next

LEMMA UnsettledFrame ==
    ASSUME NEW t \in Txs, Unsettled(t), tx'[t] = tx[t],
           tx[t].op \in {"add", "split"} =>
              order'[tx[t].order].pay = order[tx[t].order].pay
    PROVE  Unsettled(t)'
BY DEF Unsettled

LEMMA UnsettledIdle ==
    ASSUME NEW t \in Txs, tx'[t].op \notin {"add", "split"}
    PROVE  Unsettled(t)'
BY DEF Unsettled

(* The order of a payment under way is written by no other transaction.     *)
LEMMA CommitUnsettled ==
    ASSUME IInv, CoverInv, NEW t \in Txs, Commits(t), NEW u \in Txs
    PROVE  Unsettled(u)'
<1>1. /\ TypeOK /\ MoneyType /\ TransactionInv(t) /\ TransactionInv(u)
      /\ Unsettled(u) /\ tx \in [Txs -> TxType]
    BY DEF IInv, TypeOK, TxInv, CoverInv, TransactionType
<1>2. CASE RedeemLocksOrder(t)
    <2>1. UNCHANGED order
        BY <1>2 DEF RedeemLocksOrder, moneyVars
    <2>2. \A w \in Txs : w # t => tx'[w] = tx[w]
        BY <1>1, <1>2, EndsKeep DEF RedeemLocksOrder
    <2>3. tx'[t].op \in {"none", "redeem"}
        <3>1. CASE Ends(t)
            BY <1>1, <3>1, EndsKeep
        <3>2. CASE tx' = [tx EXCEPT ![t] = [tx[t] EXCEPT !.op = "redeem"]]
            <4>1. [tx[t] EXCEPT !.op = "redeem"].op = "redeem"
                BY <1>1 DEF TxType
            <4> QED
                BY <1>1, <3>2, <4>1
        <3> QED
            BY <1>2, <3>1, <3>2 DEF RedeemLocksOrder
    <2> QED
        BY <1>1, <2>1, <2>2, <2>3, UnsettledFrame, UnsettledIdle
<1>3. CASE ~RedeemLocksOrder(t)
    <2>1. Ends(t) /\ tx[t].op \in {"create", "quick", "add", "split", "redeem"}
        BY <1>3 DEF Commits, CreateOrder, QuickSale, AddPayments, SplitPayment, Redeem
    <2>2. tx[t].order \in Orders
        BY <1>1, <2>1 DEF TransactionInv, CreatesInv, PaysInv
    <2>3. \A p \in Orders : p # tx[t].order => order'[p] = order[p]
        BY <1>1, <1>3, <2>2, PaysFrame
           DEF Commits, CreateOrder, QuickSale, AddPayments, SplitPayment, Redeem,
               MoneyType
    <2>4. CASE u = t
        BY <1>1, <2>1, <2>4, EndsKeep, UnsettledIdle
    <2>5. CASE u # t
        <3>1. tx'[u] = tx[u]
            BY <1>1, <2>1, <2>5, EndsKeep
        <3>2. tx[u].op \in {"add", "split"} =>
                 tx[u].order \in Orders /\ tx[u].order # tx[t].order
            BY <1>1, <2>1, <2>5 DEF TransactionInv, CreatesInv, PaysInv
        <3> QED
            BY <1>1, <2>3, <3>1, <3>2, UnsettledFrame
    <2> QED
        BY <2>4, <2>5
<1> QED
    BY <1>2, <1>3

LEMMA RequestUnsettled ==
    ASSUME IInv, CoverInv, NEW t \in Txs, NEW o \in Orders, Request(t, o),
           NEW u \in Txs
    PROVE  Unsettled(u)'
<1>1. Unsettled(u) /\ tx \in [Txs -> TxType]
    BY DEF IInv, TypeOK, TransactionType, CoverInv
<1>2. UNCHANGED order /\ \E rec : tx' = [tx EXCEPT ![t] = rec]
    BY DEF Request, CreateStarts, QuickSaleStarts, AddStarts, SplitStarts,
       RedeemStarts, Starts, moneyVars
<1>3. CASE u # t
    BY <1>1, <1>2, <1>3, UnsettledFrame
<1>4. CASE u = t
    <2>1. ASSUME NEW a \in Amounts, NEW byCash, AddStarts(t, o, a, byCash)
          PROVE  Unsettled(t)'
        <3> DEFINE rec == [[Idle EXCEPT !.amount = a, !.cash = byCash,
                                !.session = ActiveSession, !.row = order[o]]
                              EXCEPT !.op = "add", !.order = o]
        <3>1. rec.op = "add" /\ rec.order = o
            BY DEF Idle
        <3>2. tx' = [tx EXCEPT ![t] = rec] /\ order[o].pay # "PAID"
            BY <2>1 DEF AddStarts, Starts
        <3> HIDE DEF rec
        <3> QED
            BY <1>1, <1>2, <3>1, <3>2 DEF Unsettled
    <2>2. ASSUME NEW w \in SomeUnits, NEW byCash, SplitStarts(t, o, w, byCash)
          PROVE  Unsettled(t)'
        <3> DEFINE rec == [[Idle EXCEPT !.units = w, !.amount = Worth(w),
                                !.cash = byCash, !.session = ActiveSession,
                                !.items = item[o]]
                              EXCEPT !.op = "split", !.order = o]
        <3>1. /\ rec.op = "split" /\ rec.order = o /\ rec.units = w
              /\ rec.amount = Worth(w)
            BY DEF Idle
        <3>2. tx' = [tx EXCEPT ![t] = rec] /\ order[o].pay # "PAID"
            BY <2>2 DEF SplitStarts, Starts
        <3> HIDE DEF rec
        <3>3. tx'[t] = rec
            BY <1>1, <3>2
        <3> QED
            BY <1>2, <3>1, <3>2, <3>3 DEF Unsettled
    <2>3. ASSUME NEW r, NEW a, NEW byCash, CreateStarts(t, o, r, a, byCash)
          PROVE  tx'[t].op = "create"
        BY <1>1, <2>3 DEF CreateStarts, Starts, Idle
    <2>4. ASSUME NEW r, NEW byCash, QuickSaleStarts(t, o, r, byCash)
          PROVE  tx'[t].op = "quick"
        BY <1>1, <2>4 DEF QuickSaleStarts, Starts, Idle
    <2>5. ASSUME NEW v, NEW k, NEW byCash, RedeemStarts(t, o, v, k, byCash)
          PROVE  tx'[t].op = "redeemStart"
        BY <1>1, <2>5 DEF RedeemStarts, Idle
    <2> QED
        BY <1>4, <2>1, <2>2, <2>3, <2>4, <2>5, UnsettledIdle DEF Request
<1> QED
    BY <1>3, <1>4

LEMMA CancelUnsettled ==
    ASSUME IInv, CoverInv, NEW o \in Orders,
           CancelOrder(o) \/ \E i \in Items : CancelOrderItem(o, i),
           NEW u \in Txs
    PROVE  Unsettled(u)'
<1>1. Unsettled(u) /\ TransactionInv(u) /\ order \in [Orders -> OrderType]
    BY DEF IInv, TypeOK, MoneyType, TxInv, CoverInv
<1>2. tx' = tx /\ Free(o)
    BY DEF CancelOrder, CancelOrderItem
<1>3. \A p \in Orders : p # o => order'[p] = order[p]
    BY <1>1 DEF CancelOrder, CancelOrderItem
<1>4. tx[u].op \in {"add", "split"} => tx[u].order \in Orders /\ tx[u].order # o
    BY <1>1, <1>2, CashAssumption DEF TransactionInv, PaysInv, Free
<1> QED
    BY <1>1, <1>2, <1>3, <1>4, UnsettledFrame

LEMMA CoverStep == IInv /\ CoverInv /\ [Next]_vars => CoverInv'
<1> SUFFICES ASSUME IInv, CoverInv, [Next]_vars PROVE CoverInv'
    OBVIOUS
<1>1. CASE UNCHANGED vars
    <2>1. UNCHANGED <<order, item, tx>>
        BY <1>1 DEF vars, moneyVars
    <2> QED
        BY <2>1, CoverFrame, UnsettledFrame DEF CoverInv
<1>2. CASE Next
    <2>1. ASSUME NEW u \in Txs PROVE Unsettled(u)'
        <3>1. CASE UNCHANGED <<order, tx>>
            BY <3>1, UnsettledFrame DEF CoverInv
        <3>2. CASE \E v \in Vouchers : IssueVoucher(v) \/ CancelVoucher(v)
            BY <3>1, <3>2 DEF IssueVoucher, CancelVoucher, moneyVars
        <3>3. CASE \E s \in Sessions : StartSession(s) \/ CloseSession(s)
            BY <3>1, <3>3 DEF StartSession, CloseSession, moneyVars
        <3> QED
            BY <1>2, <3>2, <3>3, CommitUnsettled, RequestUnsettled, CancelUnsettled
               DEF Next
    <2>2. \A o \in Orders : OrderCovered(o)'
        BY <1>2, OrdersCovered
    <2> QED
        BY <2>1, <2>2 DEF CoverInv
<1> QED
    BY <1>1, <1>2

LEMMA CoverInit == Init => CoverInv
<1> SUFFICES ASSUME Init PROVE CoverInv
    OBVIOUS
<1>1. \A o \in Orders : OrderCovered(o)
    BY DEF Init, NoOrder, OrderCovered, Exists
<1>2. \A t \in Txs : Unsettled(t)
    BY UnsettledIdle DEF Init, Idle, Unsettled
<1> QED
    BY <1>1, <1>2 DEF CoverInv

(***************************************************************************)
(* The theorems                                                            *)
(***************************************************************************)
LEMMA InitInv == Init => IInv
<1> SUFFICES ASSUME Init PROVE IInv
    OBVIOUS
<1>1. MoneyType
    BY DEF Init, MoneyType, OrderType, ItemType, NoOrder
<1>2. VouchersType
    BY DEF Init, VouchersType, VoucherType
<1>3. DrawerType
    BY DEF Init, DrawerType
<1>4. TransactionType
    BY IdleType DEF Init, TransactionType
<1>5. TxInv
    BY DEF Init, TxInv, TransactionInv, CreatesInv, PaysInv, RedeemsInv, Idle
<1>6. UnitsInv
    BY CashAssumption DEF Init, UnitsInv
<1>7. VouchersConserved
    BY DEF Init, VouchersConserved
<1> QED
    BY <1>1, <1>2, <1>3, <1>4, <1>5, <1>6, <1>7 DEF IInv, TypeOK

LEMMA StutterInv == IInv /\ UNCHANGED vars => IInv'
<1> SUFFICES ASSUME IInv, UNCHANGED vars PROVE IInv'
    OBVIOUS
<1>1. UNCHANGED <<moneyVars, voucherVars, drawerVars, lock, tx>>
    BY DEF vars
<1>2. TypeOK'
    BY <1>1, Frames DEF IInv, TypeOK
<1>3. TxInv'
    BY <1>1, TransactionFrame DEF IInv, TxInv, moneyVars
<1>4. UnitsInv'
    BY <1>1, UnitsFrame DEF IInv, moneyVars
<1>5. VouchersConserved'
    BY <1>1 DEF IInv, VouchersConserved, voucherVars
<1> QED
    BY <1>2, <1>3, <1>4, <1>5 DEF IInv

(* The inductive invariant holds in every state of the cash desk.          *)
THEOREM Inductive == Spec => []IInv
<1>1. Init => IInv
    BY InitInv
<1>2. IInv /\ [Next]_vars => IInv'
    BY TypeStep, TxStep, UnitsStep, VoucherStep, StutterInv DEF IInv
<1> QED
    BY <1>1, <1>2, PTL DEF Spec

(* Totals, payments, balances and units are never negative, whatever orders *)
(* are created, paid and cancelled.                                        *)
THEOREM TypeCorrect == Spec => []TypeOK
<1>1. IInv => TypeOK
    BY DEF IInv
<1> QED
    BY <1>1, Inductive, PTL

(* A voucher redeemed at any number of tills for any number of orders is     *)
(* never overdrawn: ValueVouchersService.redeem and cancel.                *)
THEOREM VouchersAreConserved == Spec => []VouchersConserved
<1>1. IInv => VouchersConserved
    BY DEF IInv
<1> QED
    BY <1>1, Inductive, PTL

(* An order is PAID only if its payments cover its total, by whatever mixture *)
(* of payments, payments by position, vouchers and cancelled positions it    *)
(* became so: createOrder, createQuickSale, addPaymentsToOrder,             *)
(* splitPaymentOrder, redeem and cancelOrderItem.                          *)
THEOREM PaidIsCovered == Spec => []PaidMeansCovered
<1>1. Init => CoverInv
    BY CoverInit
<1>2. IInv /\ CoverInv /\ [Next]_vars => CoverInv'
    BY CoverStep
<1>3. CoverInv => PaidMeansCovered
    <2> SUFFICES ASSUME CoverInv, NEW o \in Orders, Exists(o), order[o].pay = "PAID",
                        order[o].total <= order[o].paid
                 PROVE  order[o].paid >= order[o].total
        BY DEF CoverInv, OrderCovered, PaidMeansCovered
    <2> QED
        OBVIOUS
<1> QED
    BY <1>1, <1>2, <1>3, Inductive, PTL DEF Spec

(* No unit of a position is paid twice by position: the lock of             *)
(* splitPaymentOrder makes what it read of the units good until it commits. *)
THEOREM UnitsArePaidOnce == Spec => []UnitsPaidOnce
<1>1. IInv => UnitsPaidOnce
    <2> SUFFICES ASSUME IInv, NEW o \in Orders, NEW i \in Items
                 PROVE  splitUnits[o][i] <= Qty[i]
        BY DEF UnitsPaidOnce
    <2>1. splitUnits[o][i] \in Nat /\ item[o][i].paid \in Nat /\ Qty[i] \in Nat
        BY CashAssumption DEF IInv, TypeOK, MoneyType, ItemType
    <2>2. splitUnits[o][i] <= item[o][i].paid /\ item[o][i].paid <= Qty[i]
        BY DEF IInv, UnitsInv
    <2> QED
        BY <2>1, <2>2
<1> QED
    BY <1>1, Inductive, PTL

(* addPaymentsToOrder and redeem never take more than what is open, whatever *)
(* other payments and cancellations run at the same time.                  *)
THEOREM PaymentsNeverOverpay == Spec => NeverOverpays
<1> DEFINE Within ==
       \A t \in Txs, o \in Orders :
          AddPayments(t) \/ Redeem(t) =>
             (order'[o].paid # order[o].paid => order'[o].paid <= order'[o].total)
<1>1. IInv /\ [Next]_vars => [Within]_vars
    <2> SUFFICES ASSUME IInv, NEW t \in Txs, NEW o \in Orders,
                        AddPayments(t) \/ Redeem(t),
                        order'[o].paid # order[o].paid
                 PROVE  order'[o].paid <= order'[o].total
        OBVIOUS
    <2>1. PaysInv(t) /\ tx[t].order \in Orders /\ MoneyType
        BY DEF IInv, TypeOK, TxInv, TransactionInv, PaysInv, AddPayments, Redeem
    <2>2. CASE AddPayments(t)
        <3>1. o = tx[t].order
            BY <2>1, <2>2, PaysFrame DEF AddPayments
        <3>2. /\ order'[o].paid = order[o].paid + tx[t].amount
              /\ order'[o].total = order[o].total
            BY <2>1, <2>2, <3>1, PaysFrame DEF AddPayments
        <3>3. order[o].paid + tx[t].amount <= order[o].total
            BY <2>1, <2>2, <3>1 DEF AddPayments, PaysInv
        <3> QED
            BY <3>2, <3>3
    <2>3. CASE Redeem(t)
        <3> DEFINE due == Outstanding(tx[t].row)
        <3>1. \E status : Pays(tx[t].order, due, status)
            <4>1. order' # order
                OBVIOUS
            <4> QED
                BY <2>3, <4>1 DEF Redeem
        <3> HIDE DEF due
        <3>2. /\ \A p \in Orders : p # tx[t].order => order'[p] = order[p]
              /\ order'[tx[t].order].paid = order[tx[t].order].paid + due
              /\ order'[tx[t].order].total = order[tx[t].order].total
            BY <2>1, <3>1, PaysFrame
        <3>3. o = tx[t].order
            BY <3>2
        <3>4. tx[t].row = order[o] /\ tx[t].row.paid < tx[t].row.total
            BY <2>1, <2>3, <3>3 DEF Redeem, PaysInv
        <3>5. order[o] \in OrderType
            BY <2>1 DEF MoneyType
        <3>6. order[o].paid + due = order[o].total
            BY <3>4, <3>5, OutstandingType DEF due
        <3> QED
            BY <3>2, <3>3, <3>5, <3>6 DEF OrderType
    <2> QED
        BY <2>2, <2>3
<1>2. [][Within]_vars => NeverOverpays
    BY DEF NeverOverpays
<1> QED
    BY <1>1, <1>2, Inductive, PTL DEF Spec

(***************************************************************************)
(* Events: modes, clean-up and the ledger of the tests                     *)
(*                                                                         *)
(* EventMode is about the same orders and sessions, told apart by the mode *)
(* of their event.  Its proofs need the sums above.                        *)
(***************************************************************************)

(* Rows of the tables, without the width of their numbers.                 *)
EventStatuses ==
    ApiStatuses \union {"DRAFT", "PREPARED", "TEST_MODE", "ACTIVE", "PAUSED",
                        "COMPLETED", "REMOVED"}
EventRow   == [status : EventStatuses, testMode : BOOLEAN, confirmed : BOOLEAN]
SessionRow == [nr : Nat, user : Cashiers, mode : {"TEST", "LIVE"}, open : BOOLEAN]
OrderRow   == [nr : Nat, mode : {"TEST", "LIVE"}, session : Nat]
MoveRow    == [type : {"INITIALIZATION", "SALE", "CANCELLATION"}, order : Nat, delta : Int]
DialogRow  == [kind : {"none", "rksv", "complete", "cleanup"}, ticked : BOOLEAN,
               warned : BOOLEAN, dialog : Nat, busy : BOOLEAN]
CleanRow   == [nr : Nat, admin : Admins, dialog : Nat, key : Nat, stale : BOOLEAN,
               seen : BOOLEAN, event : EventRow, orders : SUBSET Nat,
               sessions : SUBSET Nat, live : BOOLEAN,
               result : {"running", "replayed", "cleaned", "refused"}]
Counters == {"orders", "sessions", "requests", "dialogs", "changes"}

RowsInv ==
    /\ event \in EventRow
    /\ sessions \subseteq SessionRow
    /\ orders \subseteq OrderRow
    /\ cleaning \subseteq CleanRow
    /\ page \in [Admins -> DialogRow]
    /\ counts \in [Counters -> Nat]

(* A clean-up that is not stale has read the event as it is.               *)
FreshInv == \A c \in cleaning : c.result = "running" /\ ~c.stale => c.event = event

EventInv == RowsInv /\ ModesNeverMix /\ FreshInv

LEMMA MadeCounts ==
    ASSUME counts \in [Counters -> Nat], NEW w \in Counters, Made(w)
    PROVE  /\ counts' \in [Counters -> Nat] /\ counts'[w] = counts[w] + 1
           /\ \A x \in Counters : x # w => counts'[x] = counts[x]
BY DEF Made

LEMMA DataModeValue ==
    /\ DataMode \in {"LIVE", "TEST", "NONE"}
    /\ DataMode = "LIVE" <=> event.status = "ACTIVE" /\ ~event.testMode
    /\ DataMode = "TEST" <=> event.status = "TEST_MODE" /\ event.testMode
BY DEF DataMode, NoMode

(* Marking clean-ups as stale changes nothing else about them.             *)
LEMMA Marks ==
    ASSUME NEW c \in CleanRow, NEW b \in BOOLEAN
    PROVE  /\ [c EXCEPT !.stale = c.stale \/ b] \in CleanRow
           /\ [c EXCEPT !.stale = c.stale \/ b].event = c.event
           /\ [c EXCEPT !.stale = c.stale \/ b].result = c.result
           /\ [c EXCEPT !.stale = c.stale \/ b].stale = (c.stale \/ b)
BY DEF CleanRow

LEMMA DisturbKeeps ==
    ASSUME RowsInv, FreshInv, event' = event, NEW f, 
           \A c \in cleaning : f[c] \in BOOLEAN,
           cleaning' = {[c EXCEPT !.stale = c.stale \/ f[c]] : c \in cleaning}
    PROVE  cleaning' \subseteq CleanRow /\ FreshInv'
<1>1. \A d \in cleaning' : \E c \in cleaning :
         d \in CleanRow /\ d.event = c.event /\ d.result = c.result /\ d.stale = (c.stale \/ f[c])
  <2>. SUFFICES ASSUME NEW d \in cleaning'
                PROVE  \E c \in cleaning : /\ d \in CleanRow /\ d.event = c.event
                                           /\ d.result = c.result
                                           /\ d.stale = (c.stale \/ f[c])
    OBVIOUS
  <2>1. PICK c \in cleaning : d = [c EXCEPT !.stale = c.stale \/ f[c]]
    OBVIOUS
  <2>2. c \in CleanRow /\ f[c] \in BOOLEAN
    BY DEF RowsInv
  <2>. QED  BY <2>1, <2>2, Marks
<1>. QED
    BY <1>1 DEF FreshInv

LEMMA DisturbAllStale ==
    ASSUME RowsInv, DisturbAll
    PROVE  cleaning' \subseteq CleanRow /\ FreshInv'
<1>1. cleaning' = {[c EXCEPT !.stale = c.stale \/ TRUE] : c \in cleaning}
    BY DEF DisturbAll, Disturb
<1>2. \A d \in cleaning' : d \in CleanRow /\ d.stale = TRUE
  <2>. SUFFICES ASSUME NEW d \in cleaning' PROVE d \in CleanRow /\ d.stale = TRUE
    OBVIOUS
  <2>1. PICK c \in cleaning : d = [c EXCEPT !.stale = c.stale \/ TRUE]
    BY <1>1
  <2>2. c \in CleanRow
    BY DEF RowsInv
  <2>. QED  BY <2>1, <2>2 DEF CleanRow
<1>. QED
    BY <1>2 DEF FreshInv

(* Steps that leave event and clean-ups alone.                             *)
LEMMA FreshFrame ==
    ASSUME FreshInv, event' = event, cleaning' \subseteq cleaning
    PROVE  FreshInv'
BY DEF FreshInv

LEMMA StartSessionInv ==
    ASSUME EventInv, NEW u \in Cashiers, StartsSession(u)
    PROVE  EventInv'
<1>. DEFINE new == [nr |-> counts.sessions + 1, user |-> u, mode |-> DataMode, open |-> TRUE]
<1>1. /\ sessions' = sessions \union {new} /\ orders' = orders /\ event' = event
      /\ DataMode # "NONE" /\ Made("sessions")
      /\ UNCHANGED <<cleaning, page>>
    BY DEF StartsSession, NoMode, pages
<1>2. DataMode \in {"TEST", "LIVE"}
    BY <1>1, DataModeValue
<1>3. new \in SessionRow
    BY <1>2 DEF EventInv, RowsInv, SessionRow, Counters
<1>4. RowsInv'
    BY <1>1, <1>3, MadeCounts DEF EventInv, RowsInv, Counters
<1>5. DataMode' = DataMode
    BY <1>1 DEF DataMode
<1>6. ModesNeverMix'
    BY <1>1, <1>5 DEF EventInv, ModesNeverMix
<1>. QED
    BY <1>1, <1>4, <1>6, FreshFrame DEF EventInv

LEMMA CloseSessionInv ==
    ASSUME EventInv, NEW s \in sessions, ClosesSession(s)
    PROVE  EventInv'
<1>. DEFINE f == [c \in cleaning |-> s.nr \in c.sessions]
<1>1. /\ sessions' = (sessions \ {s}) \union {[s EXCEPT !.open = FALSE]}
      /\ UNCHANGED <<event, orders, page, counts>>
      /\ cleaning' = {[c EXCEPT !.stale = c.stale \/ f[c]] : c \in cleaning}
    BY DEF ClosesSession, pages, Disturb
<1>2. s \in SessionRow
    BY DEF EventInv, RowsInv
<1>3. /\ [s EXCEPT !.open = FALSE] \in SessionRow
      /\ [s EXCEPT !.open = FALSE].mode = s.mode
    BY <1>2 DEF SessionRow
<1>4. cleaning' \subseteq CleanRow /\ FreshInv'
    <2>1. \A c \in cleaning : f[c] \in BOOLEAN
        OBVIOUS
    <2>. HIDE DEF f
    <2>. QED  BY <1>1, <2>1, DisturbKeeps DEF EventInv
<1>. HIDE DEF f
<1>5. RowsInv'
    BY <1>1, <1>3, <1>4 DEF EventInv, RowsInv
<1>6. DataMode' = DataMode
    BY <1>1 DEF DataMode
<1>7. ModesNeverMix'
    BY <1>1, <1>3, <1>6 DEF EventInv, ModesNeverMix
<1>. QED
    BY <1>4, <1>5, <1>7 DEF EventInv

LEMMA CreateOrderInv ==
    ASSUME EventInv, NEW tracked \in BOOLEAN,
           NEW u \in {Sessionless} \union {s.nr : s \in sessions},
           CreatesOrder(u, tracked)
    PROVE  EventInv'
<1>. DEFINE f == [c \in cleaning |-> tracked \/ u \in c.sessions]
            new == [nr |-> counts.orders + 1, mode |-> DataMode, session |-> u]
<1>1. /\ orders' = orders \union {new} /\ DataMode # "NONE"
      /\ UNCHANGED <<event, sessions, page>> /\ Made("orders")
    BY DEF CreatesOrder, pages, NoMode
<1>2. cleaning' = {[c EXCEPT !.stale = c.stale \/ f[c]] : c \in cleaning}
    BY DEF CreatesOrder, Disturb
<1>3. u \in Nat
    BY DEF EventInv, RowsInv, SessionRow, Sessionless
<1>4. DataMode \in {"TEST", "LIVE"}
    BY <1>1, DataModeValue
<1>5. new \in OrderRow
    BY <1>3, <1>4 DEF EventInv, RowsInv, OrderRow, Counters
<1>6. cleaning' \subseteq CleanRow /\ FreshInv'
    <2>1. \A c \in cleaning : f[c] \in BOOLEAN
        OBVIOUS
    <2>. HIDE DEF f
    <2>. QED  BY <1>1, <1>2, <2>1, DisturbKeeps DEF EventInv
<1>. HIDE DEF f
<1>7. RowsInv'
    BY <1>1, <1>5, <1>6, MadeCounts DEF EventInv, RowsInv, Counters
<1>8. DataMode' = DataMode
    BY <1>1 DEF DataMode
<1>9. ModesNeverMix'
    BY <1>1, <1>8 DEF EventInv, ModesNeverMix
<1>. QED
    BY <1>6, <1>7, <1>9 DEF EventInv

LEMMA CancelOrderInv ==
    ASSUME EventInv, NEW o \in orders, CancelsOrder(o)
    PROVE  EventInv'
<1>1. UNCHANGED <<event, sessions, orders, page, counts>> /\ DisturbAll
    BY DEF CancelsOrder, pages
<1>2. DataMode' = DataMode
    BY <1>1 DEF DataMode
<1>. QED
    BY <1>1, <1>2, DisturbAllStale DEF EventInv, RowsInv, ModesNeverMix

(* An event that changes its mode has no data of another.                  *)
LEMMA SetEventInv ==
    ASSUME EventInv, NEW row \in EventRow, SetEvent(row),
           row.status = "ACTIVE" /\ ~row.testMode =>
              ~HasData("TEST") \/ row = event,
           row.status = "TEST_MODE" /\ row.testMode =>
              ~HasData("LIVE") \/ row = event,
           page' \in [Admins -> DialogRow], counts' \in [Counters -> Nat]
    PROVE  EventInv'
<1>1. event' = row /\ UNCHANGED <<sessions, orders>> /\ DisturbAll
    BY DEF SetEvent
<1>2. RowsInv' /\ FreshInv'
    BY <1>1, DisturbAllStale DEF EventInv, RowsInv
<1>3. /\ DataMode' \in {"LIVE", "TEST", "NONE"}
      /\ DataMode' = "LIVE" => row.status = "ACTIVE" /\ ~row.testMode
      /\ DataMode' = "TEST" => row.status = "TEST_MODE" /\ row.testMode
      /\ row = event => DataMode' = DataMode
    BY <1>1 DEF DataMode, NoMode
<1>4. \A x \in orders \union sessions : x.mode \in {"TEST", "LIVE"}
    BY DEF EventInv, RowsInv, OrderRow, SessionRow
<1>5. ASSUME NEW m, ~HasData(m)
      PROVE  \A x \in orders \union sessions : x.mode # m
    BY <1>5 DEF HasData, OfMode
<1>6. ASSUME row = event PROVE ModesNeverMix'
    BY <1>1, <1>3, <1>6 DEF EventInv, ModesNeverMix
<1>7. ASSUME row # event PROVE ModesNeverMix'
    <2>1. DataMode' = "LIVE" => \A x \in orders \union sessions : x.mode = "LIVE"
        BY <1>3, <1>4, <1>5, <1>7
    <2>2. DataMode' = "TEST" => \A x \in orders \union sessions : x.mode = "TEST"
        BY <1>3, <1>4, <1>5, <1>7
    <2>3. orders' = orders /\ sessions' = sessions
        BY <1>1
    <2>. QED
        BY <1>3, <2>1, <2>2, <2>3 DEF ModesNeverMix, NoMode
<1>8. ModesNeverMix'
    BY <1>6, <1>7
<1>. QED
    BY <1>2, <1>8 DEF EventInv

LEMMA ServerFrame ==
    ASSUME EventInv, UNCHANGED <<event, sessions, orders, cleaning>>,
           page' \in [Admins -> DialogRow], counts' \in [Counters -> Nat]
    PROVE  EventInv'
<1>1. DataMode' = DataMode
    BY DEF DataMode
<1>. QED
    BY <1>1, FreshFrame DEF EventInv, RowsInv, ModesNeverMix

LEMMA ActivateInv ==
    ASSUME EventInv, Activate,
           page' \in [Admins -> DialogRow], counts' \in [Counters -> Nat]
    PROVE  EventInv'
<1>. DEFINE row == [status |-> "ACTIVE", testMode |-> FALSE, confirmed |-> TRUE]
<1>1. row \in EventRow
    BY DEF EventRow, EventStatuses
<1>2. CASE Activatable /\ SetEvent(row)
    <2>1. ~HasData("TEST")
        BY <1>2 DEF Activatable
    <2>2. row.status # "TEST_MODE"
        OBVIOUS
    <2>. HIDE DEF row
    <2>. QED
        BY <1>1, <1>2, <2>1, <2>2, SetEventInv
<1>3. CASE UNCHANGED <<server, cleaning>>
    BY <1>3, ServerFrame DEF server
<1>. QED
    BY <1>2, <1>3 DEF Activate

LEMMA ChangeStatusInv ==
    ASSUME EventInv, NEW status \in EventStatuses, ChangeStatus(status),
           page' \in [Admins -> DialogRow], counts' \in [Counters -> Nat]
    PROVE  EventInv'
<1>. DEFINE test == IF status = "TEST_MODE" THEN TRUE
                    ELSE IF status = "ACTIVE" THEN FALSE ELSE event.testMode
            row  == [event EXCEPT !.status = status, !.testMode = test]
<1>1. event \in EventRow
    BY DEF EventInv, RowsInv
<1>2. row \in EventRow /\ row.status = status /\ row.testMode = test
    BY <1>1 DEF EventRow
<1>3. CASE Allowed(status) /\ SetEvent(row)
    <2>1. /\ status = "ACTIVE" => ~HasData("TEST")
          /\ status = "TEST_MODE" => ~HasData("LIVE")
        BY <1>3 DEF Allowed
    <2>. HIDE DEF row
    <2>. QED
        BY <1>2, <1>3, <2>1, SetEventInv
<1>4. CASE UNCHANGED <<server, cleaning>>
    BY <1>4, ServerFrame DEF server
<1>5. ChangeStatus(status) =>
         \/ Allowed(status) /\ SetEvent(row)
         \/ UNCHANGED <<server, cleaning>>
    <2>1. (CASE status = "TEST_MODE" -> TRUE
             [] status = "ACTIVE" -> FALSE
             [] OTHER -> event.testMode) = test
        OBVIOUS
    <2>. QED
        BY <2>1 DEF ChangeStatus
<1>. QED
    BY <1>3, <1>4, <1>5

LEMMA RemoveInv ==
    ASSUME EventInv, Remove,
           page' \in [Admins -> DialogRow], counts' \in [Counters -> Nat]
    PROVE  EventInv'
<1>1. CASE UNCHANGED <<server, cleaning>>
    BY <1>1, ServerFrame DEF server
<1>2. CASE /\ event' = [event EXCEPT !.status = "REMOVED"]
           /\ sessions' = {} /\ orders' = orders /\ DisturbAll
    <2>1. event' \in EventRow /\ event'.status = "REMOVED"
        BY <1>2 DEF EventInv, RowsInv, EventRow, EventStatuses
    <2>2. DataMode' = "NONE"
        BY <2>1 DEF DataMode, NoMode
    <2>3. ModesNeverMix'
        BY <2>2 DEF ModesNeverMix, NoMode
    <2>4. RowsInv'
        BY <1>2, <2>1, DisturbAllStale DEF EventInv, RowsInv
    <2>. QED
        BY <1>2, <2>3, <2>4, DisturbAllStale DEF EventInv
<1>. QED
    BY <1>1, <1>2 DEF Remove, Removed

LEMMA SubmitInv ==
    ASSUME EventInv, NEW a \in Admins, Submit(a)
    PROVE  EventInv'
<1>. DEFINE new ==
        [nr |-> counts.requests + 1, admin |-> a, dialog |-> page[a].dialog,
         key |-> page[a].dialog, stale |-> FALSE,
         seen |-> page[a].dialog \in CleanedKeys, event |-> event,
         orders |-> {o.nr : o \in OfMode(orders, "TEST")},
         sessions |-> {s.nr : s \in OfMode(sessions, "TEST")},
         live |-> HasData("LIVE"), result |-> "running"]
<1>1. /\ cleaning' = cleaning \union {new} /\ UNCHANGED <<event, sessions, orders>>
      /\ Made("requests")
      /\ page' = [page EXCEPT ![a] = [page[a] EXCEPT !.busy = TRUE]]
    BY DEF Submit, BeginClean, KeyOf, server, PageBecomes
<1>2. page[a] \in DialogRow /\ page \in [Admins -> DialogRow]
    BY DEF EventInv, RowsInv
<1>3. [page[a] EXCEPT !.busy = TRUE] \in DialogRow /\ page[a].dialog \in Nat
    BY <1>2 DEF DialogRow
<1>4. new \in CleanRow
    <2>1. /\ {o.nr : o \in OfMode(orders, "TEST")} \in SUBSET Nat
          /\ {s.nr : s \in OfMode(sessions, "TEST")} \in SUBSET Nat
        BY DEF EventInv, RowsInv, OrderRow, SessionRow, OfMode
    <2>2. counts.requests + 1 \in Nat /\ event \in EventRow
        BY DEF EventInv, RowsInv, Counters
    <2>3. ASSUME NEW n \in Nat, NEW k \in Nat, NEW e \in EventRow, NEW seen \in BOOLEAN,
                 NEW live \in BOOLEAN, NEW os \in SUBSET Nat, NEW ss \in SUBSET Nat
          PROVE  [nr |-> n, admin |-> a, dialog |-> k, key |-> k, stale |-> FALSE,
                  seen |-> seen, event |-> e, orders |-> os, sessions |-> ss,
                  live |-> live, result |-> "running"] \in CleanRow
        BY DEF CleanRow
    <2>4. /\ HasData("LIVE") \in BOOLEAN
          /\ (page[a].dialog \in CleanedKeys) \in BOOLEAN
        BY DEF HasData
    <2>. QED
        BY <1>3, <2>1, <2>2, <2>3, <2>4
<1>5. new.event = event
    OBVIOUS
<1>. HIDE DEF new
<1>6. RowsInv'
    BY <1>1, <1>2, <1>3, <1>4, MadeCounts DEF EventInv, RowsInv, Counters
<1>7. FreshInv'
    BY <1>1, <1>5 DEF EventInv, FreshInv
<1>8. DataMode' = DataMode
    BY <1>1 DEF DataMode
<1>. QED
    BY <1>1, <1>6, <1>7, <1>8 DEF EventInv, ModesNeverMix

LEMMA AnsweredInv ==
    ASSUME EventInv, NEW a \in Admins, NEW c \in cleaning, NEW arrives \in BOOLEAN,
           Answered(a, c, arrives)
    PROVE  EventInv'
<1>1. /\ UNCHANGED <<event, sessions, orders, counts>> /\ cleaning' \subseteq cleaning
      /\ page' = [page EXCEPT ![a] = IF arrives /\ c.result # "refused" THEN NoDialog
                                     ELSE [page[a] EXCEPT !.busy = FALSE]]
    BY DEF Answered, server, PageBecomes
<1>2. page[a] \in DialogRow /\ page \in [Admins -> DialogRow]
    BY DEF EventInv, RowsInv
<1>3. [page[a] EXCEPT !.busy = FALSE] \in DialogRow /\ NoDialog \in DialogRow
    <2>1. [page[a] EXCEPT !.busy = FALSE] \in DialogRow
        BY <1>2 DEF DialogRow
    <2>2. NoDialog \in DialogRow
        BY DEF DialogRow, NoDialog
    <2>. QED
        BY <2>1, <2>2
<1>4. page' \in [Admins -> DialogRow]
    BY <1>1, <1>2, <1>3
<1>5. DataMode' = DataMode
    BY <1>1 DEF DataMode
<1>. QED
    BY <1>1, <1>4, <1>5, FreshFrame DEF EventInv, RowsInv, ModesNeverMix

(* What a clean-up that commits or fails writes.                           *)
LEMMA EndCleanInv ==
    ASSUME EventInv, NEW c \in cleaning, EndClean(c)
    PROVE  EventInv'
<1>1. PICK result \in {"replayed", "cleaned", "refused"} :
         /\ cleaning' = {CASE d = c -> [c EXCEPT !.result = result]
                           [] d # c -> [d EXCEPT !.stale = d.stale \/ result = "cleaned"]
                             : d \in cleaning}
         /\ result = "cleaned" => CleanAway(c)
         /\ result # "cleaned" => UNCHANGED server
         /\ UNCHANGED <<page, counts>>
    BY DEF EndClean, pages
<1>2. \A e \in cleaning' : 
         /\ e \in CleanRow
         /\ e.result # "running" \/ \E d \in cleaning :
              /\ e.event = d.event /\ e.result = d.result
              /\ e.stale = (d.stale \/ result = "cleaned")
    <2>. SUFFICES ASSUME NEW d \in cleaning, NEW e,
                         e = CASE d = c -> [c EXCEPT !.result = result]
                               [] d # c -> [d EXCEPT !.stale = d.stale \/ result = "cleaned"]
                  PROVE  /\ e \in CleanRow
                         /\ e.result # "running" \/
                              /\ e.event = d.event /\ e.result = d.result
                              /\ e.stale = (d.stale \/ result = "cleaned")
        BY <1>1
    <2>1. d \in CleanRow /\ c \in CleanRow
        BY DEF EventInv, RowsInv
    <2>2. CASE d = c
        <3>1. e = [c EXCEPT !.result = result]
            BY <2>2
        <3>2. result \in {"replayed", "cleaned", "refused"}
            BY <1>1
        <3>3. e \in CleanRow /\ e.result = result
            BY <2>1, <3>1, <3>2 DEF CleanRow
        <3>. QED
            BY <3>2, <3>3
    <2>3. CASE d # c
        <3>. DEFINE b == result = "cleaned"
        <3>1. e = [d EXCEPT !.stale = d.stale \/ b] /\ b \in BOOLEAN
            BY <2>3
        <3>. HIDE DEF b
        <3>2. /\ e \in CleanRow /\ e.event = d.event /\ e.result = d.result
              /\ e.stale = (d.stale \/ b)
            BY <2>1, <3>1, Marks
        <3>. QED
            BY <3>2 DEF b
    <2>. QED
        BY <2>2, <2>3
<1>3. CASE result = "cleaned"
    <2>1. /\ orders' \subseteq orders /\ sessions' \subseteq sessions
          /\ event' = [event EXCEPT !.status = "PREPARED", !.testMode = FALSE]
        BY <1>1, <1>3 DEF CleanAway
    <2>2. event' \in EventRow /\ event'.status = "PREPARED"
        BY <2>1 DEF EventInv, RowsInv, EventRow, EventStatuses
    <2>3. DataMode' = "NONE"
        BY <2>2 DEF DataMode, NoMode
    <2>4. ModesNeverMix'
        BY <2>3 DEF ModesNeverMix, NoMode
    <2>5. RowsInv'
        BY <1>1, <1>2, <2>1, <2>2 DEF EventInv, RowsInv
    <2>6. FreshInv'
        BY <1>2, <1>3 DEF FreshInv
    <2>. QED
        BY <2>4, <2>5, <2>6 DEF EventInv
<1>4. CASE result # "cleaned"
    <2>1. UNCHANGED <<event, sessions, orders>>
        BY <1>1, <1>4 DEF server
    <2>2. RowsInv'
        BY <1>1, <1>2, <2>1 DEF EventInv, RowsInv
    <2>3. FreshInv'
        BY <1>2, <1>4, <2>1 DEF EventInv, FreshInv
    <2>4. DataMode' = DataMode
        BY <2>1 DEF DataMode
    <2>. QED
        BY <2>1, <2>2, <2>3, <2>4 DEF EventInv, ModesNeverMix
<1>. QED
    BY <1>3, <1>4

(* What the pages do: a page stays a page, whatever it shows.              *)
LEMMA PageStep ==
    ASSUME EventInv, NEW a \in Admins, NEW d \in DialogRow
    PROVE  /\ PageBecomes(a, d) => page' \in [Admins -> DialogRow]
           /\ UNCHANGED page => page' \in [Admins -> DialogRow]
           /\ UNCHANGED counts => counts' \in [Counters -> Nat]
           /\ \A w \in Counters : Made(w) => counts' \in [Counters -> Nat]
           /\ page[a] \in DialogRow
           /\ [page[a] EXCEPT !.ticked = TRUE] \in DialogRow
<1>1. page \in [Admins -> DialogRow] /\ counts \in [Counters -> Nat] /\ page[a] \in DialogRow
    BY DEF EventInv, RowsInv
<1>2. [page[a] EXCEPT !.ticked = TRUE] \in DialogRow
    BY <1>1 DEF DialogRow
<1>. QED
    BY <1>1, <1>2, MadeCounts DEF PageBecomes

LEMMA NoDialogRow == NoDialog \in DialogRow
BY DEF DialogRow, NoDialog

LEMMA DialogRows ==
    ASSUME NEW k \in {"none", "rksv", "complete", "cleanup"}, NEW w \in BOOLEAN, NEW n \in Nat
    PROVE  Dialog(k, w, n) \in DialogRow
BY DEF DialogRow, Dialog

LEMMA ShowsInv ==
    ASSUME EventInv, NEW a \in Admins, NEW d \in DialogRow, Shows(a, d)
    PROVE  EventInv'
<1>1. "dialogs" \in Counters
    BY DEF Counters
<1>2. page' \in [Admins -> DialogRow] /\ counts' \in [Counters -> Nat]
    BY <1>1, PageStep DEF Shows
<1>. QED
    BY <1>2, ServerFrame DEF Shows, server

LEMMA ConfirmInv ==
    ASSUME EventInv, NEW a \in Admins, NEW accepted, ClosesIf(a, accepted)
    PROVE  page' \in [Admins -> DialogRow]
<1>1. page[a] \in DialogRow
    BY DEF EventInv, RowsInv
<1>. QED
    BY <1>1, NoDialogRow, PageStep DEF ClosesIf

LEMMA AdministratorInv ==
    ASSUME EventInv, NEW a \in Admins, Administrator(a)
    PROVE  EventInv'
<1>0. /\ "changes" \in Counters /\ counts.dialogs + 1 \in Nat
      /\ {"TEST_MODE", "PAUSED", "COMPLETED"} \subseteq EventStatuses
    BY DEF Counters, EventStatuses, EventInv, RowsInv
<1>1. CASE LoadEvents(a)
    BY <1>1, ServerFrame DEF LoadEvents, server, EventInv, RowsInv
<1>2. CASE Tick(a)
    <2>1. page' \in [Admins -> DialogRow]
        BY <1>2, PageStep, NoDialogRow DEF Tick
    <2>. QED
        BY <1>2, <2>1, ServerFrame DEF Tick, server, EventInv, RowsInv
<1>3. CASE Cancel(a)
    <2>1. page' \in [Admins -> DialogRow]
        BY <1>3, PageStep, NoDialogRow DEF Cancel
    <2>. QED
        BY <1>3, <2>1, ServerFrame DEF Cancel, server, EventInv, RowsInv
<1>4. CASE OpenActivateModal(a)
    BY <1>4, ShowsInv, DialogRows DEF OpenActivateModal
<1>5. CASE OpenCleanup(a)
    BY <1>0, <1>5, ShowsInv, DialogRows DEF OpenCleanup
<1>6. ASSUME NEW waiting \in BOOLEAN, OpenCompleteModal(a, waiting)
      PROVE  EventInv'
    BY <1>6, ShowsInv, DialogRows DEF OpenCompleteModal
<1>7. CASE ConfirmActivation(a)
    <2>1. page' \in [Admins -> DialogRow] /\ counts' \in [Counters -> Nat]
        BY <1>0, <1>7, ConfirmInv, PageStep, NoDialogRow
           DEF ConfirmActivation, Changed
    <2>. QED
        BY <1>7, <2>1, ActivateInv DEF ConfirmActivation
<1>8. CASE SetTestMode(a)
    <2>1. page' \in [Admins -> DialogRow] /\ counts' \in [Counters -> Nat]
        BY <1>0, <1>8, PageStep, NoDialogRow DEF SetTestMode, Changed, pages
    <2>. QED
        BY <1>0, <1>8, <2>1, ChangeStatusInv DEF SetTestMode
<1>9. CASE PauseEvent(a)
    <2>1. page' \in [Admins -> DialogRow] /\ counts' \in [Counters -> Nat]
        BY <1>0, <1>9, PageStep, NoDialogRow DEF PauseEvent, Changed, pages
    <2>. QED
        BY <1>0, <1>9, <2>1, ChangeStatusInv DEF PauseEvent
<1>10. CASE ConfirmCompleteEvent(a)
    <2>1. page' \in [Admins -> DialogRow] /\ counts' \in [Counters -> Nat]
        BY <1>0, <1>10, ConfirmInv, PageStep, NoDialogRow
           DEF ConfirmCompleteEvent, Changed
    <2>. QED
        BY <1>0, <1>10, <2>1, ChangeStatusInv DEF ConfirmCompleteEvent
<1>11. CASE Delete(a)
    <2>1. page' \in [Admins -> DialogRow] /\ counts' \in [Counters -> Nat]
        BY <1>11, PageStep, NoDialogRow DEF Delete, pages
    <2>. QED
        BY <1>11, <2>1, RemoveInv DEF Delete
<1>12. CASE Submit(a)
    BY <1>12, SubmitInv
<1>13. ASSUME NEW c \in cleaning, NEW arrives \in BOOLEAN, Answered(a, c, arrives)
       PROVE  EventInv'
    BY <1>13, AnsweredInv
<1>. QED
    BY <1>1, <1>2, <1>3, <1>4, <1>5, <1>6, <1>7, <1>8, <1>9, <1>10, <1>11, <1>12,
       <1>13 DEF Administrator

LEMMA CashierInv == EventInv /\ Cashier => EventInv'
<1>. SUFFICES ASSUME EventInv, Cashier PROVE EventInv'
    OBVIOUS
<1>1. ASSUME NEW s \in sessions, IssuesVoucher(s) PROVE EventInv'
    BY <1>1, ServerFrame DEF IssuesVoucher, pages, EventInv, RowsInv
<1>. QED
    BY <1>1, StartSessionInv, CloseSessionInv, CreateOrderInv, CancelOrderInv
       DEF Cashier

LEMMA ApiInv ==
    ASSUME EventInv,
           ApiUpdate \/ \E status \in ApiStatuses : ApiChange(status)
    PROVE  EventInv'
<1>1. page' \in [Admins -> DialogRow] /\ counts' \in [Counters -> Nat]
    <2>1. UNCHANGED page /\ Made("changes")
        BY DEF ApiUpdate, Update, ApiChange, Changed, pages
    <2>. QED
        BY <2>1, MadeCounts DEF EventInv, RowsInv, Counters
<1>2. CASE ApiUpdate
    <2>1. SetEvent(event) /\ event \in EventRow
        BY <1>2 DEF ApiUpdate, Update, EventInv, RowsInv
    <2>. QED
        BY <1>1, <2>1, SetEventInv
<1>3. ASSUME NEW status \in ApiStatuses, ApiChange(status) PROVE EventInv'
    <2>1. status \in EventStatuses
        BY DEF EventStatuses
    <2>. QED
        BY <1>1, <1>3, <2>1, ChangeStatusInv DEF ApiChange
<1>. QED
    BY <1>2, <1>3

LEMMA EventInit == ModeInit => EventInv
<1>. SUFFICES ASSUME ModeInit PROVE EventInv
    OBVIOUS
<1>1. event \in EventRow /\ page \in [Admins -> DialogRow]
    BY NoDialogRow DEF ModeInit, EventRow, EventStatuses
<1>2. counts \in [Counters -> Nat]
    BY DEF ModeInit, Counters
<1>3. sessions = {} /\ orders = {} /\ cleaning = {}
    BY DEF ModeInit
<1>. QED
    BY <1>1, <1>2, <1>3 DEF EventInv, RowsInv, FreshInv, ModesNeverMix

LEMMA EventStep == EventInv /\ [ModeNext]_modeVars => EventInv'
<1>. SUFFICES ASSUME EventInv, [ModeNext]_modeVars PROVE EventInv'
    OBVIOUS
<1>1. CASE UNCHANGED modeVars
    BY <1>1, ServerFrame DEF modeVars, server, pages, EventInv, RowsInv
<1>2. CASE ModeNext
    BY <1>2, CashierInv, AdministratorInv, EndCleanInv, ApiInv DEF ModeNext
<1>. QED
    BY <1>1, <1>2

(* The invariant of the life of an event holds in every state.             *)
THEOREM EventInductive == ModeSpec => []EventInv
BY EventInit, EventStep, PTL DEF ModeSpec

(* While an event runs, live or as a test, every order and session entered *)
(* for it is of that mode: activate, changeStatus and cleanTestData look   *)
(* for data of the other mode with the row of the event locked.            *)
THEOREM NoMixedModes == ModeSpec => []ModesNeverMix
<1>1. EventInv => ModesNeverMix
    BY DEF EventInv
<1>. QED
    BY <1>1, EventInductive, PTL

(* Only a clean-up that commits is recorded.                               *)
LEMMA OnlyCleaningIsRecorded ==
    ASSUME ModeNext, done' # done
    PROVE  \E c \in cleaning : EndClean(c) /\ Cleanable(c) /\ c.result = "running"
<1>1. ~Cashier
    BY DEF Cashier, StartsSession, ClosesSession, IssuesVoucher,
           CreatesOrder, CancelsOrder
<1>2. ASSUME Activate \/ Remove \/ \E status : ChangeStatus(status)
      PROVE  FALSE
    BY <1>2 DEF Activate, Remove, ChangeStatus, SetEvent, server
<1>3. ASSUME NEW a \in Admins, Administrator(a) PROVE FALSE
    <2>1. ASSUME NEW d, Shows(a, d) PROVE FALSE
        BY <2>1 DEF Shows, server
    <2>2. ASSUME NEW c, NEW arrives, Answered(a, c, arrives) PROVE FALSE
        BY <2>2 DEF Answered, server
    <2>3. ~(LoadEvents(a) \/ Tick(a) \/ Cancel(a) \/ Submit(a))
        BY DEF LoadEvents, Tick, Cancel, Submit, server
    <2>4. ~(OpenActivateModal(a) \/ OpenCleanup(a)
              \/ \E waiting \in BOOLEAN : OpenCompleteModal(a, waiting))
        BY <2>1 DEF OpenActivateModal, OpenCleanup, OpenCompleteModal
    <2>5. ~(ConfirmActivation(a) \/ SetTestMode(a) \/ PauseEvent(a)
              \/ ConfirmCompleteEvent(a) \/ Delete(a))
        BY <1>2 DEF ConfirmActivation, SetTestMode, PauseEvent,
                    ConfirmCompleteEvent, Delete
    <2>. QED
        BY <1>3, <2>2, <2>3, <2>4, <2>5 DEF Administrator
<1>4. ~ApiUpdate /\ \A status \in ApiStatuses : ~ApiChange(status)
    BY <1>2 DEF ApiUpdate, Update, SetEvent, ApiChange
<1>5. PICK c \in cleaning : EndClean(c)
    BY <1>1, <1>3, <1>4 DEF ModeNext
<1>6. Cleanable(c) /\ c.result = "running"
    BY <1>5 DEF EndClean, server
<1>. QED
    BY <1>5, <1>6

(* A clean-up asked for during the test never takes an event out of live   *)
(* operation: a row of the event written since it was read makes           *)
(* cleanTestData fail to serialize.                                        *)
THEOREM LiveIsNotCleaned == ModeSpec => CleaningNeverEndsLive
<1>. DEFINE Stays == event.status = "ACTIVE" /\ done' # done => event'.status = "ACTIVE"
<1>1. EventInv /\ [ModeNext]_modeVars => [Stays]_modeVars
    <2>. SUFFICES ASSUME EventInv, ModeNext, event.status = "ACTIVE", done' # done
                  PROVE  FALSE
        OBVIOUS
    <2>1. PICK c \in cleaning : Cleanable(c) /\ c.result = "running"
        BY OnlyCleaningIsRecorded
    <2>2. ~c.stale /\ c.event.status = "TEST_MODE"
        BY <2>1 DEF Cleanable, Serializes
    <2>3. c.event = event
        BY <2>1, <2>2 DEF EventInv, FreshInv
    <2>. QED
        BY <2>2, <2>3
<1>2. [][Stays]_modeVars => CleaningNeverEndsLive
    BY DEF CleaningNeverEndsLive
<1>. QED
    BY <1>1, <1>2, EventInductive, PTL DEF ModeSpec

(***************************************************************************)
(* The ledger of the tests                                                 *)
(***************************************************************************)

(* What a set of movements adds up to.                                     *)
DeltaOf    == [m \in MoveRow |-> m.delta]
Balance(S) == SumOver(DeltaOf, S)

LEMMA BalanceIsSum ==
    ASSUME NEW S \in SUBSET MoveRow
    PROVE  MapThenSumSet(LAMBDA m : m.delta, S) = Balance(S)
<1>. DEFINE Entry(f, s) == IF s = {} THEN 0
                           ELSE Pick(s).delta + f[s \ {Pick(s)}]
<1>1. MapThenSumSet(LAMBDA m : m.delta, S)
        = (CHOOSE f : f = [s \in SUBSET S |-> Entry(f, s)])[S]
    BY DEF MapThenSumSet, MapThenFoldSet, Pick
<1>2. \A s \in SUBSET S : s # {} => DeltaOf[Pick(s)] = Pick(s).delta
    BY PickIn DEF DeltaOf
<1>3. \A f : [s \in SUBSET S |-> Entry(f, s)]
           = [s \in SUBSET S |-> IF s = {} THEN 0
                                 ELSE DeltaOf[Pick(s)] + f[s \ {Pick(s)}]]
    BY <1>2
<1>4. \A f : (f = [s \in SUBSET S |-> Entry(f, s)]) <=> IsTable(DeltaOf, S, f)
    BY <1>3 DEF IsTable
<1>5. (CHOOSE f : f = [s \in SUBSET S |-> Entry(f, s)])
        = (CHOOSE f : IsTable(DeltaOf, S, f))
    BY <1>4
<1>. QED
    BY <1>1, <1>5 DEF SumOver, Balance

LEMMA BalanceInt ==
    ASSUME NEW S \in SUBSET MoveRow, IsFiniteSet(S)
    PROVE  Balance(S) \in Int
<1>1. \A m \in S : DeltaOf[m] \in Int
    BY DEF DeltaOf, MoveRow
<1>2. S \in SUBSET S
    OBVIOUS
<1>. QED
    BY <1>1, <1>2, SumInt DEF Balance

(* A movement more adds its delta.                                         *)
LEMMA BalanceAdds ==
    ASSUME NEW S \in SUBSET MoveRow, IsFiniteSet(S), NEW x \in MoveRow, x \notin S
    PROVE  /\ Balance(S \union {x}) = x.delta + Balance(S)
           /\ IsFiniteSet(S \union {x})
<1>. DEFINE T == S \union {x}
<1>1. IsFiniteSet(T)
    BY FS_AddElement
<1>2. \A m \in T : DeltaOf[m] \in Int
    BY DEF DeltaOf, MoveRow
<1>3. T \in SUBSET T /\ x \in T /\ T \ {x} = S /\ DeltaOf[x] = x.delta
    BY DEF DeltaOf
<1>. HIDE DEF T
<1>4. SumOver(DeltaOf, T) = DeltaOf[x] + SumOver(DeltaOf, T \ {x})
    BY <1>1, <1>2, <1>3, SumTakes
<1>. QED
    BY <1>1, <1>3, <1>4 DEF Balance, T

LEMMA BalanceOfNothing == Balance({}) = 0
<1>1. IsFiniteSet({}) /\ {} \in SUBSET {}
    BY FS_EmptySet
<1>. QED
    BY <1>1, SumStep DEF Balance

LedgerInv ==
    /\ IsFiniteSet(moves) /\ moves \subseteq MoveRow /\ stock \in Int
    /\ \A m \in moves : m.order <= counts.orders
    /\ \A o \in orders : o.nr <= counts.orders
    /\ stock = Balance(moves)

(* No movement, and no order but those that were there.                    *)
LEMMA LedgerFrame ==
    ASSUME LedgerInv, UNCHANGED <<stock, moves>>, orders' \subseteq orders,
           counts'.orders = counts.orders
    PROVE  LedgerInv'
BY DEF LedgerInv

LEMMA CreateLedger ==
    ASSUME EventInv, LedgerInv, NEW tracked \in BOOLEAN, NEW u,
           CreatesOrder(u, tracked)
    PROVE  LedgerInv'
<1>. DEFINE new == [nr |-> counts.orders + 1, mode |-> DataMode, session |-> u]
            m == [type |-> "SALE", order |-> counts.orders + 1, delta |-> -1]
<1>1. /\ orders' = orders \union {new} /\ new.nr = counts.orders + 1
      /\ stock' = (IF tracked THEN stock - 1 ELSE stock)
      /\ moves' = (IF tracked THEN moves \union {m} ELSE moves)
    BY DEF CreatesOrder
<1>2. /\ counts.orders \in Nat /\ counts'.orders = counts.orders + 1
      /\ orders \subseteq OrderRow
    BY MadeCounts DEF CreatesOrder, EventInv, RowsInv, Counters
<1>3. \A o \in orders' : o.nr <= counts'.orders
    BY <1>1, <1>2 DEF LedgerInv, OrderRow
<1>4. \A k \in moves : k.order <= counts'.orders /\ k.order # counts.orders + 1
    BY <1>2 DEF LedgerInv, MoveRow
<1>5. CASE tracked
    <2>1. m \in MoveRow /\ m \notin moves /\ m.delta = -1 /\ m.order = counts.orders + 1
        BY <1>2, <1>4 DEF MoveRow
    <2>. HIDE DEF m
    <2>2. Balance(moves') = -1 + Balance(moves) /\ IsFiniteSet(moves')
        BY <1>1, <1>5, <2>1, BalanceAdds DEF LedgerInv
    <2>3. stock' = stock - 1
        BY <1>1, <1>5
    <2>. QED
        BY <1>1, <1>2, <1>3, <1>4, <1>5, <2>1, <2>2, <2>3 DEF LedgerInv
<1>6. CASE ~tracked
    BY <1>1, <1>3, <1>4, <1>6 DEF LedgerInv
<1>. QED
    BY <1>5, <1>6

LEMMA CancelLedger ==
    ASSUME EventInv, LedgerInv, NEW o \in orders, CancelsOrder(o)
    PROVE  LedgerInv'
<1>. DEFINE m == [type |-> "CANCELLATION", order |-> o.nr, delta |-> 1]
<1>1. /\ moves' = moves \union {m} /\ stock' = stock + 1 /\ UNCHANGED <<orders, counts>>
      /\ ~ \E k \in moves : k.order = o.nr /\ k.type = "CANCELLATION"
    BY DEF CancelsOrder, Returnable, MoveOf
<1>2. o.nr \in Nat /\ o.nr <= counts.orders
    BY DEF EventInv, RowsInv, OrderRow, LedgerInv
<1>3. m \in MoveRow /\ m \notin moves /\ m.delta = 1 /\ m.order = o.nr
    BY <1>1, <1>2 DEF MoveRow
<1>. HIDE DEF m
<1>4. Balance(moves') = 1 + Balance(moves) /\ IsFiniteSet(moves')
    BY <1>1, <1>3, BalanceAdds DEF LedgerInv
<1>. QED
    BY <1>1, <1>2, <1>3, <1>4 DEF LedgerInv

LEMMA CleanLedger ==
    ASSUME EventInv, LedgerInv, NEW c \in cleaning, EndClean(c)
    PROVE  LedgerInv'
<1>1. counts' = counts
    BY DEF EndClean
<1>2. CASE UNCHANGED server
    BY <1>1, <1>2, LedgerFrame DEF server
<1>3. CASE CleanAway(c)
    <2>1. /\ moves' = Kept /\ orders' \subseteq orders
          /\ stock' = IF moves = Kept THEN stock
                      ELSE MapThenSumSet(LAMBDA m : m.delta, Kept)
        BY <1>3 DEF CleanAway, ResetTestInventory, Explained
    <2>2. Kept \subseteq moves
        BY DEF Kept
    <2>3. Kept \in SUBSET MoveRow /\ IsFiniteSet(Kept)
        BY <2>2, FS_Subset DEF LedgerInv
    <2>4. /\ MapThenSumSet(LAMBDA m : m.delta, Kept) = Balance(Kept)
          /\ Balance(Kept) \in Int
        BY <2>3, BalanceIsSum, BalanceInt
    <2>5. stock' = Balance(moves') /\ stock' \in Int
        BY <2>1, <2>4 DEF LedgerInv
    <2>. QED
        BY <1>1, <2>1, <2>2, <2>3, <2>5 DEF LedgerInv
<1>. QED
    BY <1>2, <1>3 DEF EndClean

LEMMA MadeOther ==
    ASSUME EventInv, NEW w \in Counters \ {"orders"}, Made(w)
    PROVE  counts'.orders = counts.orders
BY MadeCounts DEF EventInv, RowsInv, Counters

LEMMA SetLedger ==
    ASSUME LedgerInv, counts'.orders = counts.orders,
           Activate \/ Remove \/ (\E status : ChangeStatus(status))
             \/ SetEvent(event)
    PROVE  LedgerInv'
BY LedgerFrame
   DEF Activate, Remove, ChangeStatus, SetEvent, server

LEMMA AdministratorLedger ==
    ASSUME EventInv, LedgerInv, NEW a \in Admins, Administrator(a)
    PROVE  LedgerInv'
<1>0. {"changes", "dialogs", "requests"} \subseteq Counters \ {"orders"}
    BY DEF Counters
<1>1. CASE LoadEvents(a) \/ Tick(a) \/ Cancel(a)
    BY <1>1, LedgerFrame DEF LoadEvents, Tick, Cancel, server
<1>2. ASSUME NEW d, Shows(a, d) PROVE LedgerInv'
    BY <1>0, <1>2, MadeOther, LedgerFrame DEF Shows, server
<1>3. CASE OpenActivateModal(a) \/ OpenCleanup(a)
             \/ \E waiting \in BOOLEAN : OpenCompleteModal(a, waiting)
    BY <1>2, <1>3 DEF OpenActivateModal, OpenCleanup, OpenCompleteModal
<1>4. CASE ConfirmActivation(a) \/ SetTestMode(a) \/ PauseEvent(a)
             \/ ConfirmCompleteEvent(a)
    <2>1. counts'.orders = counts.orders
        BY <1>0, <1>4, MadeOther DEF ConfirmActivation, SetTestMode,
           PauseEvent, ConfirmCompleteEvent, Changed
    <2>. QED
        BY <1>4, <2>1, SetLedger DEF ConfirmActivation, SetTestMode,
           PauseEvent, ConfirmCompleteEvent
<1>5. CASE Delete(a)
    BY <1>5, SetLedger DEF Delete
<1>6. CASE Submit(a)
    BY <1>0, <1>6, MadeOther, LedgerFrame DEF Submit, server
<1>7. ASSUME NEW c, NEW arrives, Answered(a, c, arrives) PROVE LedgerInv'
    BY <1>7, LedgerFrame DEF Answered, server
<1>. QED
    BY <1>1, <1>3, <1>4, <1>5, <1>6, <1>7 DEF Administrator

LEMMA LedgerStep == EventInv /\ LedgerInv /\ [ModeNext]_modeVars => LedgerInv'
<1>. SUFFICES ASSUME EventInv, LedgerInv, [ModeNext]_modeVars PROVE LedgerInv'
    OBVIOUS
<1>0. {"changes", "sessions"} \subseteq Counters \ {"orders"}
    BY DEF Counters
<1>1. CASE UNCHANGED modeVars
    BY <1>1, LedgerFrame DEF modeVars, server
<1>2. ASSUME NEW u, StartsSession(u) PROVE LedgerInv'
    BY <1>0, <1>2, MadeOther, LedgerFrame DEF StartsSession
<1>3. ASSUME NEW s, ClosesSession(s) \/ IssuesVoucher(s) PROVE LedgerInv'
    BY <1>3, LedgerFrame DEF ClosesSession, IssuesVoucher
<1>4. CASE Cashier
    BY <1>2, <1>3, <1>4, CreateLedger, CancelLedger DEF Cashier
<1>5. CASE ApiUpdate \/ \E status \in ApiStatuses : ApiChange(status)
    BY <1>0, <1>5, MadeOther, SetLedger DEF ApiUpdate, Update, ApiChange, Changed
<1>. QED
    BY <1>1, <1>4, <1>5, AdministratorLedger, CleanLedger DEF ModeNext

LEMMA LedgerInit == ModeInit => LedgerInv
<1>. SUFFICES ASSUME ModeInit PROVE LedgerInv
    OBVIOUS
<1>1. orders = {} /\ counts.orders = 0
    BY DEF ModeInit
<1>2. CASE ~products
    BY <1>1, <1>2, BalanceOfNothing, FS_EmptySet DEF ModeInit, LedgerInv
<1>3. CASE products
    <2>. DEFINE m == [type |-> "INITIALIZATION", order |-> 0, delta |-> InitialStock]
    <2>1. m \in MoveRow /\ m.delta = InitialStock /\ m.order = 0
        BY StockAssumption DEF MoveRow
    <2>2. moves = {} \union {m} /\ stock = InitialStock
        BY <1>3 DEF ModeInit
    <2>. HIDE DEF m
    <2>3. IsFiniteSet({})
        BY FS_EmptySet
    <2>4. Balance(moves) = InitialStock + Balance({}) /\ IsFiniteSet(moves)
        BY <2>1, <2>2, <2>3, BalanceAdds
    <2>. QED
        BY <1>1, <2>1, <2>2, <2>4, BalanceOfNothing, StockAssumption DEF LedgerInv
<1>. QED
    BY <1>2, <1>3 DEF ModeInit

(* The movements of the test always add up to the stock, whatever is sold, *)
(* cancelled and cleaned up meanwhile: createOrder, cancelOrder and        *)
(* resetTestInventory.                                                     *)
THEOREM TestLedger == ModeSpec => []TestStockExplained
<1>1. ModeInit => LedgerInv
    BY LedgerInit
<1>2. EventInv /\ LedgerInv /\ [ModeNext]_modeVars => LedgerInv'
    BY LedgerStep
<1>3. LedgerInv => TestStockExplained
    BY BalanceIsSum DEF LedgerInv, TestStockExplained
<1>. QED
    BY <1>1, <1>2, <1>3, EventInductive, PTL DEF ModeSpec
=============================================================================
