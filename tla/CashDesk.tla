------------------------------ MODULE CashDesk ------------------------------
(***************************************************************************)
(* Orders and the money paid for them: creating and paying orders, whole    *)
(* or by position, cancelling orders and positions, value vouchers, and the *)
(* session of the cashier who takes the money.                             *)
(*                                                                         *)
(* A handler is a database transaction of two steps: it takes its row locks *)
(* and reads, and later writes and commits.  What it read without a lock    *)
(* may be different by then.  Redeeming a voucher runs SERIALIZABLE: it     *)
(* reads from a snapshot taken before it locks, and a locked row that is no  *)
(* longer the one of the snapshot aborts it.                               *)
(***************************************************************************)
EXTENDS Integers, FiniteSetsExt

CONSTANTS
    Orders, Items,  \* every order has the positions Items
    Qty, Price,     \* quantity of a position; price and deposit of a unit
    MaxQty,         \* the largest quantity of a position
    Refunds,        \* deposit refunds a guest may bring
    Amounts,        \* payments offered
    Methods,        \* CASH, CARD
    Vouchers,       \* value vouchers
    Value,          \* their value when issued
    Keys,           \* idempotency keys of redemptions
    Sessions,       \* sessions the cashier may ever open, in order
    Txs,            \* transactions that may run at the same time
    Event,          \* the row of the event
    NoTx, NoVoucher, NoKey,
    Kinds           \* the requests of this instance

ASSUME CashAssumption ==
    /\ IsFiniteSet(Items) /\ MaxQty \in Nat
    /\ Qty \in [Items -> 1..MaxQty] /\ Price \in [Items -> Nat \ {0}]
    /\ Refunds \subseteq Nat /\ Amounts \subseteq Nat \ {0}
    /\ Value \in Nat \ {0} /\ Methods \subseteq {"CASH", "CARD"}
    /\ Sessions \subseteq Nat \ {0}
    /\ NoTx \notin Txs
    /\ NoVoucher \notin Vouchers /\ NoKey \notin Keys

(* The value of a number of units of each position.                        *)
Worth(units) == MapThenSumSet(LAMBDA i : units[i] * Price[i], Items)
Gross        == Worth(Qty)

VARIABLES
    (* Order, OrderItem, with the sum of the order's payments *)
    order, item,
    (* ValueVoucher; the keys of the movements booked *)
    voucher, booked,
    (* CashierSession; cash payments less payouts booked on it *)
    session, cash,
    (* row locks, running transactions *)
    lock, tx,
    (* history: what redemptions took from a voucher, units paid by position, *)
    (* the cash counted as expected when a session was closed                *)
    spent, splitUnits, expected

moneyVars   == <<order, item, splitUnits>>
voucherVars == <<voucher, booked, spent>>
drawerVars  == <<session, cash, expected>>
vars        == <<moneyVars, voucherVars, drawerVars, lock, tx>>

NoSession == 0
Resources == Orders \union {Event} \union Sessions

OrderType ==
    [life : {"NONE", "SUBMITTED", "CANCELLED"},
     pay  : {"OPEN", "PARTIALLY_PAID", "PAID"},
     total : Nat, refund : Nat, paid : Nat]

NoOrder == [life |-> "NONE", pay |-> "OPEN", total |-> 0, refund |-> 0,
            paid |-> 0]

ItemType == [paid : Nat, cancelled : BOOLEAN]

VoucherType == [status : {"NONE", "ACTIVE", "DEPLETED", "CANCELLED"},
                balance : Nat]

Idle == [op |-> "none", order |-> Event, session |-> NoSession,
         amount |-> 0, refund |-> 0, cash |-> FALSE,
         units |-> [i \in Items |-> 0], voucher |-> NoVoucher, key |-> NoKey,
         row |-> NoOrder, items |-> [i \in Items |-> [paid |-> 0, cancelled |-> FALSE]],
         balance |-> 0]

TxType ==
    [op : {"none", "create", "quick", "add", "split", "cancel", "cancelItem",
           "redeemStart", "redeem"},
     order : Orders \union {Event}, session : Sessions \union {NoSession},
     amount : Nat, refund : Nat, cash : BOOLEAN, units : [Items -> 0..MaxQty],
     voucher : Vouchers \union {NoVoucher}, key : Keys \union {NoKey},
     row : OrderType, items : [Items -> ItemType], balance : Nat]

MoneyType ==
    /\ order \in [Orders -> OrderType]
    /\ item \in [Orders -> [Items -> ItemType]]
    /\ splitUnits \in [Orders -> [Items -> Nat]]

VouchersType ==
    /\ voucher \in [Vouchers -> VoucherType]
    /\ booked \in SUBSET Keys
    /\ spent \in [Vouchers -> Nat]

DrawerType ==
    /\ session \in [Sessions -> {"NONE", "ACTIVE", "CLOSED"}]
    /\ cash \in [Sessions -> Int]
    /\ expected \in [Sessions -> Int]

TransactionType ==
    /\ lock \in [Resources -> Txs \union {NoTx}]
    /\ tx \in [Txs -> TxType]

(* Every variable keeps its type; amounts are never negative.              *)
TypeOK == MoneyType /\ VouchersType /\ DrawerType /\ TransactionType

Init ==
    /\ order = [o \in Orders |-> NoOrder]
    /\ item = [o \in Orders |-> [i \in Items |-> [paid |-> 0, cancelled |-> FALSE]]]
    /\ voucher = [v \in Vouchers |-> [status |-> "NONE", balance |-> 0]]
    /\ booked = {}
    /\ session = [s \in Sessions |-> "NONE"]
    /\ cash = [s \in Sessions |-> 0]
    /\ lock = [r \in Resources |-> NoTx]
    /\ tx = [t \in Txs |-> Idle]
    /\ spent = [v \in Vouchers |-> 0]
    /\ splitUnits = [o \in Orders |-> [i \in Items |-> 0]]
    /\ expected = [s \in Sessions |-> 0]

(***************************************************************************)
(* Helpers                                                                 *)
(***************************************************************************)
Larger(a, b)  == IF a > b THEN a ELSE b
Smaller(a, b) == IF a < b THEN a ELSE b

(* The cashier's active session, if there is one.                          *)
ActiveSession ==
    IF \E s \in Sessions : session[s] = "ACTIVE"
    THEN CHOOSE s \in Sessions : session[s] = "ACTIVE" ELSE NoSession

Free(r)    == lock[r] = NoTx
Locks(t, R) == /\ \A r \in R : Free(r)
               /\ lock' = [r \in Resources |-> IF r \in R THEN t ELSE lock[r]]

(* Mutant: the order is read without a lock.                               *)
LockOrderForPayment_None(t, o) == UNCHANGED lock

(* lockOrderForPayment                                                     *)
LockOrderForPayment(t, o) == Locks(t, {o})

Starts(t, op, o, rec) ==
    /\ op \in Kinds
    /\ tx[t].op = "none"
    /\ tx' = [tx EXCEPT ![t] = [rec EXCEPT !.op = op, !.order = o]]

(* Commit or rollback: the locks go.                                       *)
Ends(t) ==
    /\ tx' = [tx EXCEPT ![t] = Idle]
    /\ lock' = [r \in Resources |-> IF lock[r] = t THEN NoTx ELSE lock[r]]

(* A payment row with the session the transaction read; sessions count the *)
(* cash.                                                                   *)
Books(s, amount) ==
    cash' = IF s = NoSession THEN cash ELSE [cash EXCEPT ![s] = @ + amount]

(* The payment and the status the handler found.                           *)
Pays(o, amount, status) ==
    order' = [order EXCEPT ![o] =
                 [@ EXCEPT !.paid = order[o].paid + amount, !.pay = status]]

CashOf(t, amount) == IF tx[t].cash THEN amount ELSE 0

Exists(o) == order[o].life # "NONE"

(***************************************************************************)
(* createOrder                                                             *)
(***************************************************************************)

(* The event is locked, the session read without a lock.                   *)
CreateStarts(t, o, refund, amount, byCash) ==
    /\ ~Exists(o)
    /\ refund <= Gross
    /\ Locks(t, {Event})
    /\ Starts(t, "create", o,
          [Idle EXCEPT !.refund = refund, !.amount = amount, !.cash = byCash,
                       !.session = ActiveSession])
    /\ UNCHANGED <<moneyVars, voucherVars, drawerVars>>

StatusOnCreate(paid, total) ==
    IF paid >= total THEN "PAID"
    ELSE IF paid > 0 THEN "PARTIALLY_PAID" ELSE "OPEN"

CreateOrder(t) ==
    LET o     == tx[t].order
        total == Gross - tx[t].refund
        pay   == StatusOnCreate(tx[t].amount, total)
    IN
    /\ tx[t].op = "create"
    /\ order' = [order EXCEPT ![o] =
          [life |-> "SUBMITTED", pay |-> pay, total |-> total,
           refund |-> tx[t].refund, paid |-> tx[t].amount]]
    /\ item' = [item EXCEPT ![o] =
          [i \in Items |-> [paid |-> IF pay = "PAID" THEN Qty[i] ELSE 0,
                            cancelled |-> FALSE]]]
    /\ Books(tx[t].session, CashOf(t, tx[t].amount))
    /\ Ends(t)
    /\ UNCHANGED <<splitUnits, voucherVars, session, expected>>

(***************************************************************************)
(* createQuickSale                                                         *)
(***************************************************************************)

(* The row of the session is locked with the event; without a session no    *)
(* sale.                                                                   *)

QuickSaleStarts(t, o, refund, byCash) ==
    LET s == ActiveSession IN
    /\ ~Exists(o)
    /\ s # NoSession
    /\ refund > Gross => byCash
    /\ Locks(t, {Event, s})
    /\ Starts(t, "quick", o,
          [Idle EXCEPT !.refund = refund, !.cash = byCash, !.session = s])
    /\ UNCHANGED <<moneyVars, voucherVars, drawerVars>>

(* The refund beyond the value of the goods is paid out in cash.           *)
QuickSale(t) ==
    LET o      == tx[t].order
        total  == Larger(0, Gross - tx[t].refund)
        payout == Larger(0, tx[t].refund - Gross)
    IN
    /\ tx[t].op = "quick"
    /\ order' = [order EXCEPT ![o] =
          [life |-> "SUBMITTED", pay |-> "PAID", total |-> total,
           refund |-> tx[t].refund, paid |-> total + payout]]
    /\ item' = [item EXCEPT ![o] =
          [i \in Items |-> [paid |-> Qty[i], cancelled |-> FALSE]]]
    /\ Books(tx[t].session, CashOf(t, total) - payout)
    /\ Ends(t)
    /\ UNCHANGED <<splitUnits, voucherVars, session, expected>>

(***************************************************************************)
(* addPaymentsToOrder                                                      *)
(***************************************************************************)
AddStarts(t, o, amount, byCash) ==
    /\ Exists(o)
    /\ order[o].pay # "PAID"
    /\ order[o].paid + amount <= order[o].total
    /\ LockOrderForPayment(t, o)
    /\ Starts(t, "add", o,
          [Idle EXCEPT !.amount = amount, !.cash = byCash,
                       !.session = ActiveSession, !.row = order[o]])
    /\ UNCHANGED <<moneyVars, voucherVars, drawerVars>>

(* The status follows from the sum read; the payment is a row of its own.   *)
AddPayments(t) ==
    LET o == tx[t].order
        a == tx[t].amount
    IN
    /\ tx[t].op = "add"
    /\ Pays(o, a, IF tx[t].row.paid + a >= tx[t].row.total
                  THEN "PAID" ELSE "PARTIALLY_PAID")
    /\ Books(tx[t].session, CashOf(t, a))
    /\ Ends(t)
    /\ UNCHANGED <<item, splitUnits, voucherVars, session, expected>>

(***************************************************************************)
(* splitPaymentOrder                                                       *)
(***************************************************************************)
SplitStarts(t, o, units, byCash) ==
    /\ Exists(o)
    /\ order[o].life # "CANCELLED"
    /\ order[o].pay # "PAID"
    /\ \A i \in Items : units[i] <= Qty[i] - item[o][i].paid
    /\ LockOrderForPayment(t, o)
    /\ Starts(t, "split", o,
          [Idle EXCEPT !.units = units, !.amount = Worth(units),
                       !.cash = byCash, !.session = ActiveSession,
                       !.items = item[o]])
    /\ UNCHANGED <<moneyVars, voucherVars, drawerVars>>

(* paidQuantity is written from what was read; cancelled positions count.   *)
PaidAfter(t) == [i \in Items |-> tx[t].items[i].paid + tx[t].units[i]]

(* Mutant: a position counts as paid once one of its units is.              *)
AllItemsFullyPaid_Begun(t) == \A i \in Items : PaidAfter(t)[i] > 0

AllItemsFullyPaid(t) == \A i \in Items : PaidAfter(t)[i] >= Qty[i]

SplitPayment(t) ==
    LET o == tx[t].order IN
    /\ tx[t].op = "split"
    /\ item' = [item EXCEPT ![o] =
          [i \in Items |-> IF tx[t].units[i] > 0
                           THEN [@[i] EXCEPT !.paid = PaidAfter(t)[i]]
                           ELSE @[i]]]
    /\ Pays(o, tx[t].amount,
            IF AllItemsFullyPaid(t) THEN "PAID" ELSE "PARTIALLY_PAID")
    /\ splitUnits' = [splitUnits EXCEPT ![o] =
          [i \in Items |-> @[i] + tx[t].units[i]]]
    /\ Books(tx[t].session, CashOf(t, tx[t].amount))
    /\ Ends(t)
    /\ UNCHANGED <<voucherVars, session, expected>>

(***************************************************************************)
(* cancelOrder, cancelOrderItem                                            *)
(***************************************************************************)

(* Both lock the order before they read and hold it to the end, so that     *)
(* nothing they read changes: one step.                                    *)
CancelOrder(o) ==
    /\ "cancel" \in Kinds
    /\ Exists(o) /\ Free(o)
    /\ order[o].life # "CANCELLED"
    /\ order' = [order EXCEPT ![o].life = "CANCELLED"]
    /\ item' = [item EXCEPT ![o] =
          [i \in Items |-> [@[i] EXCEPT !.cancelled = TRUE]]]
    /\ UNCHANGED <<splitUnits, voucherVars, drawerVars, lock, tx>>

(* The total is computed anew from the remaining positions; the payment     *)
(* status stays.                                                           *)

(* Mutant: the refund is subtracted without a floor of zero.               *)
CancelOrderItem_NoFloor(o, i) ==
    LET rest == {j \in Items \ {i} : ~item[o][j].cancelled}
        left == Worth([j \in Items |-> IF j \in rest THEN Qty[j] ELSE 0])
    IN
    /\ "cancelItem" \in Kinds
    /\ Exists(o) /\ Free(o)
    /\ ~item[o][i].cancelled
    /\ item' = [item EXCEPT ![o][i].cancelled = TRUE]
    /\ order' = [order EXCEPT ![o] =
          [@ EXCEPT !.total = left - order[o].refund,
                    !.life  = IF rest = {} THEN "CANCELLED"
                              ELSE order[o].life]]
    /\ UNCHANGED <<splitUnits, voucherVars, drawerVars, lock, tx>>

CancelOrderItem(o, i) ==
    LET rest == {j \in Items \ {i} : ~item[o][j].cancelled}
        left == Worth([j \in Items |-> IF j \in rest THEN Qty[j] ELSE 0])
    IN
    /\ "cancelItem" \in Kinds
    /\ Exists(o) /\ Free(o)
    /\ ~item[o][i].cancelled
    /\ item' = [item EXCEPT ![o][i].cancelled = TRUE]
    /\ order' = [order EXCEPT ![o] =
          [@ EXCEPT !.total = Larger(0, left - order[o].refund),
                    !.life  = IF rest = {} THEN "CANCELLED"
                              ELSE order[o].life]]
    /\ UNCHANGED <<splitUnits, voucherVars, drawerVars, lock, tx>>

(***************************************************************************)
(* Value vouchers                                                          *)
(***************************************************************************)

(* Issuing and cancelling lock all they read or abort: one step each.  A    *)
(* voucher is sold for cash or card in the cashier's session, as a          *)
(* movement and not as a payment.                                          *)
IssueVoucher(v) ==
    /\ "redeem" \in Kinds
    /\ ActiveSession # NoSession
    /\ voucher[v].status = "NONE"
    /\ voucher' = [voucher EXCEPT ![v] = [status |-> "ACTIVE", balance |-> Value]]
    /\ UNCHANGED <<moneyVars, booked, spent, drawerVars, lock, tx>>

CancelVoucher(v) ==
    /\ "redeem" \in Kinds
    /\ ActiveSession # NoSession
    /\ voucher[v] = [status |-> "ACTIVE", balance |-> Value]
    /\ voucher' = [voucher EXCEPT ![v] = [status |-> "CANCELLED", balance |-> 0]]
    /\ UNCHANGED <<moneyVars, booked, spent, drawerVars, lock, tx>>

(* The snapshot; a key that is booked is answered from the movement.        *)
RedeemStarts(t, o, v, key, byCash) ==
    /\ key \notin booked
    /\ ActiveSession # NoSession
    /\ Exists(o)
    /\ "redeem" \in Kinds
    /\ tx[t].op = "none"
    /\ tx' = [tx EXCEPT ![t] =
          [Idle EXCEPT !.op = "redeemStart", !.order = o, !.voucher = v,
                       !.key = key, !.cash = byCash,
                       !.session = ActiveSession,
                       !.row = order[o], !.items = item[o],
                       !.balance = IF voucher[v].status = "ACTIVE"
                                   THEN voucher[v].balance ELSE 0]]
    /\ UNCHANGED <<moneyVars, voucherVars, drawerVars, lock>>

Outstanding(row) == Larger(0, row.total - row.paid)

(* A row that changed since the snapshot cannot be locked.                 *)
OrderUnchanged(t) ==
    /\ order[tx[t].order] = tx[t].row
    /\ item[tx[t].order] = tx[t].items

RedeemLocksOrder(t) ==
    LET o == tx[t].order
        goesOn == /\ OrderUnchanged(t)
                  /\ order[o].life # "CANCELLED"
                  /\ Outstanding(tx[t].row) > 0
                  /\ tx[t].balance > 0
    IN
    /\ tx[t].op = "redeemStart"
    /\ Free(o)
    /\ \/ goesOn /\ Locks(t, {o}) /\ tx' = [tx EXCEPT ![t].op = "redeem"]
       \/ ~goesOn /\ Ends(t)
    /\ UNCHANGED <<moneyVars, voucherVars, drawerVars>>

(* Mutant: neither version nor balance is compared when the voucher is      *)
(* written.                                                                *)
VoucherUnchanged_StatusOnly(t) == voucher[tx[t].voucher].status = "ACTIVE"

VoucherUnchanged(t) ==
    voucher[tx[t].voucher] = [status |-> "ACTIVE", balance |-> tx[t].balance]

(* The voucher pays what it can and the rest is paid at once.              *)
Redeem(t) ==
    LET o    == tx[t].order
        v    == tx[t].voucher
        due  == Outstanding(tx[t].row)
        part == Smaller(tx[t].balance, due)
        left == tx[t].balance - part
    IN
    /\ tx[t].op = "redeem"
    /\ \/ /\ VoucherUnchanged(t) /\ tx[t].key \notin booked
          /\ voucher' = [voucher EXCEPT ![v] =
                [status |-> IF left = 0 THEN "DEPLETED" ELSE "ACTIVE",
                 balance |-> left]]
          /\ booked' = booked \union {tx[t].key}
          /\ spent' = [spent EXCEPT ![v] = @ + part]
          /\ Pays(o, due, IF tx[t].row.paid + due = tx[t].row.total
                          THEN "PAID" ELSE "PARTIALLY_PAID")
          /\ Books(tx[t].session, CashOf(t, due - part))
       \/ /\ ~VoucherUnchanged(t) \/ tx[t].key \in booked
          /\ UNCHANGED <<voucherVars, order, cash>>
    /\ Ends(t)
    /\ UNCHANGED <<item, splitUnits, session, expected>>

(***************************************************************************)
(* Cashier sessions                                                        *)
(***************************************************************************)
StartSession(s) ==
    /\ Free(Event)
    /\ ActiveSession = NoSession
    /\ session[s] = "NONE" /\ \A p \in Sessions : p < s => session[p] # "NONE"
    /\ session' = [session EXCEPT ![s] = "ACTIVE"]
    /\ UNCHANGED <<moneyVars, voucherVars, cash, expected, lock, tx>>

(* The expected cash is counted and recorded with the session locked.      *)
CloseSession(s) ==
    /\ session[s] = "ACTIVE" /\ Free(s)
    /\ session' = [session EXCEPT ![s] = "CLOSED"]
    /\ expected' = [expected EXCEPT ![s] = cash[s]]
    /\ UNCHANGED <<moneyVars, voucherVars, cash, lock, tx>>

(***************************************************************************)
(* Specification                                                           *)
(***************************************************************************)
SomeUnits == {u \in [Items -> 0..MaxQty] : \E i \in Items : u[i] > 0}

Commits(t) ==
    \/ CreateOrder(t) \/ QuickSale(t) \/ AddPayments(t) \/ SplitPayment(t)
    \/ RedeemLocksOrder(t) \/ Redeem(t)

Request(t, o) ==
    \E byCash \in {m = "CASH" : m \in Methods} :
       \/ \E r \in Refunds, a \in Amounts \union {0} : CreateStarts(t, o, r, a, byCash)
       \/ \E r \in Refunds : QuickSaleStarts(t, o, r, byCash)
       \/ \E a \in Amounts : AddStarts(t, o, a, byCash)
       \/ \E u \in SomeUnits : SplitStarts(t, o, u, byCash)
       \/ \E v \in Vouchers, k \in Keys : RedeemStarts(t, o, v, k, byCash)

Next ==
    \/ \E t \in Txs : Commits(t) \/ \E o \in Orders : Request(t, o)
    \/ \E o \in Orders : CancelOrder(o) \/ \E i \in Items : CancelOrderItem(o, i)
    \/ \E v \in Vouchers : IssueVoucher(v) \/ CancelVoucher(v)
    \/ \E s \in Sessions : StartSession(s) \/ CloseSession(s)

Spec == Init /\ [][Next]_vars

(***************************************************************************)
(* Properties                                                              *)
(***************************************************************************)

(* A voucher is never overdrawn and no redemption is lost: what it was       *)
(* issued for is its balance and what redemptions took, whatever            *)
(* redemptions of several orders and a cancellation run at the same time.   *)
VouchersConserved ==
    \A v \in Vouchers :
        CASE voucher[v].status = "NONE"      -> spent[v] = 0
          [] voucher[v].status = "CANCELLED" -> spent[v] = 0
          [] OTHER -> voucher[v].balance + spent[v] = Value

(* An order is PAID only if its payments cover its total, whatever mixture  *)
(* of payments, payments by position, vouchers and cancellations led there. *)
PaidMeansCovered ==
    \A o \in Orders :
        Exists(o) /\ order[o].pay = "PAID" => order[o].paid >= order[o].total

(* No unit of a position is paid twice by position.                        *)
UnitsPaidOnce ==
    \A o \in Orders, i \in Items : splitUnits[o][i] <= Qty[i]

(* A payment or a voucher never takes more than what is open: neither a      *)
(* parallel payment nor a cancelled position makes it an overpayment.        *)
NeverOverpays ==
    [][\A t \in Txs, o \in Orders :
          AddPayments(t) \/ Redeem(t) =>
             (order'[o].paid # order[o].paid => order'[o].paid <= order'[o].total)]_vars

(* A sale of the till is booked on a session that is still open: closing the *)
(* session waits for the sales that have begun, or comes first and stops them. *)
QuickSalesOnOpenSession ==
    [][\A t \in Txs :
          QuickSale(t) => session[tx[t].session] = "ACTIVE"]_vars

(* "Die Zahlung wuerde die Bestellung ueberzahlen": no payment by position   *)
(* takes more than the total either.                                       *)
SplitNeverOverpays ==
    [][\A t \in Txs : SplitPayment(t) =>
          order'[tx[t].order].paid <= order'[tx[t].order].total]_vars

(* "Eine stornierte Bestellung kann nicht bezahlt werden."                 *)
CancelledIsNotPaid ==
    [][\A o \in Orders :
          order[o].life = "CANCELLED" => order'[o].paid = order[o].paid]_vars

(* The expected cash recorded when a session is closed is the cash booked    *)
(* on it.                                                                  *)
ClosedTotalsFinal ==
    \A s \in Sessions : session[s] = "CLOSED" => expected[s] = cash[s]

(* When the rest is settled, the order is PAID.                            *)
SettledIsPaid ==
    \A o \in Orders :
        order[o].life = "SUBMITTED" /\ order[o].paid >= order[o].total
            => order[o].pay = "PAID"
=============================================================================
