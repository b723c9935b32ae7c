------------------------- MODULE FulfilmentProofs ---------------------------
(* Proofs about the fulfilment: for any orders, positions, stations,       *)
(* printers, monitors and runners, and any number of requests under way.   *)
(* Then about the assortment, whose stations the fulfilment works for: for *)
(* any events and files to begin with, administrators and requests.        *)
EXTENDS Fulfilment, Assortment, FiniteSetTheorems, SequenceTheorems, TLAPS

(***************************************************************************)
(* The inductive invariant                                                 *)
(***************************************************************************)

(* Monitors show, and ask for, positions of orders that were placed.       *)
PlacedInv ==
    /\ \A i \in Items : status[i] = "NONE" <=> ~Placed(OrderOf[i])
    /\ \A m \in Monitors : \A card \in shown[m] : Placed(OrderOf[card.item])
    /\ \A request \in sent : Placed(OrderOf[request.item])

(* The tickets of a position are those of its order's creation.            *)
TicketInv ==
    \A i \in Items :
        tickets[i] = IF Placed(OrderOf[i]) /\ targetPrinter(i) THEN 1 ELSE 0

(* What is on its way belongs to the order of a runner.                    *)
CarriedInv ==
    \A i \in Items : status[i] = "IN_DELIVERY" => claimedBy[OrderOf[i]] \in Runners

IInv == TypeOK /\ PlacedInv /\ TicketInv /\ CarriedInv

(***************************************************************************)
(* Lemmas about the helpers                                                *)
(***************************************************************************)
FulfillmentStatuses ==
    {"PENDING", "PREPARING", "PARTIALLY_READY", "READY", "PARTIALLY_DELIVERED", "DELIVERED"}

LEMMA DerivedStatus == \A of : deriveFulfillmentStatus(of) \in FulfillmentStatuses
BY DEF deriveFulfillmentStatus, FulfillmentStatuses

LEMMA OrderOfItem == \A i \in Items : OrderOf[i] \in Orders
BY OrderAssumption

LEMMA ReadingOf == TypeOK => \A o : StatusOf(o) \in Readings
<1> SUFFICES ASSUME TypeOK, NEW o PROVE StatusOf(o) \in Readings
    OBVIOUS
<1>1. ItemsOf(o) \in SUBSET Items
    BY DEF ItemsOf
<1>2. StatusOf(o) \in [ItemsOf(o) -> Statuses]
    BY <1>1 DEF StatusOf, TypeOK
<1> QED
    BY <1>1, <1>2 DEF Readings

LEMMA PendingCards == TypeOK => \A m : {[item |-> i, status |-> status[i]] : i \in getPendingItems(m)} \subseteq Cards
BY DEF getPendingItems, Cards

LEMMA PendingPlaced ==
    ASSUME TypeOK, PlacedInv, NEW m,
           NEW card \in {[item |-> i, status |-> status[i]] : i \in getPendingItems(m)}
    PROVE  Placed(OrderOf[card.item])
<1>1. PICK i \in getPendingItems(m) : card = [item |-> i, status |-> status[i]]
    OBVIOUS
<1>2. i \in Items /\ status[i] # "NONE" /\ card.item = i
    BY <1>1 DEF getPendingItems
<1> QED
    BY <1>2 DEF PlacedInv

(* A request that is sent or answered is one of the type.                  *)
LEMMA AnswersType ==
    ASSUME TypeOK, NEW call \in calls, Answers(call)
    PROVE  calls' \subseteq Calls /\ loading' \subseteq Runners
BY DEF TypeOK, Answers, Calls

(* A step that touches neither the rows of the positions nor a monitor.    *)
LEMMA Elsewhere ==
    ASSUME IInv, TypeOK',
           UNCHANGED <<status, claimedBy, lifecycleStatus, tickets, shown, sent>>
    PROVE  IInv'
BY DEF IInv, PlacedInv, TicketInv, CarriedInv, Placed, targetPrinter

(***************************************************************************)
(* Orders and what is printed for them                                     *)
(***************************************************************************)
LEMMA PrintsType ==
    ASSUME TypeOK, NEW o \in Orders, receiptJob(o)
    PROVE  receipts' \in [Orders -> Nat]
BY DEF TypeOK, receiptJob

LEMMA CreateOrderStep ==
    ASSUME IInv, NEW o \in Orders, CreateOrder(o)
    PROVE  IInv'
<1>u. UNCHANGED <<operating, fulfillmentStatus, claimedBy, isPriority, shown, sent, page,
                  calls, loading, refunded, starred, asides>>
    BY DEF CreateOrder, kitchen, delivery, history
<1>1. /\ lifecycleStatus' = [lifecycleStatus EXCEPT ![o] = "SUBMITTED"]
      /\ status' = [i \in Items |-> IF OrderOf[i] = o THEN "PENDING" ELSE status[i]]
      /\ tickets' = [i \in Items |-> IF OrderOf[i] = o /\ targetPrinter(i)
                                     THEN tickets[i] + 1 ELSE tickets[i]]
      /\ receiptJob(o) /\ ~Placed(o)
    BY DEF CreateOrder, dispatchPrintJobs, stationTickets
<1>2. TypeOK'
    <2>1. status' \in [Items -> Statuses] /\ tickets' \in [Items -> Nat]
        BY <1>1 DEF IInv, TypeOK, Statuses
    <2>2. lifecycleStatus' \in [Orders -> {"NONE", "SUBMITTED", "CANCELLED"}]
        BY <1>1 DEF IInv, TypeOK
    <2>3. receipts' \in [Orders -> Nat]
        BY <1>1, PrintsType DEF IInv
    <2> QED
        BY <1>u, <2>1, <2>2, <2>3 DEF IInv, TypeOK
<1>3. \A p \in Orders : Placed(p)' <=> Placed(p) \/ p = o
    BY <1>1 DEF IInv, TypeOK, Placed
<1>4. PlacedInv'
    <2>1. \A i \in Items : status'[i] = "NONE" <=> ~Placed(OrderOf[i])'
        BY <1>1, <1>3, OrderOfItem DEF IInv, PlacedInv
    <2>2. \A m \in Monitors : \A card \in shown[m] : card.item \in Items
        BY DEF IInv, TypeOK, Cards
    <2>3. \A request \in sent : request.item \in Items
        BY DEF IInv, TypeOK
    <2> QED
        BY <1>u, <1>3, <2>1, <2>2, <2>3, OrderOfItem DEF IInv, PlacedInv
<1>5. TicketInv'
    <2> SUFFICES ASSUME NEW i \in Items
                 PROVE  tickets'[i] = IF Placed(OrderOf[i])' /\ targetPrinter(i) THEN 1 ELSE 0
        BY DEF TicketInv, targetPrinter
    <2>1. tickets[i] = IF Placed(OrderOf[i]) /\ targetPrinter(i) THEN 1 ELSE 0
        BY DEF IInv, TicketInv
    <2> QED
        BY <1>1, <1>3, <2>1, OrderOfItem
<1>6. CarriedInv'
    BY <1>1, <1>u DEF IInv, CarriedInv
<1> QED
    BY <1>2, <1>4, <1>5, <1>6 DEF IInv

LEMMA reprintOrderStep ==
    ASSUME IInv, NEW o \in Orders, reprintOrder(o)
    PROVE  IInv'
<1>u. UNCHANGED <<operating, status, fulfillmentStatus, claimedBy, lifecycleStatus,
                  isPriority, tickets, shown, sent, page, calls, loading, refunded, starred>>
    BY DEF reprintOrder, dispatchPrintJobs, rows, kitchen, delivery
<1>1. receipts' \in [Orders -> Nat]
    BY PrintsType DEF reprintOrder, dispatchPrintJobs, IInv
<1>2. TypeOK'
    BY <1>1, <1>u DEF IInv, TypeOK
<1> QED
    BY <1>2, <1>u, Elsewhere

LEMMA Cancels ==
    ASSUME IInv, TypeOK', UNCHANGED <<claimedBy, tickets, shown, sent>>,
           \A o \in Orders : Placed(o)' <=> Placed(o),
           \A i \in Items : \/ status'[i] = status[i]
                            \/ status'[i] # "NONE" /\ status[i] # "NONE"
                               /\ status'[i] # "IN_DELIVERY"
    PROVE  IInv'
<1>1. PlacedInv'
    <2>2. \A m \in Monitors : \A card \in shown[m] : card.item \in Items
        BY DEF IInv, TypeOK, Cards
    <2>3. \A request \in sent : request.item \in Items
        BY DEF IInv, TypeOK
    <2> QED
        BY <2>2, <2>3, OrderOfItem DEF IInv, PlacedInv
<1>2. TicketInv'
    BY OrderOfItem DEF IInv, TicketInv, targetPrinter
<1>3. CarriedInv'
    BY DEF IInv, CarriedInv
<1> QED
    BY <1>1, <1>2, <1>3 DEF IInv

LEMMA cancelOrderStep ==
    ASSUME IInv, NEW o \in Orders, cancelOrder(o)
    PROVE  IInv'
<1>u. UNCHANGED <<operating, fulfillmentStatus, claimedBy, isPriority, tickets, receipts,
                  shown, sent, page, calls, loading, starred, asides>>
    BY DEF cancelOrder, prints, kitchen, delivery
<1>1. /\ lifecycleStatus[o] = "SUBMITTED"
      /\ lifecycleStatus' = [lifecycleStatus EXCEPT ![o] = "CANCELLED"]
      /\ status' = [i \in Items |-> IF OrderOf[i] = o THEN "CANCELLED" ELSE status[i]]
      /\ refunded' = refunded \cup ItemsOf(o)
    BY DEF cancelOrder
<1>2. TypeOK'
    BY <1>u, <1>1 DEF IInv, TypeOK, Statuses, ItemsOf
<1>3. \A p \in Orders : Placed(p)' <=> Placed(p)
    BY <1>1 DEF IInv, TypeOK, Placed
<1>4. \A i \in Items : \/ status'[i] = status[i]
                       \/ status'[i] # "NONE" /\ status[i] # "NONE"
                          /\ status'[i] # "IN_DELIVERY"
    BY <1>1 DEF IInv, PlacedInv, Placed
<1> QED
    BY <1>u, <1>2, <1>3, <1>4, Cancels

LEMMA cancelOrderItemStep ==
    ASSUME IInv, NEW i \in Items, cancelOrderItem(i)
    PROVE  IInv'
<1>u. UNCHANGED <<operating, fulfillmentStatus, claimedBy, isPriority, tickets, receipts,
                  shown, sent, page, calls, loading, starred, asides>>
    BY DEF cancelOrderItem, prints, kitchen, delivery
<1>1. /\ status[i] # "NONE" /\ status' = [status EXCEPT ![i] = "CANCELLED"]
      /\ lifecycleStatus' \in {[lifecycleStatus EXCEPT ![OrderOf[i]] = "CANCELLED"],
                               lifecycleStatus}
      /\ refunded' = refunded \cup {i}
    BY DEF cancelOrderItem
<1>2. TypeOK'
    <2>1. lifecycleStatus' \in [Orders -> {"NONE", "SUBMITTED", "CANCELLED"}]
        BY <1>1 DEF IInv, TypeOK
    <2>2. status' \in [Items -> Statuses]
        BY <1>1 DEF IInv, TypeOK, Statuses
    <2> QED
        BY <1>u, <1>1, <2>1, <2>2 DEF IInv, TypeOK
<1>3. \A p \in Orders : Placed(p)' <=> Placed(p)
    <2>1. Placed(OrderOf[i])
        BY <1>1 DEF IInv, PlacedInv
    <2> QED
        BY <1>1, <2>1 DEF IInv, TypeOK, Placed
<1>4. \A j \in Items : \/ status'[j] = status[j]
                       \/ status'[j] # "NONE" /\ status[j] # "NONE"
                          /\ status'[j] # "IN_DELIVERY"
    BY <1>1 DEF IInv, TypeOK
<1> QED
    BY <1>u, <1>2, <1>3, <1>4, Cancels

(***************************************************************************)
(* The monitor of a station                                                *)
(***************************************************************************)

(* A monitor shows and sends only what was placed; no row changes.         *)
LEMMA MonitorStep ==
    ASSUME IInv, UNCHANGED <<rows, prints, delivery>>,
           refunded' \subseteq Items, starred' \subseteq Orders,
           shown' \in [Monitors -> SUBSET Cards],
           sent' \subseteq [monitor : Monitors, item : Items, status : {"PREPARING", "READY"}],
           \A m \in Monitors : \A card \in shown'[m] : Placed(OrderOf[card.item]),
           \A request \in sent' : Placed(OrderOf[request.item])
    PROVE  IInv'
<1>u. UNCHANGED <<operating, status, fulfillmentStatus, claimedBy, lifecycleStatus, isPriority,
                  tickets, receipts, page, calls, loading>>
    BY DEF rows, prints, delivery
<1>1. TypeOK'
    BY <1>u DEF IInv, TypeOK
<1>2. PlacedInv'
    BY <1>u DEF IInv, PlacedInv, Placed
<1>3. TicketInv'
    BY <1>u DEF IInv, TicketInv, Placed, targetPrinter
<1>4. CarriedInv'
    BY <1>u DEF IInv, CarriedInv
<1> QED
    BY <1>1, <1>2, <1>3, <1>4 DEF IInv

LEMMA fetchItemsStep ==
    ASSUME IInv, NEW m \in Monitors, fetchItems(m)
    PROVE  IInv'
<1>1. PICK cards : cards = {[item |-> i, status |-> status[i]] : i \in getPendingItems(m)}
    OBVIOUS
<1>2. cards \subseteq Cards /\ \A card \in cards : Placed(OrderOf[card.item])
    BY <1>1, PendingCards, PendingPlaced DEF IInv
<1>3. shown' = [shown EXCEPT ![m] = cards]
    BY <1>1 DEF fetchItems
<1>4. /\ shown' \in [Monitors -> SUBSET Cards]
      /\ \A k \in Monitors : \A card \in shown'[k] : Placed(OrderOf[card.item])
    BY <1>2, <1>3 DEF IInv, TypeOK, PlacedInv
<1> QED
    BY <1>4, MonitorStep DEF fetchItems, history, IInv, TypeOK, PlacedInv

(* What a card becomes when it is touched.                                 *)
LEMMA SendsStep ==
    ASSUME IInv, NEW m \in Monitors, NEW card \in shown[m], NEW to \in {"PREPARING", "READY"},
           NEW left \in SUBSET {[card EXCEPT !.status = "PREPARING"]},
           shown' = [shown EXCEPT ![m] = (@ \ {card}) \cup left],
           Sends(m, card.item, to),
           UNCHANGED <<rows, prints, delivery, history>>
    PROVE  IInv'
<1>1. card \in Cards /\ Placed(OrderOf[card.item])
    BY DEF IInv, TypeOK, PlacedInv
<1>2. PICK touched : touched = [card EXCEPT !.status = "PREPARING"]
    OBVIOUS
<1>3. touched \in Cards /\ touched.item = card.item
    BY <1>1, <1>2 DEF Cards
<1>4. \A k \in Monitors : \A c \in shown'[k] : c \in shown[k] \/ c = touched
    BY <1>2 DEF IInv, TypeOK
<1>5. shown' \in [Monitors -> SUBSET Cards]
    BY <1>2, <1>3 DEF IInv, TypeOK
<1>6. \A k \in Monitors : \A c \in shown'[k] : Placed(OrderOf[c.item])
    BY <1>1, <1>3, <1>4 DEF IInv, PlacedInv
<1>7. PICK request : request = [monitor |-> m, item |-> card.item, status |-> to]
    OBVIOUS
<1>8. /\ request.item = card.item
      /\ request \in [monitor : Monitors, item : Items, status : {"PREPARING", "READY"}]
    BY <1>1, <1>7 DEF Cards
<1>9. sent' = sent \cup {request}
    BY <1>7 DEF Sends
<1>10. /\ sent' \subseteq [monitor : Monitors, item : Items, status : {"PREPARING", "READY"}]
       /\ \A r \in sent' : Placed(OrderOf[r.item])
    BY <1>1, <1>8, <1>9 DEF IInv, TypeOK, PlacedInv
<1> QED
    BY <1>5, <1>6, <1>10, MonitorStep DEF history, IInv, TypeOK

LEMMA startPreparingStep ==
    ASSUME IInv, NEW m \in Monitors, NEW card \in shown[m], startPreparing(m, card)
    PROVE  IInv'
<1>1. PICK left : left = {[card EXCEPT !.status = "PREPARING"]}
    OBVIOUS
<1> QED
    BY <1>1, SendsStep DEF startPreparing

LEMMA markAsReadyStep ==
    ASSUME IInv, NEW m \in Monitors, NEW card \in shown[m], markAsReady(m, card)
    PROVE  IInv'
<1>1. PICK left : left = {}
    OBVIOUS
<1>2. shown' = [shown EXCEPT ![m] = (@ \ {card}) \cup left]
    <2>1. (shown[m] \ {card}) \cup left = shown[m] \ {card}
        BY <1>1
    <2> QED
        BY <2>1 DEF markAsReady
<1>3. left \in SUBSET {[card EXCEPT !.status = "PREPARING"]}
    BY <1>1
<1> QED
    BY <1>2, <1>3, SendsStep DEF markAsReady

(* A request of a monitor arrives.                                         *)
LEMMA updateItemStatusStep ==
    ASSUME IInv, NEW request \in sent, updateItemStatus(request)
    PROVE  IInv'
<1>u. UNCHANGED <<operating, claimedBy, lifecycleStatus, isPriority, tickets, receipts, shown,
                  page, calls, loading, refunded, starred, asides>>
    BY DEF updateItemStatus, prints, delivery, history
<1>1. PICK of : of = [StatusOf(OrderOf[request.item]) EXCEPT ![request.item] = request.status]
    OBVIOUS
<1>2. /\ sent' = sent \ {request}
      /\ status' = [status EXCEPT ![request.item] = request.status]
      /\ fulfillmentStatus' = [fulfillmentStatus EXCEPT ![OrderOf[request.item]] =
                                   deriveFulfillmentStatus(of)]
    BY <1>1 DEF updateItemStatus
<1>3. request.item \in Items /\ request.status \in {"PREPARING", "READY"}
    BY DEF IInv, TypeOK
<1>4. TypeOK'
    <2>1. status' \in [Items -> Statuses]
        BY <1>2, <1>3 DEF IInv, TypeOK, Statuses
    <2>2. fulfillmentStatus' \in [Orders -> FulfillmentStatuses]
        BY <1>2, DerivedStatus DEF IInv, TypeOK, FulfillmentStatuses
    <2> QED
        BY <1>u, <1>2, <2>1, <2>2 DEF IInv, TypeOK, FulfillmentStatuses
<1>5. PlacedInv'
    BY <1>u, <1>2, <1>3 DEF IInv, TypeOK, PlacedInv, Placed
<1>6. TicketInv'
    BY <1>u DEF IInv, TicketInv, Placed, targetPrinter
<1>7. CarriedInv'
    BY <1>u, <1>2, <1>3 DEF IInv, TypeOK, CarriedInv
<1> QED
    BY <1>4, <1>5, <1>6, <1>7 DEF IInv

LEMMA updateFailsStep ==
    ASSUME IInv, NEW request \in sent, updateFails(request)
    PROVE  IInv'
<1>1. PICK m : m = request.monitor
    OBVIOUS
<1>2. m \in Monitors
    BY <1>1 DEF IInv, TypeOK
<1>3. PICK cards : cards = {[item |-> i, status |-> status[i]] : i \in getPendingItems(m)}
    OBVIOUS
<1>4. cards \subseteq Cards /\ \A card \in cards : Placed(OrderOf[card.item])
    BY <1>3, PendingCards, PendingPlaced DEF IInv
<1>5. shown' = [shown EXCEPT ![m] = cards] /\ sent' = sent \ {request}
    BY <1>1, <1>3 DEF updateFails
<1>6. /\ shown' \in [Monitors -> SUBSET Cards]
      /\ \A k \in Monitors : \A card \in shown'[k] : Placed(OrderOf[card.item])
    BY <1>2, <1>4, <1>5 DEF IInv, TypeOK, PlacedInv
<1>7. /\ sent' \subseteq [monitor : Monitors, item : Items, status : {"PREPARING", "READY"}]
      /\ \A r \in sent' : Placed(OrderOf[r.item])
    BY <1>5 DEF IInv, TypeOK, PlacedInv
<1> QED
    BY <1>6, <1>7, MonitorStep DEF updateFails, history, IInv, TypeOK

LEMMA togglePriorityStep ==
    ASSUME IInv, NEW m \in Monitors, NEW card \in shown[m], togglePriority(m, card)
    PROVE  IInv'
<1>u. UNCHANGED <<operating, status, fulfillmentStatus, claimedBy, lifecycleStatus, tickets,
                  receipts, shown, sent, page, calls, loading, refunded>>
    BY DEF togglePriority, prints, kitchen, delivery
<1>1. OrderOf[card.item] \in Orders
    BY OrderOfItem DEF IInv, TypeOK, Cards
<1>2. isPriority' \in [Orders -> BOOLEAN] /\ starred' \subseteq Orders
    BY <1>1 DEF togglePriority, IInv, TypeOK
<1>3. TypeOK'
    BY <1>u, <1>2 DEF IInv, TypeOK
<1> QED
    BY <1>3, <1>u, Elsewhere

(***************************************************************************)
(* Runners                                                                 *)
(***************************************************************************)
LEMMA fetchQueueStep ==
    ASSUME IInv, NEW r \in Runners, fetchQueue(r)
    PROVE  IInv'
<1>u. UNCHANGED <<operating, status, fulfillmentStatus, claimedBy, lifecycleStatus, isPriority,
                  tickets, receipts, shown, sent, calls, refunded, starred, asides>>
    BY DEF fetchQueue, rows, prints, kitchen, history
<1>1. PICK lists : lists = [ready |-> listOrders,
                            more |-> {o \in listMine(r) : Has(o, {"READY"})},
                            carried |-> {o \in listMine(r) : Has(o, {"IN_DELIVERY"})}]
    OBVIOUS
<1>2. /\ listOrders \in SUBSET Orders
      /\ {o \in listMine(r) : Has(o, {"READY"})} \in SUBSET Orders
      /\ {o \in listMine(r) : Has(o, {"IN_DELIVERY"})} \in SUBSET Orders
    BY DEF listOrders, listMine
<1>3. lists \in [ready : SUBSET Orders, more : SUBSET Orders, carried : SUBSET Orders]
    BY <1>1, <1>2
<1>4. page' = [page EXCEPT ![r] = lists] /\ loading' = loading \ {r}
    BY <1>1 DEF fetchQueue
<1>5. TypeOK'
    BY <1>u, <1>3, <1>4 DEF IInv, TypeOK
<1> QED
    BY <1>u, <1>5, Elsewhere

LEMMA fetchFailsStep ==
    ASSUME IInv, NEW r \in Runners, fetchFails(r)
    PROVE  IInv'
<1>u. UNCHANGED <<operating, status, fulfillmentStatus, claimedBy, lifecycleStatus, isPriority,
                  tickets, receipts, shown, sent, page, calls, refunded, starred, asides>>
    BY DEF fetchFails, rows, prints, kitchen, history
<1>1. TypeOK'
    BY <1>u DEF IInv, TypeOK, fetchFails
<1> QED
    BY <1>u, <1>1, Elsewhere

LEMMA runActionStep ==
    ASSUME IInv, NEW r \in Runners, NEW o \in Orders, NEW action \in {"claim", "deliver"},
           runAction(r, o, action)
    PROVE  IInv'
<1>u. UNCHANGED <<operating, status, fulfillmentStatus, claimedBy, lifecycleStatus, isPriority,
                  tickets, receipts, shown, sent, page, loading, refunded, starred, asides>>
    BY DEF runAction, rows, prints, kitchen, history
<1>1. Call(r, o, action) \in Calls
    BY DEF Call, Calls, Readings
<1>2. TypeOK'
    BY <1>u, <1>1 DEF IInv, TypeOK, runAction
<1> QED
    BY <1>u, <1>2, Elsewhere

LEMMA actionTimesOutStep ==
    ASSUME IInv, NEW call \in calls, actionTimesOut(call)
    PROVE  IInv'
<1>u. UNCHANGED <<operating, status, fulfillmentStatus, claimedBy, lifecycleStatus, isPriority,
                  tickets, receipts, shown, sent, page, refunded, starred>>
    BY DEF actionTimesOut, rows, prints, kitchen
<1>1. call \in Calls
    BY DEF IInv, TypeOK
<1>2. [call EXCEPT !.awaited = FALSE] \in Calls /\ call.runner \in Runners
    BY <1>1 DEF Calls
<1>3. calls' \subseteq Calls /\ loading' \subseteq Runners
    BY <1>2 DEF IInv, TypeOK, actionTimesOut
<1>4. TypeOK'
    BY <1>u, <1>3 DEF IInv, TypeOK
<1> QED
    BY <1>u, <1>4, Elsewhere

(* Two runners ask for the same order: the first to lock it gets it.       *)
LEMMA claimOrderStep ==
    ASSUME IInv, NEW call \in calls, claimOrder(call)
    PROVE  IInv'
<1>u. UNCHANGED <<operating, lifecycleStatus, isPriority, tickets, receipts, shown, sent, page,
                  refunded, starred, asides>>
    BY DEF claimOrder, prints, kitchen, history
<1>0. PICK o, r : o = call.order /\ r = call.runner
    OBVIOUS
<1>1. o \in Orders /\ r \in Runners
    BY <1>0 DEF IInv, TypeOK, Calls
<1>2. /\ claimedBy' = [claimedBy EXCEPT ![o] = r]
      /\ fulfillmentStatus' = [fulfillmentStatus EXCEPT ![o] = "PARTIALLY_DELIVERED"]
      /\ status' = [i \in Items |->
             IF OrderOf[i] = o /\ status[i] = "READY" THEN "IN_DELIVERY" ELSE status[i]]
      /\ Answers(call)
    BY <1>0 DEF claimOrder
<1>3. TypeOK'
    <2>1. status' \in [Items -> Statuses]
        BY <1>2 DEF IInv, TypeOK, Statuses
    <2>2. claimedBy' \in [Orders -> Runners \cup {Nobody}]
        BY <1>1, <1>2 DEF IInv, TypeOK
    <2>3. fulfillmentStatus' \in [Orders -> FulfillmentStatuses]
        BY <1>2 DEF IInv, TypeOK, FulfillmentStatuses
    <2>4. calls' \subseteq Calls /\ loading' \subseteq Runners
        BY <1>2, AnswersType DEF IInv
    <2> QED
        BY <1>u, <2>1, <2>2, <2>3, <2>4 DEF IInv, TypeOK, FulfillmentStatuses
<1>4. PlacedInv'
    BY <1>u, <1>2 DEF IInv, PlacedInv, Placed
<1>5. TicketInv'
    BY <1>u DEF IInv, TicketInv, Placed, targetPrinter
<1>6. CarriedInv'
    BY <1>1, <1>2, OrderOfItem DEF IInv, TypeOK, CarriedInv
<1> QED
    BY <1>3, <1>4, <1>5, <1>6 DEF IInv

LEMMA deliverReadsStep ==
    ASSUME IInv, NEW call \in calls, deliverReads(call)
    PROVE  IInv'
<1>u. UNCHANGED <<operating, status, fulfillmentStatus, claimedBy, lifecycleStatus, isPriority,
                  tickets, receipts, shown, sent, page, loading, refunded, starred, asides>>
    BY DEF deliverReads, rows, prints, kitchen, history
<1>1. call \in Calls
    BY DEF IInv, TypeOK
<1>2. PICK reading : reading = StatusOf(call.order)
    OBVIOUS
<1>3. [call EXCEPT !.read = reading] \in Calls
    BY <1>1, <1>2, ReadingOf DEF IInv, Calls
<1>4. TypeOK'
    BY <1>u, <1>2, <1>3 DEF IInv, TypeOK, deliverReads
<1> QED
    BY <1>u, <1>4, Elsewhere

LEMMA deliverWritesStep ==
    ASSUME IInv, NEW call \in calls, deliverWrites(call)
    PROVE  IInv'
<1>u. UNCHANGED <<operating, claimedBy, lifecycleStatus, isPriority, tickets, receipts, shown,
                  sent, page, refunded, starred, asides>>
    BY DEF deliverWrites, prints, kitchen, history
<1>0. PICK projected : projected = [i \in DOMAIN call.read |->
                          IF call.read[i] = "IN_DELIVERY" THEN "DELIVERED" ELSE call.read[i]]
    OBVIOUS
<1>1. /\ status' = [i \in Items |->
             IF OrderOf[i] = call.order /\ status[i] = "IN_DELIVERY" THEN "DELIVERED" ELSE status[i]]
      /\ fulfillmentStatus' = [fulfillmentStatus EXCEPT ![call.order] =
                                   deriveFulfillmentStatus(projected)]
      /\ Answers(call)
    BY <1>0 DEF deliverWrites
<1>2. TypeOK'
    <2>1. status' \in [Items -> Statuses]
        BY <1>1 DEF IInv, TypeOK, Statuses
    <2>2. fulfillmentStatus' \in [Orders -> FulfillmentStatuses]
        BY <1>1, DerivedStatus DEF IInv, TypeOK, FulfillmentStatuses
    <2>3. calls' \subseteq Calls /\ loading' \subseteq Runners
        BY <1>1, AnswersType DEF IInv
    <2> QED
        BY <1>u, <2>1, <2>2, <2>3 DEF IInv, TypeOK, FulfillmentStatuses
<1>3. PlacedInv'
    BY <1>u, <1>1 DEF IInv, PlacedInv, Placed
<1>4. TicketInv'
    BY <1>u DEF IInv, TicketInv, Placed, targetPrinter
<1>5. CarriedInv'
    BY <1>u, <1>1 DEF IInv, CarriedInv
<1> QED
    BY <1>2, <1>3, <1>4, <1>5 DEF IInv

LEMMA actionFailsStep ==
    ASSUME IInv, NEW call \in calls, actionFails(call)
    PROVE  IInv'
<1>u. UNCHANGED <<operating, status, fulfillmentStatus, claimedBy, lifecycleStatus, isPriority,
                  tickets, receipts, shown, sent, page, refunded, starred, asides>>
    BY DEF actionFails, rows, prints, kitchen, history
<1>1. calls' \subseteq Calls /\ loading' \subseteq Runners
    BY AnswersType DEF IInv, actionFails
<1>2. TypeOK'
    BY <1>u, <1>1 DEF IInv, TypeOK
<1> QED
    BY <1>u, <1>2, Elsewhere

LEMMA SwitchEventStep ==
    ASSUME IInv, SwitchEvent
    PROVE  IInv'
<1>u. UNCHANGED <<status, fulfillmentStatus, claimedBy, lifecycleStatus, isPriority, tickets,
                  receipts, shown, sent, page, calls, loading, refunded, starred>>
    BY DEF SwitchEvent, prints, kitchen, delivery
<1>1. TypeOK'
    BY <1>u DEF IInv, TypeOK, SwitchEvent
<1> QED
    BY <1>u, <1>1, Elsewhere

(***************************************************************************)
(* The theorems                                                            *)
(***************************************************************************)
LEMMA InitIInv == Init => IInv
BY OrderOfItem DEF Init, IInv, TypeOK, PlacedInv, TicketInv, CarriedInv, Placed, Statuses, Cards,
                   Calls

LEMMA StepIInv == IInv /\ [Next]_vars => IInv'
<1> SUFFICES ASSUME IInv, [Next]_vars PROVE IInv'
    OBVIOUS
<1>1. ASSUME NEW o \in Orders, CreateOrder(o) \/ reprintOrder(o) \/ cancelOrder(o) PROVE IInv'
    BY <1>1, CreateOrderStep, reprintOrderStep, cancelOrderStep
<1>2. ASSUME NEW i \in Items, cancelOrderItem(i) PROVE IInv'
    BY <1>2, cancelOrderItemStep
<1>3. ASSUME NEW m \in Monitors, fetchItems(m) PROVE IInv'
    BY <1>3, fetchItemsStep
<1>4. ASSUME NEW m \in Monitors, NEW card \in shown[m],
             startPreparing(m, card) \/ markAsReady(m, card) \/ togglePriority(m, card)
      PROVE  IInv'
    BY <1>4, startPreparingStep, markAsReadyStep, togglePriorityStep
<1>5. ASSUME NEW request \in sent, updateItemStatus(request) \/ updateFails(request) PROVE IInv'
    BY <1>5, updateItemStatusStep, updateFailsStep
<1>6. ASSUME NEW r \in Runners, fetchQueue(r) \/ fetchFails(r) PROVE IInv'
    BY <1>6, fetchQueueStep, fetchFailsStep
<1>7. ASSUME NEW r \in Runners, NEW o \in Orders, NEW action \in {"claim", "deliver"},
             runAction(r, o, action)
      PROVE  IInv'
    BY <1>7, runActionStep
<1>8. ASSUME NEW call \in calls,
             \/ claimOrder(call) \/ deliverReads(call) \/ deliverWrites(call)
             \/ actionFails(call) \/ actionTimesOut(call)
      PROVE  IInv'
    BY <1>8, claimOrderStep, deliverReadsStep, deliverWritesStep, actionFailsStep,
       actionTimesOutStep
<1>9. CASE UNCHANGED vars
    <2>1. UNCHANGED <<operating, status, fulfillmentStatus, claimedBy, lifecycleStatus,
                      isPriority, tickets, receipts, shown, sent, page, calls, loading, refunded,
                      starred, asides>>
        BY <1>9 DEF vars, rows, prints, kitchen, delivery, history
    <2>2. TypeOK'
        BY <2>1 DEF IInv, TypeOK
    <2> QED
        BY <2>1, <2>2, Elsewhere
<1> QED
    BY <1>1, <1>2, <1>3, <1>4, <1>5, <1>6, <1>7, <1>8, <1>9, SwitchEventStep DEF Next

LEMMA Invariance == Spec => []IInv
BY InitIInv, StepIInv, PTL DEF Spec

(* Every variable of the fulfilment keeps its type.                        *)
THEOREM TypeCorrect == Spec => []TypeOK
<1>1. IInv => TypeOK
    BY DEF IInv
<1> QED
    BY <1>1, Invariance, PTL

(* What is on its way is on the list of exactly one runner, though runners *)
(* claim at the same moment, requests are late and an order becomes ready  *)
(* in parts.                                                               *)
THEOREM OneRunnerCarries == Spec => []CarriedByOne
<1>1. IInv => CarriedByOne
    <2> SUFFICES ASSUME IInv, NEW i \in Items, operating, status[i] = "IN_DELIVERY",
                        lifecycleStatus[OrderOf[i]] = "SUBMITTED"
                 PROVE  Cardinality({r \in Runners : OrderOf[i] \in listMine(r)}) = 1
        BY DEF CarriedByOne
    <2>1. claimedBy[OrderOf[i]] \in Runners
        BY DEF IInv, CarriedInv
    <2>2. i \in ItemsOf(OrderOf[i]) /\ OrderOf[i] \in Orders
        BY OrderOfItem DEF ItemsOf
    <2>3. \A r \in Runners : OrderOf[i] \in listMine(r) <=> r = claimedBy[OrderOf[i]]
        BY <2>2 DEF listMine, Has
    <2>4. {r \in Runners : OrderOf[i] \in listMine(r)} = {claimedBy[OrderOf[i]]}
        BY <2>1, <2>3
    <2> QED
        BY <2>4, FS_Singleton
<1> QED
    BY <1>1, Invariance, PTL

(* The kitchen is told once to make a position, whatever is printed again. *)
THEOREM OneTicket == Spec => []OneTicketPerPosition
<1>1. IInv => OneTicketPerPosition
    BY DEF IInv, PlacedInv, TicketInv, OneTicketPerPosition
<1> QED
    BY <1>1, Invariance, PTL

LEMMA ClaimStep ==
    ASSUME IInv, [Next]_vars, NEW o \in Orders, claimedBy[o] # Nobody
    PROVE  claimedBy'[o] = claimedBy[o]
<1>1. ASSUME NEW call \in calls, claimOrder(call) PROVE claimedBy'[o] = claimedBy[o]
    <2>1. claimedBy[call.order] \in {Nobody, call.runner}
        BY <1>1 DEF claimOrder, Claimable
    <2>2. claimedBy' = [claimedBy EXCEPT ![call.order] = call.runner]
        BY <1>1 DEF claimOrder
    <2> QED
        BY <2>1, <2>2 DEF IInv, TypeOK
<1>2. claimedBy' = claimedBy \/ \E call \in calls : claimOrder(call)
    BY DEF Next, CreateOrder, reprintOrder, cancelOrder, cancelOrderItem, fetchItems,
           startPreparing, markAsReady, togglePriority, updateItemStatus, updateFails,
           fetchQueue, fetchFails, runAction, deliverReads, deliverWrites, actionFails,
           actionTimesOut, SwitchEvent, rows, vars
<1> QED
    BY <1>1, <1>2

(* A claim stays with its runner: no step gives the order to another.      *)
THEOREM ClaimStays == Spec => ClaimKept
<1>1. IInv /\ [Next]_vars
      => [\A o \in Orders : claimedBy[o] # Nobody => claimedBy'[o] = claimedBy[o]]_vars
    BY ClaimStep
<1> QED
    BY <1>1, Invariance, PTL DEF Spec, ClaimKept

(* A request of a runner is one that was there, given up by now perhaps,   *)
(* or one that has just been sent, or has just read the order.             *)
LEMMA CallStep ==
    ASSUME IInv, [Next]_vars, NEW call \in calls', call.read # << >>
    PROVE  \/ \E old \in calls : /\ old.read = call.read /\ old.order = call.order
                                  /\ old.runner = call.runner
           \/ claimedBy[call.order] = call.runner /\ claimedBy' = claimedBy
<1>1. CASE calls' = calls
    BY <1>1
<1>2. ASSUME NEW r \in Runners, NEW o \in Orders, NEW action \in {"claim", "deliver"},
             runAction(r, o, action)
      PROVE  call \in calls
    BY <1>2 DEF runAction, Call
<1>3. ASSUME NEW old \in calls, deliverReads(old)
      PROVE  call \in calls \/ (claimedBy[call.order] = call.runner /\ claimedBy' = claimedBy)
    BY <1>3 DEF deliverReads, rows, IInv, TypeOK, Calls
<1>4. ASSUME NEW old \in calls, actionTimesOut(old)
      PROVE  \/ call \in calls
             \/ old.read = call.read /\ old.order = call.order /\ old.runner = call.runner
    BY <1>4 DEF actionTimesOut, IInv, TypeOK, Calls
<1>5. ASSUME NEW old \in calls,
             claimOrder(old) \/ deliverWrites(old) \/ actionFails(old)
      PROVE  call \in calls
    BY <1>5 DEF claimOrder, deliverWrites, actionFails, Answers
<1>6. \/ calls' = calls
      \/ \E r \in Runners, o \in Orders, action \in {"claim", "deliver"} : runAction(r, o, action)
      \/ \E old \in calls : \/ claimOrder(old) \/ deliverReads(old) \/ deliverWrites(old)
                            \/ actionFails(old) \/ actionTimesOut(old)
    BY DEF Next, CreateOrder, reprintOrder, cancelOrder, cancelOrderItem, fetchItems,
           startPreparing, markAsReady, togglePriority, updateItemStatus, updateFails,
           fetchQueue, fetchFails, SwitchEvent, vars, delivery
<1> QED
    BY <1>1, <1>2, <1>3, <1>4, <1>5, <1>6

(* A page only changes by being loaded, with the runner's own orders.      *)
LEMMA PageStep ==
    ASSUME IInv, [Next]_vars, NEW r \in Runners
    PROVE  \/ page'[r] = page[r]
           \/ /\ claimedBy' = claimedBy
              /\ \A o \in page'[r].more \cup page'[r].carried : claimedBy[o] = r
<1>1. ASSUME NEW s \in Runners, fetchQueue(s)
      PROVE  \/ page'[r] = page[r]
             \/ /\ claimedBy' = claimedBy
                /\ \A o \in page'[r].more \cup page'[r].carried : claimedBy[o] = r
    BY <1>1 DEF fetchQueue, listMine, rows, IInv, TypeOK
<1>2. page' = page \/ \E s \in Runners : fetchQueue(s)
    BY DEF Next, CreateOrder, reprintOrder, cancelOrder, cancelOrderItem, fetchItems,
           startPreparing, markAsReady, togglePriority, updateItemStatus, updateFails,
           fetchFails, runAction, claimOrder, deliverReads, deliverWrites, actionFails,
           actionTimesOut, SwitchEvent, vars, delivery
<1> QED
    BY <1>1, <1>2

(* Only the runner who claimed an order delivers it, however old his page  *)
(* and however late his request.                                           *)
THEOREM ClaimerDelivers == Spec => []OnlyTheClaimerDelivers
<1>1. Init => OnlyTheClaimerDelivers
    BY DEF Init, OnlyTheClaimerDelivers
<1>2. IInv /\ OnlyTheClaimerDelivers /\ [Next]_vars => OnlyTheClaimerDelivers'
    <2> SUFFICES ASSUME IInv, OnlyTheClaimerDelivers, [Next]_vars
                 PROVE  OnlyTheClaimerDelivers'
        OBVIOUS
    <2>1. ASSUME NEW call \in calls', call.read # << >>
          PROVE  claimedBy'[call.order] = call.runner
        <3>1. CASE claimedBy[call.order] = call.runner /\ claimedBy' = claimedBy
            BY <3>1
        <3>2. ASSUME NEW old \in calls, old.read = call.read, old.order = call.order,
                     old.runner = call.runner
              PROVE  claimedBy'[call.order] = call.runner
            <4>1. claimedBy[old.order] = old.runner
                BY <2>1, <3>2 DEF OnlyTheClaimerDelivers
            <4>2. old.order \in Orders /\ old.runner \in Runners
                BY DEF IInv, TypeOK, Calls
            <4>3. old.runner # Nobody
                BY <4>2, OrderAssumption
            <4> QED
                BY <3>2, <4>1, <4>2, <4>3, ClaimStep
        <3> QED
            BY <2>1, <3>1, <3>2, CallStep
    <2>2. ASSUME NEW r \in Runners, NEW o \in page'[r].more \cup page'[r].carried
          PROVE  claimedBy'[o] = r
        <3>1. CASE page'[r] = page[r]
            <4>1. claimedBy[o] = r
                BY <2>2, <3>1 DEF OnlyTheClaimerDelivers
            <4>2. o \in Orders
                BY <2>2, <3>1 DEF IInv, TypeOK
            <4>3. r # Nobody
                BY OrderAssumption
            <4> QED
                BY <4>1, <4>2, <4>3, ClaimStep
        <3>2. CASE /\ claimedBy' = claimedBy
                   /\ \A u \in page'[r].more \cup page'[r].carried : claimedBy[u] = r
            BY <2>2, <3>2
        <3> QED
            BY <3>1, <3>2, PageStep
    <2> QED
        BY <2>1, <2>2 DEF OnlyTheClaimerDelivers
<1> QED
    BY <1>1, <1>2, Invariance, PTL DEF Spec

(***************************************************************************)
(* Lemmas about sequences and numbers                                      *)
(***************************************************************************)

(* A sequence of whatever it holds.                                        *)
IsSequence(s) == s \in Seq({s[i] : i \in DOMAIN s})

LEMMA SequenceDomain ==
    ASSUME NEW s, IsSequence(s)
    PROVE  Len(s) \in Nat /\ DOMAIN s = 1..Len(s)
BY DEF IsSequence

LEMMA SequenceAppends ==
    ASSUME NEW s, IsSequence(s), NEW x
    PROVE  /\ IsSequence(Append(s, x)) /\ Len(Append(s, x)) = Len(s) + 1
           /\ \A i \in DOMAIN s : Append(s, x)[i] = s[i]
           /\ Append(s, x)[Len(s) + 1] = x
           /\ DOMAIN Append(s, x) = DOMAIN s \union {Len(s) + 1}
<1>. DEFINE S == {s[i] : i \in DOMAIN s} \union {x}
            t == Append(s, x)
<1>1. s \in Seq(S) /\ x \in S
    <2>1. s \in Seq({s[i] : i \in DOMAIN s}) /\ {s[i] : i \in DOMAIN s} \subseteq S
        BY DEF IsSequence
    <2>. HIDE DEF S
    <2>2. s \in Seq(S)
        BY <2>1, SeqMonotonic
    <2>. QED
        BY <2>2 DEF S
<1>. HIDE DEF S
<1>2. /\ t \in Seq(S) /\ Len(t) = Len(s) + 1 /\ t[Len(s) + 1] = x
      /\ \A i \in 1..Len(s) : t[i] = s[i]
    BY <1>1
<1>. HIDE DEF t
<1>3. Len(s) \in Nat /\ DOMAIN s = 1..Len(s) /\ DOMAIN t = 1..Len(t)
    BY <1>1, <1>2
<1>4. t \in Seq({t[i] : i \in DOMAIN t})
    BY <1>2, <1>3
<1>5. DOMAIN t = DOMAIN s \union {Len(s) + 1}
    BY <1>2, <1>3
<1>. QED
    BY <1>2, <1>3, <1>4, <1>5 DEF IsSequence, t

LEMMA SequenceReplaces ==
    ASSUME NEW s, IsSequence(s), NEW i \in DOMAIN s, NEW x
    PROVE  /\ IsSequence([s EXCEPT ![i] = x]) /\ Len([s EXCEPT ![i] = x]) = Len(s)
           /\ [s EXCEPT ![i] = x][i] = x
           /\ \A k \in DOMAIN s : k # i => [s EXCEPT ![i] = x][k] = s[k]
           /\ DOMAIN [s EXCEPT ![i] = x] = DOMAIN s
<1>. DEFINE t == [s EXCEPT ![i] = x]
            S == {t[k] : k \in DOMAIN t}
<1>1. Len(s) \in Nat /\ DOMAIN s = 1..Len(s)
    BY SequenceDomain
<1>2. /\ DOMAIN t = 1..Len(s) /\ t[i] = x
      /\ \A k \in DOMAIN s : k # i => t[k] = s[k]
      /\ t = [k \in 1..Len(s) |-> t[k]]
    BY <1>1
<1>. HIDE DEF t
<1>3. t \in Seq(S) /\ Len(t) = Len(s)
    BY <1>1, <1>2
<1>. QED
    BY <1>1, <1>2, <1>3 DEF IsSequence, t

(* A finite set of numbers has a greatest: the numbers above it, of which  *)
(* there is a smallest set, are none.                                      *)
LEMMA FiniteMax ==
    ASSUME NEW P \in SUBSET Nat, P # {}, IsFiniteSet(P)
    PROVE  \E m \in P : \A q \in P : m >= q
<1>. DEFINE Above(p) == {q \in P : q > p}
<1>1. IsWellFoundedOn(StrictSubsetOrdering(P), SUBSET P)
    BY FS_StrictSubsetOrderingWellFounded, FS_FiniteSubsetsOfFinite
<1>. DEFINE Sets == {Above(p) : p \in P}
<1>2. Sets \in SUBSET SUBSET P /\ Sets # {}
    OBVIOUS
<1>3. PICK low \in Sets : \A a \in Sets : ~(<<a, low>> \in StrictSubsetOrdering(P))
    <2>. HIDE DEF Sets
    <2>. QED
        BY <1>1, <1>2, WFMin
<1>4. PICK m \in P : low = Above(m)
    BY <1>3
<1>5. ASSUME NEW q \in P, q > m PROVE FALSE
    <2>1. q \in Nat /\ m \in Nat
        OBVIOUS
    <2>2. Above(q) \subseteq Above(m) /\ q \in Above(m) /\ q \notin Above(q)
        <3>1. \A r \in P : r > q => r > m
            BY <1>5, <2>1
        <3>2. ~(q > q)
            BY <2>1
        <3>. QED
            BY <1>5, <3>1, <3>2
    <2>3. Above(q) \in Sets /\ Above(q) \subseteq P /\ Above(m) \subseteq P
        OBVIOUS
    <2>. HIDE DEF Above, Sets
    <2>. QED
        BY <1>3, <1>4, <2>2, <2>3 DEF StrictSubsetOrdering
<1>. QED
    BY <1>5

LEMMA ImageIsFinite ==
    ASSUME NEW S, IsFiniteSet(S), NEW f, DOMAIN f = S
    PROVE  IsFiniteSet({f[x] : x \in S})
<1>. DEFINE T == {f[x] : x \in S}
            g == [x \in S |-> f[x]]
<1>1. g \in Surjection(S, T)
    BY DEF Surjection
<1>. HIDE DEF g, T
<1>2. IsFiniteSet(T)
    BY <1>1, FS_Surjection
<1>. QED
    BY <1>2 DEF T

LEMMA LargestOf ==
    ASSUME NEW S, IsFiniteSet(S), \A r \in S : r.nr \in Nat
    PROVE  Largest(S) \in Nat /\ \A r \in S : r.nr <= Largest(S)
<1>. DEFINE P == {r.nr : r \in S} \union {0}
            f == [r \in S |-> r.nr]
<1>1. IsFiniteSet({r.nr : r \in S})
    <2>1. DOMAIN f = S /\ {f[x] : x \in S} = {r.nr : r \in S}
        OBVIOUS
    <2>. HIDE DEF f
    <2>. QED
        BY <2>1, ImageIsFinite
<1>2. IsFiniteSet(P)
    BY <1>1, FS_AddElement
<1>3. P \in SUBSET Nat /\ P # {}
    OBVIOUS
<1>4. /\ Largest(S) = Max(P)
      /\ \A r \in S : r.nr \in P
    BY DEF Largest
<1>. HIDE DEF P
<1>5. \E m \in P : \A q \in P : m >= q
    BY <1>2, <1>3, FiniteMax
<1>6. Max(P) \in P /\ \A q \in P : Max(P) >= q
    BY <1>5 DEF Max
<1>. QED
    BY <1>3, <1>4, <1>6

(***************************************************************************)
(* Groups                                                                  *)
(***************************************************************************)
LEMMA AtMostOne ==
    ASSUME NEW S, \A i, k \in S : i = k
    PROVE  Cardinality(S) <= 1
<1>1. CASE S = {}
    BY <1>1, FS_EmptySet
<1>2. CASE S # {}
    <2>1. PICK x \in S : S = {x}
        BY <1>2
    <2>. QED
        BY <2>1, FS_Singleton
<1>. QED
    BY <1>1, <1>2

(* One group with absolute prices, and one shown as tiles.                 *)
LEMMA LimitsCount ==
    ASSUME NEW groups, WithinGroupLimits(groups)
    PROVE  /\ Cardinality({i \in DOMAIN groups : groups[i].mode = "ABSOLUTE"}) <= 1
           /\ Cardinality({i \in DOMAIN groups : groups[i].tiles}) <= 1
<1>. DEFINE A == {i \in DOMAIN groups : groups[i].mode = "ABSOLUTE"}
            T == {i \in DOMAIN groups : groups[i].tiles}
<1>1. (\A i, k \in A : i = k) /\ (\A i, k \in T : i = k)
    BY DEF WithinGroupLimits
<1>. HIDE DEF A, T
<1>2. Cardinality(A) <= 1 /\ Cardinality(T) <= 1
    BY <1>1, AtMostOne
<1>. QED
    BY <1>2 DEF A, T

LEMMA ConcatShort ==
    ASSUME NEW x, NEW y
    PROVE  /\ << >> \o << >> = << >> /\ <<x>> \o << >> = <<x>>
           /\ << >> \o <<y>> = <<y>> /\ <<x>> \o <<y>> = <<x, y>>
<1>1. << >> \in Seq({x, y}) /\ <<x>> \in Seq({x, y}) /\ <<y>> \in Seq({x, y})
    OBVIOUS
<1>2. <<x>> \o <<y>> = <<x, y>>
    <2>. DEFINE xy == <<x>> \o <<y>>
    <2>1. /\ xy \in Seq({x, y}) /\ Len(xy) = Len(<<x>>) + Len(<<y>>)
          /\ \A i \in 1..Len(<<x>>) + Len(<<y>>) :
                xy[i] = IF i <= Len(<<x>>) THEN <<x>>[i] ELSE <<y>>[i - Len(<<x>>)]
        BY <1>1, ConcatProperties, Zenon
    <2>. HIDE DEF xy
    <2>2. Len(<<x>>) = 1 /\ Len(<<y>>) = 1 /\ <<x>>[1] = x /\ <<y>>[1] = y
        OBVIOUS
    <2>3. Len(xy) = 2 /\ xy[1] = x /\ xy[2] = y
        BY <2>1, <2>2
    <2>4. /\ <<x, y>> \in Seq({x, y}) /\ Len(<<x, y>>) = 2
          /\ <<x, y>>[1] = x /\ <<x, y>>[2] = y
        OBVIOUS
    <2>5. \A i \in 1..2 : xy[i] = <<x, y>>[i]
        BY <2>3, <2>4
    <2>6. xy = <<x, y>>
        BY <2>1, <2>3, <2>4, <2>5, SeqEqual
    <2>. QED
        BY <2>6 DEF xy
<1>. QED
    BY <1>1, <1>2, ConcatEmptySeq, Zenon

Acceptable(g) ==
    /\ g.min >= 0 /\ (g.max # NoLimit => g.max >= g.min)
    /\ g.required = (g.min >= 1)
    /\ g.type = "SINGLE" => g.max = 1
    /\ g.mode = "ABSOLUTE" \/ g.tiles => g.type = "SINGLE" /\ g.required

LEMMA LegacyAcceptable ==
    ASSUME NEW p, NEW i \in DOMAIN LegacyGroups(p)
    PROVE  Acceptable(LegacyGroups(p)[i])
<1>. DEFINE size == [type |-> "SINGLE", required |-> TRUE, min |-> 1, max |-> 1,
                     mode |-> "ABSOLUTE", tiles |-> TRUE, prices |-> p.variants]
            more == [type |-> "MULTIPLE", required |-> FALSE, min |-> 0, max |-> NoLimit,
                     mode |-> "SURCHARGE", tiles |-> FALSE, prices |-> p.extras]
<1>1. Acceptable(size) /\ Acceptable(more)
    <2>1. /\ size.required = TRUE /\ size.min = 1 /\ size.max = 1 /\ size.type = "SINGLE"
          /\ more.required = FALSE /\ more.min = 0 /\ more.max = NoLimit
          /\ more.type = "MULTIPLE" /\ more.mode = "SURCHARGE" /\ more.tiles = FALSE
        OBVIOUS
    <2>. HIDE DEF size, more
    <2>2. (1 >= 1) = TRUE /\ (0 >= 1) = FALSE
        OBVIOUS
    <2>3. size.required = (size.min >= 1) /\ more.required = (more.min >= 1)
        BY <2>1, <2>2, Zenon
    <2>. QED
        BY <2>1, <2>3 DEF Acceptable
<1>2. LegacyGroups(p) = (IF p.variants = {} THEN << >> ELSE <<size>>)
                        \o (IF p.extras = {} THEN << >> ELSE <<more>>)
    BY DEF LegacyGroups
<1>. HIDE DEF size, more
<1>3. \A x, y : /\ << >> \o << >> = << >> /\ <<x>> \o << >> = <<x>>
                 /\ << >> \o <<y>> = <<y>> /\ <<x>> \o <<y>> = <<x, y>>
    BY ConcatShort, Zenon
<1>4. LegacyGroups(p) \in {<< >>, <<size>>, <<more>>, <<size, more>>}
    BY <1>2, <1>3, Zenon
<1>. QED
    BY <1>1, <1>4

(* What validateImport lets through the database accepts, the groups made  *)
(* for a file of the first version included.                               *)
LEMMA ParsedGroupsAccepted ==
    ASSUME NEW file, FileParses(file), NEW p \in file.products
    PROVE  DatabaseAccepts(GroupsOf(file, p))
<1>. DEFINE groups == GroupsOf(file, p)
<1>1. WithinGroupLimits(groups)
    BY DEF FileParses
<1>2. \A i \in DOMAIN groups : Acceptable(groups[i])
    <2>1. CASE file.version = 1
        BY <2>1, LegacyAcceptable DEF GroupsOf
    <2>2. CASE file.version # 1
        <3>1. groups = p.groups /\ \A i \in DOMAIN p.groups : GroupParses(p.groups[i])
            BY <2>2 DEF GroupsOf, FileParses
        <3>. QED
            BY <3>1 DEF GroupParses, Acceptable
    <2>. QED
        BY <2>1, <2>2
<1>. HIDE DEF groups
<1>3. DatabaseAccepts(groups)
    BY <1>1, <1>2, LimitsCount DEF DatabaseAccepts, Acceptable
<1>. QED
    BY <1>3 DEF groups

LEMMA NoGroupsAccepted == DatabaseAccepts(<< >>)
<1>1. \A i : i \notin DOMAIN << >>
    OBVIOUS
<1>2. WithinGroupLimits(<< >>)
    BY <1>1 DEF WithinGroupLimits
<1>. QED
    BY <1>1, <1>2, LimitsCount DEF DatabaseAccepts

(***************************************************************************)
(* The inductive invariant of the assortment                               *)
(***************************************************************************)
(* Events as they were when a request arrived: rows come and go, events    *)
(* and their stations stay.                                                *)
Grows(old, evs) ==
    /\ Len(old) <= Len(evs)
    /\ \A i \in DOMAIN old : old[i].stations \subseteq evs[i].stations

Earlier(old, evs) ==
    /\ IsSequence(old) /\ Grows(old, evs)
    /\ \A i \in DOMAIN old : Consistent(old[i], i)

CategoryForm(f) ==
    /\ f.kind = "category"
    /\ f.row = Category(f.row.nr, f.row.name, f.row.station, f.row.deposit, f.row.active)
    /\ f.row.nr \in Nat

ProductForm(f) ==
    /\ f.kind = "product"
    /\ f.row = Product(f.row.nr, f.row.name, f.row.category, f.row.station,
                       f.row.deposit, f.row.available, f.row.groups)
    /\ DatabaseAccepts(f.row.groups)

FormFits(f, evs) ==
    /\ f = [kind |-> f.kind, event |-> f.event, row |-> f.row, stations |-> f.stations]
    /\ f.event \in DOMAIN evs
    /\ CategoryForm(f) \/ ProductForm(f)

DialogFits(d, evs) ==
    /\ d = [action |-> d.action, nr |-> d.nr, source |-> d.source, target |-> d.target,
            name |-> d.name, busy |-> d.busy, mapping |-> d.mapping]
    /\ d.action \in {"duplicate", "copy"}
    /\ d.source \in DOMAIN evs
    /\ d.target \in DOMAIN evs \union {None}

RequestFits(r, evs) ==
    /\ r = [nr |-> r.nr, admin |-> r.admin, action |-> r.action, key |-> r.key,
            payload |-> r.payload, sees |-> r.sees, knows |-> r.knows,
            result |-> r.result]
    /\ Earlier(r.sees, evs)
    /\ \/ r.action = "duplicate" /\ r.payload.source \in DOMAIN r.sees
       \/ r.action = "copy" /\ {r.payload.source, r.payload.target} \subseteq DOMAIN r.sees
       \/ r.action = "import" /\ NumbersCategories(r.payload.file)

EventsFit ==
    /\ IsSequence(events) /\ Len(events) >= 1
    /\ \A i \in DOMAIN events : Consistent(events[i], i)

PagesFit ==
    /\ selected \in [Admins -> DOMAIN events]
    /\ form = [a \in Admins |-> form[a]]
    /\ \A a \in Admins : form[a] = NoForm \/ FormFits(form[a], events)
    /\ dialog = [a \in Admins |-> dialog[a]]
    /\ \A a \in Admins : dialog[a] = NoDialog \/ DialogFits(dialog[a], events)

RequestsFit ==
    /\ \A r \in running : RequestFits(r, events)
    /\ \A file \in exported : NumbersCategories(file)

AssortmentInv == EventsFit /\ PagesFit /\ RequestsFit


(***************************************************************************)
(* What is written fits                                                    *)
(***************************************************************************)
NumberedRows(set) == \A x \in set : x.nr \in Nat \ {None}

(* Categories that keep their numbers, or are given later ones.            *)
LEMMA MovedNumbers ==
    ASSUME NEW S, IsFiniteSet(S), Unique(S), NumberedRows(S), NEW f, DOMAIN f = S,
           NEW n \in Nat, \A c \in S : f[c].nr = c.nr + n, NEW T, T = {f[c] : c \in S}
    PROVE  /\ IsFiniteSet(T) /\ Unique(T) /\ NumberedRows(T)
           /\ \A k \in Refs(S) : k + n \in Refs(T)
           /\ \A x \in T : x.nr > n
<1>1. \A x \in T : \E c \in S : x = f[c] /\ x.nr = c.nr + n /\ c.nr \in Nat \ {0}
    BY DEF NumberedRows, None
<1>2. \A c \in S : f[c] \in T /\ f[c].nr = c.nr + n
    OBVIOUS
<1>3. IsFiniteSet(T)
    BY ImageIsFinite
<1>4. Unique(T)
    <2>. SUFFICES ASSUME NEW x \in T, NEW y \in T, x.nr = y.nr PROVE x = y
        BY DEF Unique
    <2>1. PICK c \in S : x = f[c] /\ x.nr = c.nr + n /\ c.nr \in Nat
        BY <1>1
    <2>2. PICK d \in S : y = f[d] /\ y.nr = d.nr + n /\ d.nr \in Nat
        BY <1>1
    <2>3. c.nr = d.nr
        BY <2>1, <2>2
    <2>. QED
        BY <2>1, <2>2, <2>3 DEF Unique
<1>5. \A x \in T : x.nr \in Nat \ {0} /\ x.nr > n
    BY <1>1
<1>6. \A k \in Refs(S) : k + n \in Refs(T)
    BY <1>2 DEF Refs
<1>7. IsFiniteSet(T) /\ Unique(T) /\ NumberedRows(T)
    BY <1>3, <1>4, <1>5 DEF NumberedRows, None
<1>. QED
    BY <1>5, <1>6, <1>7

(* Replacing the rows of an event.                                         *)
IsEvent(e) ==
    e = [name |-> e.name, status |-> e.status, confirmed |-> e.confirmed,
         stations |-> e.stations, categories |-> e.categories, products |-> e.products]

LEMMA EventWith ==
    ASSUME NEW w, NEW e, NEW S, NEW C, NEW P,
           w \in [name : {e.name}, status : {e.status}, confirmed : {e.confirmed},
                  stations : {S}, categories : {C}, products : {P}]
    PROVE  IsEvent(w) /\ w.stations = S /\ w.categories = C /\ w.products = P
BY DEF IsEvent

LEMMA DraftIsEvent ==
    ASSUME NEW name
    PROVE  IsEvent(Draft(name))
BY DEF Draft, IsEvent

(* Rows that fit the event i, which has stations S and categories C.       *)
RowsFit(S, C, P, i) ==
    /\ IsFiniteSet(C) /\ Unique(C) /\ NumberedRows(C)
    /\ \A c \in C : c = Category(c.nr, c.name, c.station, c.deposit, c.active)
    /\ \A p \in P :
         /\ p = Product(p.nr, p.name, p.category, p.station, p.deposit, p.available, p.groups)
         /\ p.category \in Refs(C)
         /\ DatabaseAccepts(p.groups)
    /\ \A x \in C \union P : x.station \in {<<i, k>> : k \in S} \union {Nowhere}

LEMMA ConsistentIs ==
    ASSUME NEW e, NEW i
    PROVE  Consistent(e, i) <=> IsEvent(e) /\ RowsFit(e.stations, e.categories, e.products, i)
BY DEF Consistent, IsEvent, RowsFit, NumberedRows, Sites

LEMMA ProductFields ==
    ASSUME NEW nr, NEW name, NEW category, NEW station, NEW deposit, NEW available, NEW groups
    PROVE  LET p == Product(nr, name, category, station, deposit, available, groups)
           IN  /\ p = Product(p.nr, p.name, p.category, p.station, p.deposit, p.available, p.groups)
               /\ p.category = category /\ p.station = station /\ p.groups = groups
               /\ p.nr = nr /\ p.name = name
BY DEF Product

LEMMA CategoryFields ==
    ASSUME NEW nr, NEW name, NEW station, NEW deposit, NEW active
    PROVE  LET c == Category(nr, name, station, deposit, active)
           IN  /\ c = Category(c.nr, c.name, c.station, c.deposit, c.active)
               /\ c.nr = nr /\ c.station = station /\ c.name = name
BY DEF Category

(* The copies of a station refer to the event the copy is made for.        *)
LEMMA CopiedStation ==
    ASSUME NEW e, NEW i, NEW s \in Sites(e, i), s # Nowhere
    PROVE  s[2] \in e.stations /\ s = <<i, s[2]>>
BY DEF Sites

LEMMA DuplicatedFits ==
    ASSUME NEW r, Earlier(r.sees, events), r.payload.source \in DOMAIN r.sees
    PROVE  Consistent(Duplicated(r), Len(events) + 1)
<1>. DEFINE source == r.sees[r.payload.source]
            new == Len(events) + 1
            to(s) == IF s = Nowhere THEN Nowhere ELSE <<new, s[2]>>
            C == {MovedCategory(c, to(c.station)) : c \in source.categories}
            P == {MovedProduct(p, to(p.station), p.category) : p \in source.products}
            f == [c \in source.categories |-> MovedCategory(c, to(c.station))]
            base == Draft(r.payload.name)
<1>1. Consistent(source, r.payload.source)
    BY DEF Earlier, Grows
<1>2. \A x \in source.categories \union source.products :
         to(x.station) \in {<<new, k>> : k \in source.stations} \union {Nowhere}
    <2>. SUFFICES ASSUME NEW x \in source.categories \union source.products,
                         x.station # Nowhere
                  PROVE  x.station[2] \in source.stations
        OBVIOUS
    <2>1. x.station \in Sites(source, r.payload.source)
        BY <1>1 DEF Consistent
    <2>. QED
        BY <2>1, CopiedStation
<1>. HIDE DEF source, new, to
<1>3. \A c \in source.categories :
         LET m == MovedCategory(c, to(c.station))
         IN  /\ m = Category(m.nr, m.name, m.station, m.deposit, m.active)
             /\ m.nr = c.nr /\ m.station = to(c.station)
    <2>. TAKE c \in source.categories
    <2>. QED
        BY DEF MovedCategory, Category
<1>4. /\ IsFiniteSet(source.categories) /\ Unique(source.categories)
      /\ NumberedRows(source.categories) /\ \A c \in source.categories : c.nr \in Nat
    BY <1>1 DEF Consistent, NumberedRows
<1>5. /\ IsFiniteSet(C) /\ Unique(C) /\ NumberedRows(C)
      /\ \A k \in Refs(source.categories) : k \in Refs(C)
    <2>. DEFINE S == source.categories
                zero == 0
    <2>1. DOMAIN f = S /\ zero \in Nat /\ \A c \in S : f[c].nr = c.nr + zero
        BY <1>3, <1>4
    <2>2. C = {f[c] : c \in S}
        OBVIOUS
    <2>3. \A k \in Refs(S) : k + zero = k
        BY <1>4 DEF Refs
    <2>4. IsFiniteSet(S) /\ Unique(S) /\ NumberedRows(S)
        BY <1>4
    <2>. HIDE DEF C, f, S, zero
    <2>5. /\ IsFiniteSet(C) /\ Unique(C) /\ NumberedRows(C)
          /\ \A k \in Refs(S) : k + zero \in Refs(C)
        BY <2>1, <2>2, <2>4, MovedNumbers
    <2>6. \A k \in Refs(S) : k \in Refs(C)
        BY <2>3, <2>5
    <2>. QED
        BY <2>5, <2>6 DEF S
<1>6. \A c \in C : /\ c = Category(c.nr, c.name, c.station, c.deposit, c.active)
                   /\ c.station \in {<<new, k>> : k \in source.stations} \union {Nowhere}
    BY <1>2, <1>3
<1>7. \A p \in P :
         /\ p = Product(p.nr, p.name, p.category, p.station, p.deposit, p.available, p.groups)
         /\ p.category \in Refs(C)
         /\ DatabaseAccepts(p.groups)
         /\ p.station \in {<<new, k>> : k \in source.stations} \union {Nowhere}
    <2>. HIDE DEF C
    <2>. SUFFICES ASSUME NEW q \in source.products
                  PROVE  LET p == MovedProduct(q, to(q.station), q.category)
                         IN  /\ p = Product(p.nr, p.name, p.category, p.station, p.deposit,
                                            p.available, p.groups)
                             /\ p.category \in Refs(C)
                             /\ DatabaseAccepts(p.groups)
                             /\ p.station \in {<<new, k>> : k \in source.stations} \union {Nowhere}
        OBVIOUS
    <2>1. q.category \in Refs(source.categories) /\ DatabaseAccepts(q.groups)
        BY <1>1 DEF Consistent
    <2>2. to(q.station) \in {<<new, k>> : k \in source.stations} \union {Nowhere}
        BY <1>2
    <2>. QED
        BY <1>5, <2>1, <2>2, ProductFields DEF MovedProduct
<1>8. \A x \in C \union P : x.station \in {<<new, k>> : k \in source.stations} \union {Nowhere}
    BY <1>6, <1>7
<1>9. Duplicated(r) = [base EXCEPT !.stations = source.stations, !.categories = C,
                                   !.products = P]
    BY DEF Duplicated, source, new, to
<1>. HIDE DEF C, P
<1>10. RowsFit(source.stations, C, P, new)
    BY <1>5, <1>6, <1>7, <1>8 DEF RowsFit
<1>11. IsEvent(base)
    BY DraftIsEvent
<1>. HIDE DEF base
<1>12. /\ IsEvent(Duplicated(r)) /\ Duplicated(r).stations = source.stations
       /\ Duplicated(r).categories = C /\ Duplicated(r).products = P
    <2>1. Duplicated(r) \in [name : {base.name}, status : {base.status},
                             confirmed : {base.confirmed}, stations : {source.stations},
                             categories : {C}, products : {P}]
        BY <1>9, <1>11 DEF IsEvent
    <2>. QED
        BY <2>1, EventWith
<1>13. Consistent(Duplicated(r), new)
    BY <1>10, <1>12, ConsistentIs
<1>. QED
    BY <1>13 DEF new

LEMMA MappedStation ==
    ASSUME NEW r, Earlier(r.sees, events),
           {r.payload.source, r.payload.target} \subseteq DOMAIN r.sees,
           CompleteMapping(r), NEW s \in Sites(r.sees[r.payload.source], r.payload.source)
    PROVE  Mapped(r, s) \in Sites(events[r.payload.target], r.payload.target)
<1>1. CASE s = Nowhere
    BY <1>1 DEF Mapped, Sites
<1>2. CASE s # Nowhere
    <2>1. s[2] \in r.sees[r.payload.source].stations /\ s = <<r.payload.source, s[2]>>
        BY <1>2, CopiedStation
    <2>2. \/ r.payload.mapping[s] = Nowhere
          \/ \E k \in r.sees[r.payload.target].stations :
                r.payload.mapping[s] = <<r.payload.target, k>>
        BY <2>1 DEF CompleteMapping
    <2>3. r.sees[r.payload.target].stations \subseteq events[r.payload.target].stations
        BY DEF Earlier, Grows
    <2>. QED
        BY <1>2, <2>2, <2>3 DEF Mapped, Sites
<1>. QED
    BY <1>1, <1>2

LEMMA RenumberedCategory ==
    ASSUME NEW c, NEW s, NEW n
    PROVE  LET m == [MovedCategory(c, s) EXCEPT !.nr = @ + n]
           IN  /\ m = Category(m.nr, m.name, m.station, m.deposit, m.active)
               /\ m.nr = c.nr + n /\ m.station = s
<1>. DEFINE m == [MovedCategory(c, s) EXCEPT !.nr = @ + n]
<1>1. m \in [nr : {c.nr + n}, name : {c.name}, station : {s}, deposit : {0}, active : {TRUE}]
    BY DEF MovedCategory, Category
<1>. HIDE DEF m
<1>2. m = [nr |-> c.nr + n, name |-> c.name, station |-> s, deposit |-> 0, active |-> TRUE]
    BY <1>1
<1>3. m = Category(m.nr, m.name, m.station, m.deposit, m.active) /\ m.nr = c.nr + n /\ m.station = s
    BY <1>2 DEF Category
<1>. QED
    BY <1>3 DEF m

LEMMA RenumberedProduct ==
    ASSUME NEW p, NEW s, NEW k, NEW n
    PROVE  LET m == [MovedProduct(p, s, k) EXCEPT !.nr = @ + n]
           IN  /\ m = Product(m.nr, m.name, m.category, m.station, m.deposit, m.available, m.groups)
               /\ m.category = k /\ m.station = s /\ m.groups = p.groups
BY DEF MovedProduct, Product

LEMMA CopiedFits ==
    ASSUME NEW r, Earlier(r.sees, events),
           {r.payload.source, r.payload.target} \subseteq DOMAIN r.sees,
           CompleteMapping(r), Consistent(events[r.payload.target], r.payload.target)
    PROVE  /\ Consistent(Copied(r), r.payload.target)
           /\ Copied(r).stations = events[r.payload.target].stations
<1>. DEFINE source == r.sees[r.payload.source]
            target == events[r.payload.target]
            i == r.payload.target
            base == Largest(target.categories)
            top == Largest(target.products)
            moved(c) == [MovedCategory(c, Mapped(r, c.station)) EXCEPT !.nr = @ + base]
            movedP(p) == [MovedProduct(p, Mapped(r, p.station), p.category + base) EXCEPT
                             !.nr = @ + top]
            f == [c \in source.categories |-> moved(c)]
            MC == {f[c] : c \in source.categories}
            MP == {movedP(p) : p \in source.products}
            C == target.categories \union MC
            P == target.products \union MP
<1>1. Consistent(source, r.payload.source)
    BY DEF Earlier, Grows
<1>2. IsEvent(target) /\ RowsFit(target.stations, target.categories, target.products, i)
    BY ConsistentIs
<1>3. \A x \in source.categories \union source.products :
         Mapped(r, x.station) \in {<<i, k>> : k \in target.stations} \union {Nowhere}
    <2>. SUFFICES ASSUME NEW x \in source.categories \union source.products
                  PROVE  Mapped(r, x.station) \in Sites(target, i)
        BY DEF Sites
    <2>1. x.station \in Sites(source, r.payload.source)
        BY <1>1 DEF Consistent
    <2>. QED
        BY <2>1, MappedStation
<1>4. /\ IsFiniteSet(source.categories) /\ Unique(source.categories)
      /\ NumberedRows(source.categories) /\ \A c \in source.categories : c.nr \in Nat
    BY <1>1 DEF Consistent, NumberedRows
<1>5. base \in Nat /\ \A c \in target.categories : c.nr <= base /\ c.nr \in Nat
    <2>1. \A c \in target.categories : c.nr \in Nat
        BY <1>2 DEF RowsFit, NumberedRows
    <2>2. IsFiniteSet(target.categories)
        BY <1>2 DEF RowsFit
    <2>. HIDE DEF target
    <2>. QED
        BY <2>1, <2>2, LargestOf
<1>. HIDE DEF source, target, base, top
<1>6. \A c \in source.categories :
         /\ f[c] = Category(f[c].nr, f[c].name, f[c].station, f[c].deposit, f[c].active)
         /\ f[c].nr = c.nr + base /\ f[c].station = Mapped(r, c.station)
    <2>. TAKE c \in source.categories
    <2>1. f[c] = moved(c)
        OBVIOUS
    <2>2. /\ moved(c) = Category(moved(c).nr, moved(c).name, moved(c).station,
                                moved(c).deposit, moved(c).active)
          /\ moved(c).nr = c.nr + base /\ moved(c).station = Mapped(r, c.station)
        BY RenumberedCategory
    <2>. HIDE DEF moved, f
    <2>. QED
        BY <2>1, <2>2
<1>7. \A p \in source.products :
         /\ movedP(p) = Product(movedP(p).nr, movedP(p).name, movedP(p).category,
               movedP(p).station, movedP(p).deposit, movedP(p).available, movedP(p).groups)
         /\ movedP(p).category = p.category + base /\ movedP(p).groups = p.groups
         /\ movedP(p).station = Mapped(r, p.station)
    <2>. TAKE p \in source.products
    <2>. QED
        BY RenumberedProduct
<1>8. /\ Copied(r) = [target EXCEPT !.categories = C, !.products = P]
    <2>1. MC = {moved(c) : c \in source.categories}
        OBVIOUS
    <2>. HIDE DEF MC
    <2>. QED
        BY <2>1 DEF Copied, source, target, base, top
<1>9. DOMAIN f = source.categories
    OBVIOUS
<1>. HIDE DEF moved, movedP, f
<1>10. /\ IsFiniteSet(MC) /\ Unique(MC) /\ NumberedRows(MC)
       /\ \A k \in Refs(source.categories) : k + base \in Refs(MC)
       /\ \A x \in MC : x.nr > base
    <2>1. MC = {f[c] : c \in source.categories}
        OBVIOUS
    <2>2. \A c \in source.categories : f[c].nr = c.nr + base
        BY <1>6
    <2>3. base \in Nat
        BY <1>5
    <2>4. /\ IsFiniteSet(source.categories) /\ Unique(source.categories)
          /\ NumberedRows(source.categories)
        BY <1>4
    <2>. HIDE DEF MC
    <2>. QED
        BY <1>9, <2>1, <2>2, <2>3, <2>4, MovedNumbers
<1>11. IsFiniteSet(C) /\ Unique(C) /\ NumberedRows(C) /\ Refs(MC) \subseteq Refs(C)
       /\ Refs(target.categories) \subseteq Refs(C)
    <2>. HIDE DEF MC
    <2>1. IsFiniteSet(C)
        BY <1>2, <1>10, FS_Union DEF RowsFit
    <2>2. NumberedRows(C)
        BY <1>2, <1>10 DEF RowsFit, NumberedRows
    <2>3. \A x \in MC : x.nr \in Nat /\ x.nr > base
        BY <1>10 DEF NumberedRows
    <2>4. \A x \in MC, y \in target.categories : x.nr # y.nr
        BY <1>5, <2>3
    <2>5. Unique(C)
        BY <1>2, <1>10, <2>4 DEF Unique, RowsFit
    <2>. QED
        BY <2>1, <2>2, <2>5 DEF Refs
<1>12. \A c \in MC : /\ c = Category(c.nr, c.name, c.station, c.deposit, c.active)
                     /\ c.station \in {<<i, k>> : k \in target.stations} \union {Nowhere}
    BY <1>3, <1>6
<1>13. \A p \in MP :
         /\ p = Product(p.nr, p.name, p.category, p.station, p.deposit, p.available, p.groups)
         /\ p.category \in Refs(MC)
         /\ DatabaseAccepts(p.groups)
         /\ p.station \in {<<i, k>> : k \in target.stations} \union {Nowhere}
    <2>. HIDE DEF MC
    <2>1. \A p \in source.products : p.category \in Refs(source.categories) /\ DatabaseAccepts(p.groups)
        BY <1>1 DEF Consistent
    <2>. QED
        BY <1>3, <1>7, <1>10, <2>1
<1>. HIDE DEF MC, MP
<1>14. \A c \in C : c = Category(c.nr, c.name, c.station, c.deposit, c.active)
    BY <1>2, <1>12 DEF RowsFit
<1>15. \A p \in P :
         /\ p = Product(p.nr, p.name, p.category, p.station, p.deposit, p.available, p.groups)
         /\ p.category \in Refs(C)
         /\ DatabaseAccepts(p.groups)
    <2>. HIDE DEF C
    <2>. QED
        BY <1>2, <1>11, <1>13 DEF RowsFit
<1>16. \A x \in C \union P : x.station \in {<<i, k>> : k \in target.stations} \union {Nowhere}
    BY <1>2, <1>12, <1>13 DEF RowsFit
<1>. HIDE DEF C, P
<1>17. RowsFit(target.stations, C, P, i)
    BY <1>11, <1>14, <1>15, <1>16 DEF RowsFit
<1>18. Copied(r) \in [name : {target.name}, status : {target.status},
                      confirmed : {target.confirmed}, stations : {target.stations},
                      categories : {C}, products : {P}]
    BY <1>2, <1>8 DEF IsEvent
<1>19. /\ IsEvent(Copied(r)) /\ Copied(r).stations = target.stations
       /\ Copied(r).categories = C /\ Copied(r).products = P
    BY <1>18, EventWith
<1>20. Consistent(Copied(r), i)
    BY <1>17, <1>19, ConsistentIs
<1>. QED
    BY <1>19, <1>20 DEF target

LEMMA FallbackFits ==
    ASSUME NEW file, NumbersCategories(file)
    PROVE  /\ IsFiniteSet(Fallback(file))
           /\ \A c \in Fallback(file) :
                /\ c = Category(c.nr, c.name, c.station, c.deposit, c.active)
                /\ c.nr = Largest(file.categories) + 1 /\ c.station = Nowhere
           /\ \A c, d \in Fallback(file) : c = d
           /\ (\E p \in file.products : p.category = None) =>
                 Largest(file.categories) + 1 \in Refs(Fallback(file))
<1>. DEFINE name == IF \E c \in file.categories : c.name = "Sonstige Artikel"
                    THEN "Sonstige Artikel (ohne Kategorie)" ELSE "Sonstige Artikel"
            one == Category(Largest(file.categories) + 1, name, Nowhere, 0, TRUE)
<1>1. Fallback(file) = IF \E p \in file.products : p.category = None THEN {one} ELSE {}
    BY DEF Fallback
<1>. HIDE DEF name
<1>2. /\ one = Category(one.nr, one.name, one.station, one.deposit, one.active)
      /\ one.nr = Largest(file.categories) + 1 /\ one.station = Nowhere
    BY DEF Category
<1>. HIDE DEF one
<1>3. IsFiniteSet({one}) /\ IsFiniteSet({})
    BY FS_EmptySet, FS_Singleton
<1>. QED
    BY <1>1, <1>2, <1>3 DEF Refs

LEMMA ImportedFits ==
    ASSUME NEW r, NumbersCategories(r.payload.file), FileParses(r.payload.file)
    PROVE  Consistent(Imported(r), Len(events) + 1)
<1>. DEFINE file == r.payload.file
            new == Len(events) + 1
            top == Largest(file.categories)
            to(s) == IF s = None THEN Nowhere ELSE <<new, s>>
            category(p) == IF p.category = None THEN top + 1 ELSE p.category
            f == [c \in file.categories |-> Category(c.nr, c.name, to(c.station), 0, TRUE)]
            FC == {f[c] : c \in file.categories}
            C == FC \union Fallback(file)
            product(p) == Product(p.nr, p.name, category(p), to(p.station), 0, TRUE,
                                  GroupsOf(file, p))
            P == {product(p) : p \in file.products}
            base == Draft(file.name)
<1>1. \A x \in file.categories \union file.products :
         to(x.station) \in {<<new, k>> : k \in file.stations} \union {Nowhere}
    BY DEF FileParses
<1>2. /\ IsFiniteSet(file.categories) /\ Unique(file.categories)
      /\ NumberedRows(file.categories) /\ \A c \in file.categories : c.nr \in Nat
    BY DEF FileParses, NumbersCategories, NumberedRows
<1>3. \A p \in file.products : /\ p.category \in Refs(file.categories) \union {None}
                               /\ DatabaseAccepts(GroupsOf(file, p))
    BY ParsedGroupsAccepted DEF FileParses
<1>4. Imported(r) = [base EXCEPT !.stations = file.stations, !.categories = C,
                                 !.products = P]
    <2>1. FC = {Category(c.nr, c.name, to(c.station), 0, TRUE) : c \in file.categories}
        OBVIOUS
    <2>. HIDE DEF FC
    <2>. QED
        BY <2>1 DEF Imported
<1>5. NumbersCategories(file)
    OBVIOUS
<1>6. IsEvent(base)
    BY DraftIsEvent
<1>. HIDE DEF file, new, to, base
<1>7. \A c \in file.categories :
         /\ f[c] = Category(f[c].nr, f[c].name, f[c].station, f[c].deposit, f[c].active)
         /\ f[c].nr = c.nr + 0 /\ f[c].station = to(c.station)
    <2>. TAKE c \in file.categories
    <2>1. f[c] = Category(c.nr, c.name, to(c.station), 0, TRUE)
        OBVIOUS
    <2>2. c.nr + 0 = c.nr
        BY <1>2
    <2>. HIDE DEF f
    <2>3. f[c].nr = c.nr /\ f[c].station = to(c.station)
        BY <2>1 DEF Category
    <2>4. f[c] = Category(f[c].nr, f[c].name, f[c].station, f[c].deposit, f[c].active)
        BY <2>1 DEF Category
    <2>. QED
        BY <2>2, <2>3, <2>4
<1>8. DOMAIN f = file.categories /\ FC = {f[c] : c \in file.categories}
    OBVIOUS
<1>9. top \in Nat /\ \A c \in file.categories : c.nr <= top
    BY <1>2, LargestOf
<1>. HIDE DEF f, FC, top
<1>10. /\ IsFiniteSet(FC) /\ Unique(FC) /\ NumberedRows(FC)
       /\ \A k \in Refs(file.categories) : k + 0 \in Refs(FC)
    BY <1>2, <1>7, <1>8, MovedNumbers
<1>11. \A k \in Refs(file.categories) : k \in Refs(FC)
    <2>1. \A k \in Refs(file.categories) : k + 0 = k
        BY <1>2 DEF Refs
    <2>. QED
        BY <1>10, <2>1
<1>12. \A c \in FC : c.nr \in Nat /\ c.nr <= top
    BY <1>2, <1>7, <1>8, <1>9
<1>13. IsFiniteSet(C) /\ Unique(C) /\ NumberedRows(C)
    <2>1. IsFiniteSet(C)
        BY <1>5, <1>10, FallbackFits, FS_Union
    <2>2. \A c \in Fallback(file) : c.nr = top + 1
        BY <1>5, FallbackFits DEF top
    <2>3. NumberedRows(C)
        BY <1>9, <1>10, <2>2 DEF NumberedRows, None
    <2>4. \A c \in FC, d \in Fallback(file) : c.nr # d.nr
        BY <1>9, <1>12, <2>2
    <2>5. \A c, d \in Fallback(file) : c = d
        BY <1>5, FallbackFits
    <2>6. Unique(C)
        BY <1>10, <2>4, <2>5 DEF Unique
    <2>. QED
        BY <2>1, <2>3, <2>6
<1>14. \A c \in C : /\ c = Category(c.nr, c.name, c.station, c.deposit, c.active)
                    /\ c.station \in {<<new, k>> : k \in file.stations} \union {Nowhere}
    <2>1. \A c \in FC : /\ c = Category(c.nr, c.name, c.station, c.deposit, c.active)
                        /\ c.station \in {<<new, k>> : k \in file.stations} \union {Nowhere}
        BY <1>1, <1>7, <1>8
    <2>. QED
        BY <1>5, <2>1, FallbackFits
<1>15. \A p \in file.products : category(p) \in Refs(C)
    <2>. TAKE p \in file.products
    <2>1. CASE p.category = None
        <3>1. top + 1 \in Refs(Fallback(file))
            BY <1>5, <2>1, FallbackFits DEF top
        <3>. QED
            BY <2>1, <3>1 DEF Refs
    <2>2. CASE p.category # None
        <3>1. p.category \in Refs(FC)
            BY <1>3, <1>11, <2>2
        <3>. QED
            BY <2>2, <3>1 DEF Refs
    <2>. QED
        BY <2>1, <2>2
<1>. HIDE DEF C, category
<1>16. \A p \in P :
         /\ p = Product(p.nr, p.name, p.category, p.station, p.deposit, p.available, p.groups)
         /\ p.category \in Refs(C)
         /\ DatabaseAccepts(p.groups)
         /\ p.station \in {<<new, k>> : k \in file.stations} \union {Nowhere}
    <2>. SUFFICES ASSUME NEW q \in file.products
                  PROVE  LET p == product(q)
                         IN  /\ p = Product(p.nr, p.name, p.category, p.station, p.deposit,
                                            p.available, p.groups)
                             /\ p.category \in Refs(C)
                             /\ DatabaseAccepts(p.groups)
                             /\ p.station \in {<<new, k>> : k \in file.stations} \union {Nowhere}
        OBVIOUS
    <2>1. /\ product(q).category = category(q) /\ product(q).station = to(q.station)
          /\ product(q).groups = GroupsOf(file, q)
          /\ product(q) = Product(product(q).nr, product(q).name, product(q).category,
                product(q).station, product(q).deposit, product(q).available, product(q).groups)
        BY DEF Product
    <2>. HIDE DEF product
    <2>. QED
        BY <1>1, <1>3, <1>15, <2>1
<1>. HIDE DEF P
<1>17. \A x \in C \union P : x.station \in {<<new, k>> : k \in file.stations} \union {Nowhere}
    BY <1>14, <1>16
<1>18. RowsFit(file.stations, C, P, new)
    BY <1>13, <1>14, <1>16, <1>17 DEF RowsFit
<1>19. Imported(r) \in [name : {base.name}, status : {base.status}, confirmed : {base.confirmed},
                        stations : {file.stations}, categories : {C}, products : {P}]
    BY <1>4, <1>6 DEF IsEvent
<1>20. /\ IsEvent(Imported(r)) /\ Imported(r).stations = file.stations
       /\ Imported(r).categories = C /\ Imported(r).products = P
    BY <1>19, EventWith
<1>21. Consistent(Imported(r), new)
    BY <1>18, <1>20, ConsistentIs
<1>. QED
    BY <1>21 DEF new

(***************************************************************************)
(* What stays, while events are changed and added                          *)
(***************************************************************************)
LEMMA StillFits ==
    ASSUME NEW evs, NEW later, IsSequence(evs), IsSequence(later), Grows(evs, later)
    PROVE  /\ DOMAIN evs \subseteq DOMAIN later
           /\ \A old : Earlier(old, evs) => Earlier(old, later)
           /\ \A f : FormFits(f, evs) => FormFits(f, later)
           /\ \A d : DialogFits(d, evs) => DialogFits(d, later)
           /\ \A r : RequestFits(r, evs) => RequestFits(r, later)
<1>1. /\ Len(evs) \in Nat /\ DOMAIN evs = 1..Len(evs)
      /\ Len(later) \in Nat /\ DOMAIN later = 1..Len(later) /\ Len(evs) <= Len(later)
    BY SequenceDomain DEF Grows
<1>2. DOMAIN evs \subseteq DOMAIN later
    BY <1>1
<1>3. ASSUME NEW old, Earlier(old, evs)
      PROVE  Earlier(old, later)
    <2>1. Len(old) \in Nat /\ DOMAIN old = 1..Len(old) /\ Len(old) <= Len(evs)
        BY <1>3, SequenceDomain DEF Earlier, Grows
    <2>2. DOMAIN old \subseteq DOMAIN evs /\ Len(old) <= Len(later)
        BY <1>1, <2>1
    <2>3. \A i \in DOMAIN old : old[i].stations \subseteq later[i].stations
        BY <1>3, <2>2 DEF Earlier, Grows
    <2>. QED
        BY <1>3, <2>2, <2>3 DEF Earlier, Grows
<1>4. \A f : FormFits(f, evs) => FormFits(f, later)
    BY <1>2 DEF FormFits
<1>5. \A d : DialogFits(d, evs) => DialogFits(d, later)
    BY <1>2 DEF DialogFits
<1>6. \A r : RequestFits(r, evs) => RequestFits(r, later)
    BY <1>3 DEF RequestFits
<1>. QED
    BY <1>2, <1>3, <1>4, <1>5, <1>6

LEMMA GrowsItself ==
    ASSUME EventsFit
    PROVE  Grows(events, events) /\ Earlier(events, events)
<1>1. Len(events) \in Nat
    BY SequenceDomain DEF EventsFit
<1>. QED
    BY <1>1 DEF EventsFit, Grows, Earlier

(* Every step leaves an event with its number and its stations.            *)
LEMMA EventChanges ==
    ASSUME EventsFit, NEW i \in DOMAIN events, NEW w, Consistent(w, i),
           events[i].stations \subseteq w.stations, events' = [events EXCEPT ![i] = w]
    PROVE  EventsFit' /\ Grows(events, events') /\ Len(events') = Len(events)
<1>1. IsSequence(events) /\ Len(events) \in Nat
    BY SequenceDomain DEF EventsFit
<1>2. /\ IsSequence(events') /\ Len(events') = Len(events) /\ events'[i] = w
      /\ \A k \in DOMAIN events : k # i => events'[k] = events[k]
      /\ DOMAIN events' = DOMAIN events
    BY <1>1, SequenceReplaces
<1>3. \A k \in DOMAIN events : Consistent(events'[k], k)
    BY <1>2 DEF EventsFit
<1>4. \A k \in DOMAIN events : events[k].stations \subseteq events'[k].stations
    BY <1>2
<1>. QED
    BY <1>1, <1>2, <1>3, <1>4 DEF EventsFit, Grows

LEMMA EventAdded ==
    ASSUME EventsFit, NEW w, Consistent(w, Len(events) + 1), events' = Append(events, w)
    PROVE  EventsFit' /\ Grows(events, events') /\ events'[Len(events')] = w
<1>1. IsSequence(events) /\ Len(events) \in Nat /\ Len(events) >= 1
    BY SequenceDomain DEF EventsFit
<1>2. /\ IsSequence(events') /\ Len(events') = Len(events) + 1
      /\ \A k \in DOMAIN events : events'[k] = events[k]
      /\ events'[Len(events) + 1] = w
      /\ DOMAIN events' = DOMAIN events \union {Len(events) + 1}
    BY <1>1, SequenceAppends
<1>3. \A k \in DOMAIN events' : Consistent(events'[k], k)
    BY <1>2 DEF EventsFit
<1>4. \A k \in DOMAIN events : events[k].stations \subseteq events'[k].stations
    BY <1>2
<1>. QED
    BY <1>1, <1>2, <1>3, <1>4 DEF EventsFit, Grows

LEMMA PagesStay ==
    ASSUME AssortmentInv, EventsFit', Grows(events, events'),
           selected' \in [Admins -> DOMAIN events'],
           form' = [a \in Admins |-> form'[a]], dialog' = [a \in Admins |-> dialog'[a]],
           \A a \in Admins : form'[a] \in {form[a], NoForm} \/ FormFits(form'[a], events'),
           \A a \in Admins : dialog'[a] \in {dialog[a], NoDialog} \/ DialogFits(dialog'[a], events')
    PROVE  PagesFit'
<1>1. /\ \A f : FormFits(f, events) => FormFits(f, events')
      /\ \A d : DialogFits(d, events) => DialogFits(d, events')
    BY StillFits DEF AssortmentInv, EventsFit
<1>2. \A a \in Admins : form'[a] = NoForm \/ FormFits(form'[a], events')
    BY <1>1 DEF AssortmentInv, PagesFit
<1>3. \A a \in Admins : dialog'[a] = NoDialog \/ DialogFits(dialog'[a], events')
    BY <1>1 DEF AssortmentInv, PagesFit
<1>. QED
    BY <1>2, <1>3 DEF PagesFit, NoForm, NoDialog

LEMMA PagesUnchanged ==
    ASSUME AssortmentInv, EventsFit', Grows(events, events'), UNCHANGED <<selected, form, dialog>>
    PROVE  PagesFit'
<1>1. DOMAIN events \subseteq DOMAIN events'
    BY StillFits DEF AssortmentInv, EventsFit
<1>2. /\ selected' \in [Admins -> DOMAIN events']
      /\ form' = [a \in Admins |-> form'[a]] /\ dialog' = [a \in Admins |-> dialog'[a]]
    BY <1>1 DEF AssortmentInv, PagesFit
<1>. QED
    BY <1>2, PagesStay

LEMMA RequestsStay ==
    ASSUME AssortmentInv, EventsFit', Grows(events, events'),
           \A r \in running' : r \in running \/ RequestFits(r, events'),
           \A file \in exported' : file \in exported \/ NumbersCategories(file)
    PROVE  RequestsFit'
<1>1. \A r : RequestFits(r, events) => RequestFits(r, events')
    BY StillFits DEF AssortmentInv, EventsFit
<1>2. \A r \in running' : RequestFits(r, events')
    BY <1>1 DEF AssortmentInv, RequestsFit
<1>. QED
    BY <1>2 DEF AssortmentInv, RequestsFit

(* A step of a page: the events stay as they are.                          *)
LEMMA EventsStay ==
    ASSUME AssortmentInv, UNCHANGED events
    PROVE  EventsFit' /\ Grows(events, events') /\ Len(events') = Len(events)
<1>1. EventsFit' 
    BY DEF AssortmentInv, EventsFit
<1>. QED
    BY <1>1, GrowsItself DEF AssortmentInv, Grows

(***************************************************************************)
(* A row that is saved                                                     *)
(***************************************************************************)
(* An event with another set of categories, products or stations.          *)
LEMMA EventExcept ==
    ASSUME NEW e, IsEvent(e), NEW X
    PROVE  /\ \A w : w = [e EXCEPT !.categories = X] =>
                 IsEvent(w) /\ w.stations = e.stations /\ w.categories = X /\ w.products = e.products
           /\ \A w : w = [e EXCEPT !.products = X] =>
                 IsEvent(w) /\ w.stations = e.stations /\ w.categories = e.categories /\ w.products = X
           /\ \A w : w = [e EXCEPT !.stations = X] =>
                 IsEvent(w) /\ w.stations = X /\ w.categories = e.categories /\ w.products = e.products
<1>. DEFINE c == [e EXCEPT !.categories = X]
            p == [e EXCEPT !.products = X]
            s == [e EXCEPT !.stations = X]
<1>1. c \in [name : {e.name}, status : {e.status}, confirmed : {e.confirmed},
             stations : {e.stations}, categories : {X}, products : {e.products}]
    BY DEF IsEvent
<1>2. p \in [name : {e.name}, status : {e.status}, confirmed : {e.confirmed},
             stations : {e.stations}, categories : {e.categories}, products : {X}]
    BY DEF IsEvent
<1>3. s \in [name : {e.name}, status : {e.status}, confirmed : {e.confirmed},
             stations : {X}, categories : {e.categories}, products : {e.products}]
    BY DEF IsEvent
<1>. HIDE DEF c, p, s
<1>4. IsEvent(c) /\ c.stations = e.stations /\ c.categories = X /\ c.products = e.products
    BY <1>1, EventWith
<1>5. IsEvent(p) /\ p.stations = e.stations /\ p.categories = e.categories /\ p.products = X
    BY <1>2, EventWith
<1>6. IsEvent(s) /\ s.stations = X /\ s.categories = e.categories /\ s.products = e.products
    BY <1>3, EventWith
<1>. QED
    BY <1>4, <1>5, <1>6 DEF c, p, s

LEMMA NumberedCategory ==
    ASSUME NEW all, IsFiniteSet(all), NumberedRows(all), NEW row, NEW n, n = Numbered(row, all),
           row = Category(row.nr, row.name, row.station, row.deposit, row.active), row.nr \in Nat
    PROVE  /\ n = Category(n.nr, n.name, n.station, n.deposit, n.active)
           /\ n.station = row.station /\ n.nr \in Nat \ {None}
           /\ row.nr # 0 => n.nr = row.nr
           /\ row.nr = 0 => \A c \in all : c.nr # n.nr
<1>1. Largest(all) \in Nat /\ \A c \in all : c.nr \in Nat \ {0} /\ c.nr <= Largest(all)
    BY LargestOf DEF NumberedRows, None
<1>. DEFINE k == IF row.nr = 0 THEN Largest(all) + 1 ELSE row.nr
<1>2. n \in [nr : {k}, name : {row.name}, station : {row.station}, deposit : {row.deposit},
             active : {row.active}]
    BY DEF Numbered, Category
<1>3. /\ k \in Nat \ {0} /\ (row.nr # 0 => k = row.nr)
      /\ row.nr = 0 => \A c \in all : c.nr # k
    BY <1>1
<1>. HIDE DEF k
<1>4. n = Category(n.nr, n.name, n.station, n.deposit, n.active)
    BY <1>2 DEF Category
<1>5. n.nr = k /\ n.station = row.station
    BY <1>2
<1>. QED
    BY <1>3, <1>4, <1>5 DEF None

LEMMA NumberedProduct ==
    ASSUME NEW all, NEW row, NEW n, n = Numbered(row, all),
           row = Product(row.nr, row.name, row.category, row.station, row.deposit, row.available,
                         row.groups)
    PROVE  /\ n = Product(n.nr, n.name, n.category, n.station, n.deposit, n.available, n.groups)
           /\ n.station = row.station /\ n.category = row.category /\ n.groups = row.groups
<1>. DEFINE k == IF row.nr = 0 THEN Largest(all) + 1 ELSE row.nr
<1>1. n \in [nr : {k}, name : {row.name}, category : {row.category}, station : {row.station},
             deposit : {row.deposit}, available : {row.available}, groups : {row.groups}]
    BY DEF Numbered, Product
<1>. HIDE DEF k
<1>2. n = Product(n.nr, n.name, n.category, n.station, n.deposit, n.available, n.groups)
    BY <1>1 DEF Product
<1>. QED
    BY <1>1, <1>2

LEMMA SaysWhere ==
    ASSUME NEW e \in DOMAIN events, NEW s, StationBelongsToEvent(s, e)
    PROVE  s \in Sites(events[e], e)
BY DEF StationBelongsToEvent, StationsOf, Sites

LEMMA CategoryPut ==
    ASSUME EventsFit, NEW e \in DOMAIN events, NEW row, PutCategory(e, row),
           row = Category(row.nr, row.name, row.station, row.deposit, row.active), row.nr \in Nat
    PROVE  EventsFit' /\ Grows(events, events') /\ Len(events') = Len(events)
<1>. DEFINE all == events[e].categories
            n == Numbered(row, all)
            X == Others(row, all) \union {n}
            w == [events[e] EXCEPT !.categories = X]
<1>1. IsEvent(events[e]) /\ RowsFit(events[e].stations, all, events[e].products, e)
    BY ConsistentIs DEF EventsFit
<1>2. /\ IsFiniteSet(all) /\ Unique(all) /\ NumberedRows(all)
      /\ \A c \in all : c = Category(c.nr, c.name, c.station, c.deposit, c.active)
    BY <1>1 DEF RowsFit
<1>3. events' = [events EXCEPT ![e] = w]
    BY DEF PutCategory
<1>4. /\ n = Category(n.nr, n.name, n.station, n.deposit, n.active)
      /\ n.station = row.station /\ n.nr \in Nat \ {None}
      /\ row.nr # 0 => n.nr = row.nr
      /\ row.nr = 0 => \A c \in all : c.nr # n.nr
    <2>. HIDE DEF n
    <2>1. n = Numbered(row, all)
        BY DEF n
    <2>. HIDE DEF all
    <2>. QED
        BY <1>2, <2>1, NumberedCategory
<1>. HIDE DEF n
<1>5. n.station \in Sites(events[e], e)
    BY <1>4, SaysWhere DEF PutCategory
<1>. HIDE DEF all
<1>6. \A c \in Others(row, all) : c \in all /\ c.nr # row.nr /\ c.nr # n.nr
    BY <1>4 DEF Others
<1>7. IsFiniteSet(X)
    <2>1. IsFiniteSet(Others(row, all))
        BY <1>2, FS_Subset DEF Others
    <2>. QED
        BY <2>1, FS_AddElement
<1>8. Unique(X)
    BY <1>2, <1>6 DEF Unique
<1>9. NumberedRows(X)
    BY <1>2, <1>4, <1>6 DEF NumberedRows
<1>10. \A c \in X : c = Category(c.nr, c.name, c.station, c.deposit, c.active)
    BY <1>2, <1>4, <1>6
<1>11. Refs(all) \subseteq Refs(X)
    <2>1. \A c \in all : c.nr = n.nr \/ c \in Others(row, all)
        <3>1. \A c \in all : c.nr = row.nr => row.nr # 0
            BY <1>2 DEF NumberedRows, None
        <3>. QED
            BY <1>4, <3>1 DEF Others
    <2>2. \A c \in all : \E d \in X : d.nr = c.nr
        BY <2>1
    <2>. HIDE DEF X
    <2>. QED
        BY <2>2 DEF Refs
<1>12. \A x \in X \union events[e].products :
           x.station \in {<<e, k>> : k \in events[e].stations} \union {Nowhere}
    <2>1. \A x \in all \union events[e].products :
           x.station \in {<<e, k>> : k \in events[e].stations} \union {Nowhere}
        BY <1>1 DEF RowsFit
    <2>. QED
        BY <1>5, <1>6, <2>1 DEF Sites
<1>. HIDE DEF X
<1>13. RowsFit(events[e].stations, X, events[e].products, e)
    BY <1>1, <1>7, <1>8, <1>9, <1>10, <1>11, <1>12 DEF RowsFit
<1>14. IsEvent(w) /\ w.stations = events[e].stations /\ w.categories = X
       /\ w.products = events[e].products
    <2>1. w = [events[e] EXCEPT !.categories = X]
        OBVIOUS
    <2>. HIDE DEF w
    <2>. QED
        BY <1>1, <2>1, EventExcept
<1>. HIDE DEF w
<1>15. Consistent(w, e)
    BY <1>13, <1>14, ConsistentIs
<1>. QED
    BY <1>3, <1>14, <1>15, EventChanges

(* An event with other products, or more stations.                         *)
LEMMA ProductsChange ==
    ASSUME EventsFit, NEW e \in DOMAIN events, NEW S, NEW P,
           events[e].stations \subseteq S,
           \A p \in P :
              \/ p \in events[e].products
              \/ /\ p = Product(p.nr, p.name, p.category, p.station, p.deposit, p.available, p.groups)
                 /\ p.category \in Refs(events[e].categories) /\ DatabaseAccepts(p.groups)
                 /\ p.station \in Sites(events[e], e),
           NEW w, events' = [events EXCEPT ![e] = w],
           IsEvent(w), w.stations = S, w.categories = events[e].categories, w.products = P
    PROVE  EventsFit' /\ Grows(events, events') /\ Len(events') = Len(events)
<1>. DEFINE C == events[e].categories
<1>1. RowsFit(events[e].stations, C, events[e].products, e)
    BY ConsistentIs DEF EventsFit
<1>2. Sites(events[e], e) \subseteq {<<e, k>> : k \in S} \union {Nowhere}
    BY DEF Sites
<1>3. {<<e, k>> : k \in events[e].stations} \union {Nowhere} \subseteq Sites(events[e], e)
    BY DEF Sites
<1>. HIDE DEF C
<1>4. \A x \in C \union P : x.station \in {<<e, k>> : k \in S} \union {Nowhere}
    BY <1>1, <1>2, <1>3 DEF RowsFit
<1>5. \A p \in P :
         /\ p = Product(p.nr, p.name, p.category, p.station, p.deposit, p.available, p.groups)
         /\ p.category \in Refs(C) /\ DatabaseAccepts(p.groups)
    BY <1>1 DEF RowsFit, C
<1>6. RowsFit(S, C, P, e)
    BY <1>1, <1>4, <1>5 DEF RowsFit
<1>7. Consistent(w, e)
    BY <1>6, ConsistentIs DEF C
<1>. QED
    BY <1>7, EventChanges

LEMMA ProductPut ==
    ASSUME EventsFit, NEW e \in DOMAIN events, NEW row, PutProduct(e, row),
           row = Product(row.nr, row.name, row.category, row.station, row.deposit, row.available,
                         row.groups), DatabaseAccepts(row.groups)
    PROVE  EventsFit' /\ Grows(events, events') /\ Len(events') = Len(events)
<1>. DEFINE all == events[e].products
            n == Numbered(row, all)
            P == Others(row, all) \union {n}
            w == [events[e] EXCEPT !.products = P]
<1>1. IsEvent(events[e])
    BY ConsistentIs DEF EventsFit
<1>2. events' = [events EXCEPT ![e] = w]
    BY DEF PutProduct
<1>3. /\ n = Product(n.nr, n.name, n.category, n.station, n.deposit, n.available, n.groups)
      /\ n.station = row.station /\ n.category = row.category /\ n.groups = row.groups
    BY NumberedProduct
<1>. HIDE DEF n
<1>4. n.station \in Sites(events[e], e) /\ n.category \in Refs(events[e].categories)
    BY <1>3, SaysWhere DEF PutProduct, CategoryBelongsToEvent, Refs
<1>5. \A p \in P : p \in events[e].products \/ p = n
    BY DEF Others
<1>. HIDE DEF P
<1>6. /\ IsEvent(w) /\ w.stations = events[e].stations /\ w.categories = events[e].categories
      /\ w.products = P
    <2>1. w = [events[e] EXCEPT !.products = P]
        OBVIOUS
    <2>. HIDE DEF w
    <2>. QED
        BY <1>1, <2>1, EventExcept
<1>. HIDE DEF w
<1>7. \A p \in P :
         \/ p \in events[e].products
         \/ /\ p = Product(p.nr, p.name, p.category, p.station, p.deposit, p.available, p.groups)
            /\ p.category \in Refs(events[e].categories) /\ DatabaseAccepts(p.groups)
            /\ p.station \in Sites(events[e], e)
    BY <1>3, <1>4, <1>5
<1>. QED
    BY <1>2, <1>6, <1>7, ProductsChange

(***************************************************************************)
(* The forms and lists                                                     *)
(***************************************************************************)
LEMMA InvAgain ==
    ASSUME AssortmentInv, EventsFit', Grows(events, events'), UNCHANGED <<running, exported>>,
           PagesFit'
    PROVE  AssortmentInv'
BY RequestsStay DEF AssortmentInv

LEMMA SelectEventKeeps ==
    ASSUME AssortmentInv, NEW a \in Admins, NEW e \in DOMAIN events, SelectEvent(a, e)
    PROVE  AssortmentInv' /\ Len(events') = Len(events)
<1>1. UNCHANGED <<events, exported, running, form, dialog>>
    BY DEF SelectEvent, tables
<1>2. EventsFit' /\ Grows(events, events') /\ Len(events') = Len(events)
    BY <1>1, EventsStay
<1>3. selected' \in [Admins -> DOMAIN events']
    BY <1>1 DEF SelectEvent, AssortmentInv, PagesFit
<1>4. form' = [b \in Admins |-> form'[b]] /\ dialog' = [b \in Admins |-> dialog'[b]]
    BY <1>1 DEF AssortmentInv, PagesFit
<1>5. PagesFit'
    BY <1>1, <1>2, <1>3, <1>4, PagesStay
<1>. QED
    BY <1>1, <1>2, <1>5, InvAgain

(* A form that is opened, changed or closed.                               *)
LEMMA FormKeeps ==
    ASSUME AssortmentInv, NEW a \in Admins, EventsFit', Grows(events, events'),
           NEW f, FormBecomes(a, f), f = NoForm \/ FormFits(f, events')
    PROVE  PagesFit'
<1>1. UNCHANGED <<selected, dialog>> /\ form' = [form EXCEPT ![a] = f]
    BY DEF FormBecomes
<1>2. DOMAIN events \subseteq DOMAIN events'
    BY StillFits DEF AssortmentInv, EventsFit
<1>3. selected' \in [Admins -> DOMAIN events'] /\ dialog' = [b \in Admins |-> dialog'[b]]
    BY <1>1, <1>2 DEF AssortmentInv, PagesFit
<1>4. /\ form' = [b \in Admins |-> form'[b]]
      /\ form'[a] = f /\ \A b \in Admins : b # a => form'[b] = form[b]
    BY <1>1 DEF AssortmentInv, PagesFit
<1>5. \A b \in Admins : form'[b] \in {form[b], NoForm} \/ FormFits(form'[b], events')
    BY <1>4
<1>. QED
    BY <1>1, <1>2, <1>3, <1>4, <1>5, PagesStay

LEMMA OpenModalKeeps ==
    ASSUME AssortmentInv, NEW a \in Admins, NEW kind \in {"category", "product"},
           NEW row \in Listed(selected[a], kind), OpenModal(a, kind, row)
    PROVE  AssortmentInv' /\ Len(events') = Len(events)
<1>. DEFINE e == selected[a]
            f == [kind |-> kind, event |-> e, row |-> row, stations |-> StationsOf(e)]
<1>1. UNCHANGED <<events, exported, running>> /\ FormBecomes(a, f)
    BY DEF OpenModal, tables
<1>2. EventsFit' /\ Grows(events, events') /\ Len(events') = Len(events)
    BY <1>1, EventsStay
<1>3. e \in DOMAIN events
    BY DEF AssortmentInv, PagesFit
<1>4. RowsFit(events[e].stations, events[e].categories, events[e].products, e)
    BY <1>3, ConsistentIs DEF AssortmentInv, EventsFit
<1>5. kind = "category" =>
          row = Category(row.nr, row.name, row.station, row.deposit, row.active) /\ row.nr \in Nat
    <2>. SUFFICES ASSUME kind = "category"
                  PROVE  row = Category(row.nr, row.name, row.station, row.deposit, row.active)
                         /\ row.nr \in Nat
        OBVIOUS
    <2>1. row \in events[e].categories \/ \E n \in Names : row = Category(0, n, Nowhere, 0, TRUE)
        BY DEF Listed, RowsOf, Blank
    <2>2. CASE row \in events[e].categories
        BY <1>4, <2>2 DEF RowsFit, NumberedRows
    <2>3. CASE \E n \in Names : row = Category(0, n, Nowhere, 0, TRUE)
        BY <2>3 DEF Category
    <2>. QED
        BY <2>1, <2>2, <2>3
<1>6. kind = "product" =>
          /\ row = Product(row.nr, row.name, row.category, row.station, row.deposit,
                           row.available, row.groups)
          /\ DatabaseAccepts(row.groups)
    <2>. SUFFICES ASSUME kind = "product"
                  PROVE  /\ row = Product(row.nr, row.name, row.category, row.station,
                                          row.deposit, row.available, row.groups)
                         /\ DatabaseAccepts(row.groups)
        OBVIOUS
    <2>1. \/ row \in events[e].products
          \/ \E n \in Names :
                row = Product(0, n, Largest(events[e].categories), Nowhere, 0, TRUE, << >>)
        BY DEF Listed, RowsOf, Blank
    <2>2. CASE row \in events[e].products
        BY <1>4, <2>2 DEF RowsFit
    <2>3. ASSUME NEW n \in Names,
                 row = Product(0, n, Largest(events[e].categories), Nowhere, 0, TRUE, << >>)
          PROVE  /\ row = Product(row.nr, row.name, row.category, row.station,
                                  row.deposit, row.available, row.groups)
                 /\ DatabaseAccepts(row.groups)
        <3>1. row.groups = << >>
            BY <2>3 DEF Product
        <3>2. row = Product(row.nr, row.name, row.category, row.station, row.deposit,
                            row.available, row.groups)
            BY <2>3 DEF Product
        <3>. QED
            BY <3>1, <3>2, NoGroupsAccepted
    <2>. QED
        BY <2>1, <2>2, <2>3
<1>7. FormFits(f, events')
    BY <1>1, <1>3, <1>5, <1>6 DEF FormFits, CategoryForm, ProductForm
<1>. HIDE DEF f
<1>8. PagesFit'
    BY <1>1, <1>2, <1>7, FormKeeps
<1>. QED
    BY <1>1, <1>2, <1>8, InvAgain

(* What a form changes: one field of a row.                                *)
LEMMA CategoryFieldSet ==
    ASSUME NEW row, row = Category(row.nr, row.name, row.station, row.deposit, row.active),
           NEW x, NEW r,
           \/ r = [row EXCEPT !.station = x] \/ r = [row EXCEPT !.deposit = x]
           \/ r = [row EXCEPT !.active = x]
    PROVE  r = Category(r.nr, r.name, r.station, r.deposit, r.active) /\ r.nr = row.nr
<1>1. r \in [nr : {row.nr}, name : {row.name}, station : {row.station, x},
             deposit : {row.deposit, x}, active : {row.active, x}]
    BY DEF Category
<1>. QED
    BY <1>1 DEF Category

LEMMA ProductFieldSet ==
    ASSUME NEW row,
           row = Product(row.nr, row.name, row.category, row.station, row.deposit, row.available,
                         row.groups),
           NEW x, NEW r,
           \/ r = [row EXCEPT !.station = x] \/ r = [row EXCEPT !.deposit = x]
           \/ r = [row EXCEPT !.available = x]
    PROVE  /\ r = Product(r.nr, r.name, r.category, r.station, r.deposit, r.available, r.groups)
           /\ r.groups = row.groups
<1>1. r \in [nr : {row.nr}, name : {row.name}, category : {row.category},
             station : {row.station, x}, deposit : {row.deposit, x},
             available : {row.available, x}, groups : {row.groups}]
    BY DEF Product
<1>. QED
    BY <1>1 DEF Product

LEMMA SetRowKeeps ==
    ASSUME AssortmentInv, NEW a \in Admins, NEW row, SetRow(a, row),
           \/ /\ form[a].kind = "category" /\ row.nr = form[a].row.nr
              /\ row = Category(row.nr, row.name, row.station, row.deposit, row.active)
           \/ /\ form[a].kind = "product" /\ row.groups = form[a].row.groups
              /\ row = Product(row.nr, row.name, row.category, row.station, row.deposit,
                               row.available, row.groups)
    PROVE  AssortmentInv' /\ Len(events') = Len(events)
<1>. DEFINE g == form[a]
            f == [g EXCEPT !.row = row]
<1>1. UNCHANGED <<events, exported, running>> /\ FormBecomes(a, f) /\ g # NoForm
    BY DEF SetRow, tables
<1>2. EventsFit' /\ Grows(events, events') /\ Len(events') = Len(events)
    BY <1>1, EventsStay
<1>3. FormFits(g, events)
    BY <1>1 DEF AssortmentInv, PagesFit
<1>. HIDE DEF g
<1>4. f \in [kind : {g.kind}, event : {g.event}, row : {row}, stations : {g.stations}]
    BY <1>3 DEF FormFits
<1>. HIDE DEF f
<1>5. CategoryForm(g) => CategoryForm(f)
    BY <1>4 DEF CategoryForm, g
<1>6. ProductForm(g) => ProductForm(f)
    BY <1>4 DEF ProductForm, g
<1>7. FormFits(f, events)
    BY <1>3, <1>4, <1>5, <1>6 DEF FormFits
<1>8. FormFits(f, events')
    BY <1>1, <1>7
<1>9. PagesFit'
    BY <1>1, <1>2, <1>8, FormKeeps
<1>. QED
    BY <1>1, <1>2, <1>9, InvAgain

LEMMA SetFieldsKeep ==
    ASSUME AssortmentInv, NEW a \in Admins, form[a] # NoForm,
           \/ \E s : SetTargetStation(a, s)
           \/ SetDeposit(a, 1)
           \/ \E flag : SetActive(a, flag)
    PROVE  AssortmentInv' /\ Len(events') = Len(events)
<1>. DEFINE g == form[a].row
<1>1. CategoryForm(form[a]) \/ ProductForm(form[a])
    BY DEF AssortmentInv, PagesFit, FormFits
<1>2. /\ form[a].kind = "category" =>
            g = Category(g.nr, g.name, g.station, g.deposit, g.active)
      /\ form[a].kind # "category" =>
            /\ form[a].kind = "product"
            /\ g = Product(g.nr, g.name, g.category, g.station, g.deposit, g.available, g.groups)
    BY <1>1 DEF CategoryForm, ProductForm
<1>3. ASSUME NEW x, NEW row,
             \/ row = [g EXCEPT !.station = x] \/ row = [g EXCEPT !.deposit = x]
             \/ form[a].kind = "category" /\ row = [g EXCEPT !.active = x]
             \/ form[a].kind # "category" /\ row = [g EXCEPT !.available = x],
             SetRow(a, row)
      PROVE  AssortmentInv' /\ Len(events') = Len(events)
    <2>. HIDE DEF g
    <2>1. CASE form[a].kind = "category"
        <3>1. row = Category(row.nr, row.name, row.station, row.deposit, row.active)
              /\ row.nr = g.nr
            BY <1>2, <1>3, <2>1, CategoryFieldSet
        <3>. QED
            BY <1>3, <2>1, <3>1, SetRowKeeps DEF g
    <2>2. CASE form[a].kind # "category"
        <3>1. /\ row = Product(row.nr, row.name, row.category, row.station, row.deposit,
                               row.available, row.groups)
              /\ row.groups = g.groups
            BY <1>2, <1>3, <2>2, ProductFieldSet
        <3>. QED
            BY <1>2, <1>3, <2>2, <3>1, SetRowKeeps DEF g
    <2>. QED
        BY <2>1, <2>2
<1>4. ASSUME NEW s, SetTargetStation(a, s)
      PROVE  AssortmentInv' /\ Len(events') = Len(events)
    BY <1>3, <1>4 DEF SetTargetStation
<1>5. CASE SetDeposit(a, 1)
    BY <1>3, <1>5 DEF SetDeposit
<1>6. ASSUME NEW flag, SetActive(a, flag)
      PROVE  AssortmentInv' /\ Len(events') = Len(events)
    <2>1. PICK row : /\ SetRow(a, row)
                     /\ row = IF form[a].kind = "category" THEN [g EXCEPT !.active = flag]
                              ELSE [g EXCEPT !.available = flag]
        BY <1>6 DEF SetActive
    <2>. HIDE DEF g
    <2>. QED
        BY <1>3, <2>1
<1>. QED
    BY <1>4, <1>5, <1>6

LEMMA CloseModalKeeps ==
    ASSUME AssortmentInv, NEW a \in Admins, CloseModal(a)
    PROVE  AssortmentInv' /\ Len(events') = Len(events)
<1>1. UNCHANGED <<events, exported, running>> /\ FormBecomes(a, NoForm)
    BY DEF CloseModal, tables
<1>2. EventsFit' /\ Grows(events, events') /\ Len(events') = Len(events)
    BY <1>1, EventsStay
<1>3. PagesFit'
    BY <1>1, <1>2, FormKeeps
<1>. QED
    BY <1>1, <1>2, <1>3, InvAgain

LEMMA SaveModalKeeps ==
    ASSUME AssortmentInv, NEW a \in Admins, SaveModal(a)
    PROVE  AssortmentInv' /\ Len(events') = Len(events)
<1>. DEFINE f == form[a]
            e == IF f.row.nr = 0 THEN selected[a] ELSE f.event
<1>1. /\ f # NoForm /\ FormBecomes(a, NoForm) /\ UNCHANGED <<exported, running>>
      /\ f.kind = "category" => PutCategory(e, f.row)
      /\ f.kind # "category" => PutProduct(e, f.row)
    BY DEF SaveModal
<1>2. FormFits(f, events) /\ selected[a] \in DOMAIN events
    BY <1>1 DEF AssortmentInv, PagesFit
<1>3. e \in DOMAIN events
    BY <1>2 DEF FormFits
<1>. HIDE DEF f, e
<1>4. EventsFit' /\ Grows(events, events') /\ Len(events') = Len(events)
    <2>1. CASE CategoryForm(f)
        BY <1>1, <1>3, <2>1, CategoryPut DEF CategoryForm, AssortmentInv
    <2>2. CASE ProductForm(f)
        BY <1>1, <1>3, <2>2, ProductPut DEF ProductForm, AssortmentInv
    <2>. QED
        BY <1>2, <2>1, <2>2 DEF FormFits
<1>5. PagesFit'
    BY <1>1, <1>4, FormKeeps
<1>. QED
    BY <1>1, <1>4, <1>5, InvAgain

LEMMA ToggleKeeps ==
    ASSUME AssortmentInv, NEW a \in Admins, NEW p \in events[selected[a]].products,
           ToggleAvailability(a, p)
    PROVE  AssortmentInv' /\ Len(events') = Len(events)
<1>. DEFINE e == selected[a]
            n == [p EXCEPT !.available = ~p.available]
            P == Others(p, events[e].products) \union {n}
            w == [events[e] EXCEPT !.products = P]
<1>1. /\ UNCHANGED <<exported, running, selected, form, dialog>>
      /\ events' = [events EXCEPT ![e] = w]
    BY DEF ToggleAvailability, WithAvailability, pages
<1>2. e \in DOMAIN events /\ EventsFit
    BY DEF AssortmentInv, PagesFit
<1>3. IsEvent(events[e]) /\ RowsFit(events[e].stations, events[e].categories, events[e].products, e)
    BY <1>2, ConsistentIs DEF EventsFit
<1>4. /\ p = Product(p.nr, p.name, p.category, p.station, p.deposit, p.available, p.groups)
      /\ p.category \in Refs(events[e].categories) /\ DatabaseAccepts(p.groups)
      /\ p.station \in Sites(events[e], e)
    BY <1>3 DEF RowsFit, Sites
<1>5. /\ n = Product(n.nr, n.name, n.category, n.station, n.deposit, n.available, n.groups)
      /\ n.category = p.category /\ n.groups = p.groups /\ n.station = p.station
    <2>1. n \in [nr : {p.nr}, name : {p.name}, category : {p.category}, station : {p.station},
                 deposit : {p.deposit}, available : {~p.available}, groups : {p.groups}]
        BY <1>4 DEF Product
    <2>. HIDE DEF n
    <2>. QED
        BY <2>1 DEF Product
<1>. HIDE DEF n
<1>6. \A q \in P :
         \/ q \in events[e].products
         \/ /\ q = Product(q.nr, q.name, q.category, q.station, q.deposit, q.available, q.groups)
            /\ q.category \in Refs(events[e].categories) /\ DatabaseAccepts(q.groups)
            /\ q.station \in Sites(events[e], e)
    BY <1>4, <1>5 DEF Others
<1>. HIDE DEF P
<1>7. /\ IsEvent(w) /\ w.stations = events[e].stations /\ w.categories = events[e].categories
      /\ w.products = P
    <2>1. w = [events[e] EXCEPT !.products = P]
        OBVIOUS
    <2>. HIDE DEF w, e
    <2>. QED
        BY <1>3, <2>1, EventExcept
<1>. HIDE DEF w, e
<1>8. EventsFit' /\ Grows(events, events') /\ Len(events') = Len(events)
    BY <1>1, <1>2, <1>6, <1>7, ProductsChange
<1>9. PagesFit'
    BY <1>1, <1>8, PagesUnchanged
<1>. QED
    BY <1>1, <1>8, <1>9, InvAgain

LEMMA CreateStationKeeps ==
    ASSUME AssortmentInv, NEW a \in Admins, CreateStation(a)
    PROVE  AssortmentInv' /\ Len(events') = Len(events)
<1>. DEFINE e == selected[a]
            S == events[e].stations \union {Cardinality(events[e].stations) + 1}
            w == [events[e] EXCEPT !.stations = S]
<1>1. /\ UNCHANGED <<exported, running, selected, form, dialog>>
      /\ events' = [events EXCEPT ![e] = w]
    BY DEF CreateStation, pages
<1>2. e \in DOMAIN events /\ EventsFit
    BY DEF AssortmentInv, PagesFit
<1>3. IsEvent(events[e])
    BY <1>2, ConsistentIs DEF EventsFit
<1>4. events[e].stations \subseteq S
    OBVIOUS
<1>. HIDE DEF S
<1>5. /\ IsEvent(w) /\ w.stations = S /\ w.categories = events[e].categories
      /\ w.products = events[e].products
    <2>1. w = [events[e] EXCEPT !.stations = S]
        OBVIOUS
    <2>. HIDE DEF w, e
    <2>. QED
        BY <1>3, <2>1, EventExcept
<1>. HIDE DEF w, e
<1>6. EventsFit' /\ Grows(events, events') /\ Len(events') = Len(events)
    <2>. DEFINE P == events[e].products
    <2>1. \A p \in P :
             \/ p \in events[e].products
             \/ /\ p = Product(p.nr, p.name, p.category, p.station, p.deposit, p.available, p.groups)
                /\ p.category \in Refs(events[e].categories) /\ DatabaseAccepts(p.groups)
                /\ p.station \in Sites(events[e], e)
        OBVIOUS
    <2>2. w.products = P
        BY <1>5
    <2>. HIDE DEF P
    <2>. QED
        BY <1>1, <1>2, <1>4, <1>5, <2>1, <2>2, ProductsChange
<1>7. PagesFit'
    BY <1>1, <1>6, PagesUnchanged
<1>. QED
    BY <1>1, <1>6, <1>7, InvAgain

(***************************************************************************)
(* The dialogs and the requests                                            *)
(***************************************************************************)
LEMMA DialogKeeps ==
    ASSUME AssortmentInv, NEW a \in Admins, UNCHANGED <<events, selected, form>>,
           NEW d, DialogBecomes(a, d), d = NoDialog \/ DialogFits(d, events)
    PROVE  EventsFit' /\ Grows(events, events') /\ Len(events') = Len(events) /\ PagesFit'
<1>1. EventsFit' /\ Grows(events, events') /\ Len(events') = Len(events)
    BY EventsStay
<1>2. selected' \in [Admins -> DOMAIN events'] /\ form' = [b \in Admins |-> form'[b]]
    BY DEF AssortmentInv, PagesFit
<1>3. /\ dialog' = [b \in Admins |-> dialog'[b]]
      /\ dialog'[a] = d /\ \A b \in Admins : b # a => dialog'[b] = dialog[b]
    BY DEF AssortmentInv, PagesFit, DialogBecomes
<1>4. \A b \in Admins : dialog'[b] \in {dialog[b], NoDialog} \/ DialogFits(dialog'[b], events')
    BY <1>3
<1>5. PagesFit'
    BY <1>1, <1>2, <1>3, <1>4, PagesStay
<1>. QED
    BY <1>1, <1>5

LEMMA OpenDialogKeeps ==
    ASSUME AssortmentInv, NEW a \in Admins, NEW action \in {"duplicate", "copy"},
           OpenDialog(a, action)
    PROVE  AssortmentInv' /\ Len(events') = Len(events)
<1>. DEFINE d == [action |-> action, nr |-> counts.dialogs + 1, source |-> selected[a],
                  target |-> None, name |-> NoName, busy |-> FALSE,
                  mapping |-> [s \in StationsOf(selected[a]) |-> Nowhere]]
<1>1. UNCHANGED <<events, exported, running, selected, form>> /\ DialogBecomes(a, d)
    BY DEF OpenDialog, tables
<1>2. DialogFits(d, events)
    <2>1. selected[a] \in DOMAIN events
        BY DEF AssortmentInv, PagesFit
    <2>. QED
        BY <2>1 DEF DialogFits
<1>. HIDE DEF d
<1>3. EventsFit' /\ Grows(events, events') /\ Len(events') = Len(events) /\ PagesFit'
    BY <1>1, <1>2, DialogKeeps
<1>. QED
    BY <1>1, <1>3, InvAgain

(* What is typed or chosen in a dialog: one field of it.                   *)
LEMMA DialogWith ==
    ASSUME NEW evs, NEW d, DialogFits(d, evs), NEW w, NEW x,
           \/ w = [d EXCEPT !.name = x] \/ w = [d EXCEPT !.busy = x]
           \/ w = [d EXCEPT !.mapping = x]
           \/ w = [d EXCEPT !.target = x] /\ x \in DOMAIN evs
    PROVE  DialogFits(w, evs)
<1>1. w \in [action : {d.action}, nr : {d.nr}, source : {d.source},
             target : {d.target} \union DOMAIN evs,
             name : {d.name, x}, busy : {d.busy, x}, mapping : {d.mapping, x}]
    BY DEF DialogFits
<1>. QED
    BY <1>1 DEF DialogFits

LEMMA FillKeeps ==
    ASSUME AssortmentInv, NEW a \in Admins,
           \/ \E n \in Names : TypeName(a, n)
           \/ \E e \in DOMAIN events : ChooseTarget(a, e)
           \/ \E from, to : MapStation(a, from, to)
           \/ CloseDialog(a)
    PROVE  AssortmentInv' /\ Len(events') = Len(events)
<1>. DEFINE d == dialog[a]
<1>1. UNCHANGED <<events, exported, running, selected, form>>
    BY DEF TypeName, ChooseTarget, MapStation, CloseDialog, tables
<1>2. \/ DialogBecomes(a, NoDialog)
      \/ /\ d.action \in {"duplicate", "copy"}
         /\ \E w, x : /\ DialogBecomes(a, w)
                      /\ \/ w = [d EXCEPT !.name = x] \/ w = [d EXCEPT !.mapping = x]
                         \/ w = [d EXCEPT !.target = x] /\ x \in DOMAIN events
    <2>1. ASSUME NEW n \in Names, TypeName(a, n)
          PROVE  d.action = "duplicate" /\ DialogBecomes(a, [d EXCEPT !.name = n])
        BY <2>1 DEF TypeName
    <2>2. ASSUME NEW e \in DOMAIN events, ChooseTarget(a, e)
          PROVE  d.action = "copy" /\ DialogBecomes(a, [d EXCEPT !.target = e])
        BY <2>2 DEF ChooseTarget
    <2>3. ASSUME NEW from, NEW to, MapStation(a, from, to)
          PROVE  /\ d.action = "copy"
                 /\ DialogBecomes(a, [d EXCEPT !.mapping = [d.mapping EXCEPT ![from] = to]])
        BY <2>3 DEF MapStation
    <2>4. CloseDialog(a) => DialogBecomes(a, NoDialog)
        BY DEF CloseDialog
    <2>. HIDE DEF d
    <2>. QED
        BY <2>1, <2>2, <2>3, <2>4
<1>3. d.action \in {"duplicate", "copy"} => DialogFits(d, events)
    BY DEF AssortmentInv, PagesFit, NoDialog
<1>. HIDE DEF d
<1>4. PICK w : DialogBecomes(a, w) /\ (w = NoDialog \/ DialogFits(w, events))
    BY <1>2, <1>3, DialogWith
<1>5. EventsFit' /\ Grows(events, events') /\ Len(events') = Len(events) /\ PagesFit'
    BY <1>1, <1>4, DialogKeeps
<1>. QED
    BY <1>1, <1>5, InvAgain

(* A request sees the events of the moment it arrives.                     *)
LEMMA RequestIs ==
    ASSUME NEW a, NEW action, NEW key, NEW payload, NEW r, r = Request(a, action, key, payload)
    PROVE  /\ r = [nr |-> r.nr, admin |-> r.admin, action |-> r.action, key |-> r.key,
                   payload |-> r.payload, sees |-> r.sees, knows |-> r.knows, result |-> r.result]
           /\ r.action = action /\ r.payload = payload /\ r.sees = events
<1>1. r = [nr |-> counts.requests + 1, admin |-> a, action |-> action, key |-> key,
           payload |-> payload, sees |-> events, knows |-> done, result |-> "running"]
    BY Zenon DEF Request
<1>. QED
    BY <1>1

LEMMA SubmitKeeps ==
    ASSUME AssortmentInv, NEW a \in Admins, Submit(a)
    PROVE  AssortmentInv' /\ Len(events') = Len(events)
<1>. DEFINE d == dialog[a]
            payload == [dialog |-> d.nr, source |-> d.source, target |-> d.target,
                        name |-> d.name, mapping |-> d.mapping, file |-> NoFile]
            r == Request(a, d.action, KeyOf(a), payload)
            w == [d EXCEPT !.busy = TRUE]
<1>1. /\ UNCHANGED <<events, exported, selected, form>>
      /\ d # NoDialog /\ (d.action = "copy" => d.target # None)
      /\ DialogBecomes(a, w)
    BY DEF Submit, tables
<1>2. running' = running \union {r}
    BY DEF Submit, Arrives
<1>3. DialogFits(d, events)
    BY <1>1 DEF AssortmentInv, PagesFit
<1>4. r = Request(a, d.action, KeyOf(a), payload)
    OBVIOUS
<1>5. payload.source = d.source /\ payload.target = d.target
    OBVIOUS
<1>6. w = [d EXCEPT !.busy = TRUE]
    OBVIOUS
<1>. HIDE DEF r, payload, d, w
<1>7. DialogFits(w, events)
    BY <1>3, <1>6, DialogWith
<1>8. EventsFit' /\ Grows(events, events') /\ Len(events') = Len(events) /\ PagesFit'
    BY <1>1, <1>7, DialogKeeps
<1>9. RequestFits(r, events)
    <2>1. /\ r = [nr |-> r.nr, admin |-> r.admin, action |-> r.action, key |-> r.key,
                  payload |-> r.payload, sees |-> r.sees, knows |-> r.knows, result |-> r.result]
          /\ r.action = d.action /\ r.payload = payload /\ r.sees = events
        BY <1>4, RequestIs
    <2>2. Earlier(r.sees, events)
        BY <2>1, GrowsItself DEF AssortmentInv
    <2>3. \/ r.action = "duplicate" /\ r.payload.source \in DOMAIN r.sees
          \/ r.action = "copy" /\ {r.payload.source, r.payload.target} \subseteq DOMAIN r.sees
        BY <1>1, <1>3, <1>5, <2>1 DEF DialogFits
    <2>. QED
        BY <2>1, <2>2, <2>3 DEF RequestFits
<1>10. RequestsFit'
    BY <1>1, <1>2, <1>8, <1>9, RequestsStay
<1>. QED
    BY <1>8, <1>10 DEF AssortmentInv

LEMMA ImportFileKeeps ==
    ASSUME AssortmentInv, NEW a \in Admins, NEW file \in Files \union exported, ImportFile(a, file)
    PROVE  AssortmentInv' /\ Len(events') = Len(events)
<1>. DEFINE key == IF importKey[a] # 0 THEN importKey[a] ELSE MaxDialogs + counts.requests + 1
            payload == [dialog |-> key, source |-> None, target |-> None, name |-> file.name,
                        mapping |-> << >>, file |-> file]
            r == Request(a, "import", key, payload)
<1>1. /\ UNCHANGED <<events, exported, selected, form, dialog>>
      /\ running' = running \union {r}
    BY DEF ImportFile, Arrives, tables
<1>2. EventsFit' /\ Grows(events, events') /\ Len(events') = Len(events)
    BY <1>1, EventsStay
<1>3. PagesFit'
    BY <1>1, <1>2, PagesUnchanged
<1>4. NumbersCategories(file)
    BY InitialAssumption DEF AssortmentInv, RequestsFit
<1>5. payload.file = file /\ r = Request(a, "import", key, payload)
    OBVIOUS
<1>. HIDE DEF key, payload, r
<1>6. RequestFits(r, events)
    <2>1. /\ r = [nr |-> r.nr, admin |-> r.admin, action |-> r.action, key |-> r.key,
                  payload |-> r.payload, sees |-> r.sees, knows |-> r.knows, result |-> r.result]
          /\ r.action = "import" /\ r.payload = payload /\ r.sees = events
        BY <1>5, RequestIs
    <2>2. Earlier(r.sees, events)
        BY <2>1, GrowsItself DEF AssortmentInv
    <2>. QED
        BY <1>4, <1>5, <2>1, <2>2 DEF RequestFits
<1>7. RequestsFit'
    BY <1>1, <1>2, <1>6, RequestsStay
<1>. QED
    BY <1>2, <1>3, <1>7 DEF AssortmentInv

LEMMA DownloadKeeps ==
    ASSUME AssortmentInv, NEW a \in Admins, Download(a)
    PROVE  AssortmentInv' /\ Len(events') = Len(events)
<1>. DEFINE e == selected[a]
            C == events[e].categories
            f == [c \in C |-> [nr |-> c.nr, name |-> c.name, station |-> NrOf(c.station)]]
<1>1. /\ UNCHANGED <<events, selected, form, dialog>>
      /\ exported' = exported \union {Exported(e)} /\ running' = running
    BY DEF Download, pages
<1>2. EventsFit' /\ Grows(events, events') /\ Len(events') = Len(events)
    BY <1>1, EventsStay
<1>3. PagesFit'
    BY <1>1, <1>2, PagesUnchanged
<1>4. IsFiniteSet(C) /\ NumberedRows(C)
    <2>1. e \in DOMAIN events
        BY DEF AssortmentInv, PagesFit
    <2>2. RowsFit(events[e].stations, C, events[e].products, e)
        BY <2>1, ConsistentIs DEF AssortmentInv, EventsFit
    <2>. QED
        BY <2>2 DEF RowsFit
<1>5. Exported(e).categories = {f[c] : c \in C}
    BY DEF Exported
<1>6. DOMAIN f = C /\ \A c \in C : f[c].nr = c.nr
    OBVIOUS
<1>. HIDE DEF f, C
<1>7. NumbersCategories(Exported(e))
    <2>1. IsFiniteSet({f[c] : c \in C})
        BY <1>4, <1>6, ImageIsFinite
    <2>. QED
        BY <1>4, <1>5, <1>6, <2>1 DEF NumbersCategories, NumberedRows
<1>8. RequestsFit'
    BY <1>1, <1>2, <1>7, RequestsStay
<1>. QED
    BY <1>2, <1>3, <1>8 DEF AssortmentInv

LEMMA AnsweredKeeps ==
    ASSUME AssortmentInv, NEW a \in Admins, NEW r, NEW arrives \in BOOLEAN, Answered(a, r, arrives)
    PROVE  AssortmentInv' /\ Len(events') = Len(events)
<1>. DEFINE d == dialog[a]
            w == [d EXCEPT !.busy = FALSE]
<1>1. UNCHANGED <<events, exported, selected, form>> /\ running' \subseteq running
    BY DEF Answered, tables
<1>2. \/ UNCHANGED dialog
      \/ DialogBecomes(a, NoDialog)
      \/ d # NoDialog /\ DialogBecomes(a, w)
    BY DEF Answered
<1>3. EventsFit' /\ Grows(events, events') /\ Len(events') = Len(events)
    BY <1>1, EventsStay
<1>4. PagesFit'
    <2>1. CASE UNCHANGED dialog
        BY <1>1, <1>3, <2>1, PagesUnchanged
    <2>2. CASE DialogBecomes(a, NoDialog)
        BY <1>1, <2>2, DialogKeeps
    <2>3. CASE d # NoDialog /\ DialogBecomes(a, w)
        <3>1. DialogFits(d, events)
            BY <2>3 DEF AssortmentInv, PagesFit
        <3>. HIDE DEF d
        <3>2. w = [d EXCEPT !.busy = FALSE]
            OBVIOUS
        <3>. HIDE DEF w
        <3>3. DialogFits(w, events)
            BY <3>1, <3>2, DialogWith
        <3>. QED
            BY <1>1, <2>3, <3>3, DialogKeeps
    <2>. QED
        BY <1>2, <2>1, <2>2, <2>3
<1>5. RequestsFit'
    BY <1>1, <1>3, RequestsStay
<1>. QED
    BY <1>3, <1>4, <1>5 DEF AssortmentInv

LEMMA RequestEnds ==
    ASSUME NEW evs, NEW r, RequestFits(r, evs), NEW result, NEW q, q = [r EXCEPT !.result = result]
    PROVE  RequestFits(q, evs)
<1>1. q \in [nr : {r.nr}, admin : {r.admin}, action : {r.action}, key : {r.key},
             payload : {r.payload}, sees : {r.sees}, knows : {r.knows}, result : {result}]
    BY DEF RequestFits
<1>2. /\ q = [nr |-> q.nr, admin |-> q.admin, action |-> q.action, key |-> q.key,
              payload |-> q.payload, sees |-> q.sees, knows |-> q.knows, result |-> q.result]
      /\ q.action = r.action /\ q.payload = r.payload /\ q.sees = r.sees
    BY <1>1
<1>. QED
    BY <1>2 DEF RequestFits

LEMMA EndsKeeps ==
    ASSUME AssortmentInv, EventsFit', Grows(events, events'), NEW r \in running, NEW result,
           Ends(r, result), UNCHANGED <<exported, pages>>
    PROVE  AssortmentInv'
<1>. DEFINE q == [r EXCEPT !.result = result]
<1>1. running' = (running \ {r}) \union {q}
    BY DEF Ends
<1>2. q = [r EXCEPT !.result = result] /\ RequestFits(r, events)
    BY DEF AssortmentInv, RequestsFit
<1>. HIDE DEF q
<1>3. RequestFits(q, events)
    BY <1>2, RequestEnds
<1>4. RequestFits(q, events')
    BY <1>3, StillFits DEF AssortmentInv, EventsFit
<1>5. RequestsFit'
    BY <1>1, <1>4, RequestsStay
<1>6. PagesFit'
    BY PagesUnchanged DEF pages
<1>. QED
    BY <1>5, <1>6 DEF AssortmentInv

LEMMA AnswersKeep ==
    ASSUME AssortmentInv, NEW r \in running, Replays(r) \/ Fails(r)
    PROVE  AssortmentInv' /\ Len(events') = Len(events)
<1>1. UNCHANGED <<events, exported, pages>> /\ \E result : Ends(r, result)
    BY Zenon DEF Replays, Fails, tables
<1>2. EventsFit' /\ Grows(events, events') /\ Len(events') = Len(events)
    BY <1>1, EventsStay
<1>. QED
    BY <1>1, <1>2, EndsKeeps

(* What a request that commits writes: only duplicate and import add an    *)
(* event, at the end.                                                      *)
LEMMA CommitsKeep ==
    ASSUME AssortmentInv, NEW r \in running, Commits(r)
    PROVE  /\ AssortmentInv'
           /\ r.action = "copy" => Len(events') = Len(events)
           /\ r.action = "duplicate" => events'[Len(events')] = Duplicated(r)
<1>1. UNCHANGED <<exported, pages>> /\ Ends(r, "made") /\ Checked(r)
    BY DEF Commits
<1>2. RequestFits(r, events) /\ EventsFit
    BY DEF AssortmentInv, RequestsFit
<1>3. Earlier(r.sees, events) /\ DOMAIN r.sees \subseteq DOMAIN events
    <2>1. IsSequence(r.sees) /\ IsSequence(events) /\ Grows(r.sees, events) 
        BY <1>2 DEF RequestFits, Earlier, EventsFit
    <2>. QED
        BY <1>2, <2>1, StillFits DEF RequestFits
<1>4. CASE r.action = "copy"
    <2>. DEFINE i == r.payload.target
    <2>1. {r.payload.source, i} \subseteq DOMAIN r.sees
        BY <1>2, <1>4 DEF RequestFits
    <2>2. CompleteMapping(r)
        BY <1>1, <1>4 DEF Checked
    <2>3. i \in DOMAIN events /\ Consistent(events[i], i)
        BY <1>2, <1>3, <2>1 DEF EventsFit
    <2>4. Consistent(Copied(r), i) /\ Copied(r).stations = events[i].stations
        BY <1>3, <2>1, <2>2, <2>3, CopiedFits
    <2>5. events' = [events EXCEPT ![i] = Copied(r)]
        BY <1>4 DEF Commits
    <2>6. EventsFit' /\ Grows(events, events') /\ Len(events') = Len(events)
        BY <1>2, <2>3, <2>4, <2>5, EventChanges
    <2>. QED
        BY <1>1, <1>4, <2>6, EndsKeeps
<1>5. CASE r.action = "duplicate"
    <2>1. r.payload.source \in DOMAIN r.sees
        BY <1>2, <1>5 DEF RequestFits
    <2>2. Consistent(Duplicated(r), Len(events) + 1)
        BY <1>3, <2>1, DuplicatedFits
    <2>3. events' = Append(events, Duplicated(r))
        BY <1>5 DEF Commits
    <2>4. EventsFit' /\ Grows(events, events') /\ events'[Len(events')] = Duplicated(r)
        BY <1>2, <2>2, <2>3, EventAdded
    <2>. QED
        BY <1>1, <1>5, <2>4, EndsKeeps
<1>6. CASE r.action = "import"
    <2>1. NumbersCategories(r.payload.file)
        BY <1>2, <1>6 DEF RequestFits
    <2>2. FileParses(r.payload.file)
        BY <1>1, <1>6 DEF Checked
    <2>3. Consistent(Imported(r), Len(events) + 1)
        BY <2>1, <2>2, ImportedFits
    <2>4. events' = Append(events, Imported(r))
        BY <1>6 DEF Commits
    <2>5. EventsFit' /\ Grows(events, events')
        BY <1>2, <2>3, <2>4, EventAdded
    <2>. QED
        BY <1>1, <1>6, <2>5, EndsKeeps
<1>. QED
    BY <1>2, <1>4, <1>5, <1>6 DEF RequestFits

LEMMA AssortmentInitial ==
    ASSUME AssortmentInit
    PROVE  AssortmentInv
<1>1. EventsFit
    <2>1. IsSequence(events) /\ events # << >>
        BY InitialAssumption DEF AssortmentInit, IsSequence
    <2>2. Len(events) >= 1
        <3>1. events \in Seq({events[i] : i \in DOMAIN events})
            BY <2>1 DEF IsSequence
        <3>. HIDE DEF IsSequence
        <3>. QED
            BY <2>1, <3>1, EmptySeq, SequenceDomain
    <2>. QED
        BY <2>1, <2>2, InitialAssumption DEF AssortmentInit, EventsFit
<1>2. 1 \in DOMAIN events
    BY <1>1, SequenceDomain DEF EventsFit
<1>3. PagesFit
    BY <1>2 DEF AssortmentInit, PagesFit
<1>4. RequestsFit
    BY DEF AssortmentInit, RequestsFit
<1>. QED
    BY <1>1, <1>3, <1>4 DEF AssortmentInv

LEMMA EditsKeep ==
    ASSUME AssortmentInv, NEW a \in Admins, Edits(a)
    PROVE  AssortmentInv' /\ Len(events') = Len(events)
<1>1. ASSUME NEW e \in DOMAIN events, SelectEvent(a, e)
      PROVE  AssortmentInv' /\ Len(events') = Len(events)
    BY <1>1, SelectEventKeeps
<1>2. ASSUME NEW c \in Listed(selected[a], "category"), OpenCategory(a, c)
      PROVE  AssortmentInv' /\ Len(events') = Len(events)
    BY <1>2, OpenModalKeeps DEF OpenCategory
<1>3. ASSUME NEW p \in Listed(selected[a], "product"), OpenProduct(a, p)
      PROVE  AssortmentInv' /\ Len(events') = Len(events)
    BY <1>3, OpenModalKeeps DEF OpenProduct
<1>4. ASSUME NEW p \in events[selected[a]].products, ToggleAvailability(a, p)
      PROVE  AssortmentInv' /\ Len(events') = Len(events)
    BY <1>4, ToggleKeeps
<1>5. CASE /\ form[a] # NoForm
           /\ \/ \E s \in form[a].stations \union {Nowhere} : SetTargetStation(a, s)
              \/ SetDeposit(a, 1)
              \/ \E flag \in BOOLEAN : SetActive(a, flag)
    BY <1>5, SetFieldsKeep
<1>6. CASE CloseModal(a) \/ SaveModal(a) \/ CreateStation(a)
    BY <1>6, CloseModalKeeps, SaveModalKeeps, CreateStationKeeps
<1>. QED
    BY <1>1, <1>2, <1>3, <1>4, <1>5, <1>6 DEF Edits

LEMMA TakesKeep ==
    ASSUME AssortmentInv, NEW a \in Admins, Takes(a)
    PROVE  AssortmentInv' /\ Len(events') = Len(events)
<1>1. ASSUME NEW action \in {"duplicate", "copy"}, OpenDialog(a, action)
      PROVE  AssortmentInv' /\ Len(events') = Len(events)
    BY <1>1, OpenDialogKeeps
<1>2. CASE \/ \E n \in Names : TypeName(a, n)
           \/ \E e \in DOMAIN events : ChooseTarget(a, e)
           \/ \E from, to : MapStation(a, from, to)
           \/ CloseDialog(a)
    BY <1>2, FillKeeps
<1>3. CASE Submit(a) \/ Download(a)
    BY <1>3, SubmitKeeps, DownloadKeeps
<1>4. ASSUME NEW file \in Files \union exported, ImportFile(a, file)
      PROVE  AssortmentInv' /\ Len(events') = Len(events)
    BY <1>4, ImportFileKeeps
<1>5. ASSUME NEW r \in running, NEW arrives \in BOOLEAN, Answered(a, r, arrives)
      PROVE  AssortmentInv' /\ Len(events') = Len(events)
    BY <1>5, AnsweredKeeps
<1>. QED
    BY <1>1, <1>2, <1>3, <1>4, <1>5 DEF Takes

LEMMA AssortmentStep ==
    ASSUME AssortmentInv, [AssortmentNext]_assortmentVars
    PROVE  /\ AssortmentInv'
           /\ \/ Len(events') = Len(events)
              \/ \E r \in running : Commits(r) /\ r.action # "copy"
<1>1. ASSUME NEW a \in Admins, Edits(a) \/ Takes(a)
      PROVE  AssortmentInv' /\ Len(events') = Len(events)
    BY <1>1, EditsKeep, TakesKeep
<1>2. ASSUME NEW r \in running, Replays(r) \/ Fails(r)
      PROVE  AssortmentInv' /\ Len(events') = Len(events)
    BY <1>2, AnswersKeep
<1>3. ASSUME NEW r \in running, Commits(r)
      PROVE  AssortmentInv' /\ (r.action = "copy" => Len(events') = Len(events))
    BY <1>3, CommitsKeep
<1>4. ASSUME UNCHANGED assortmentVars
      PROVE  AssortmentInv' /\ Len(events') = Len(events)
    <2>1. UNCHANGED <<events, exported, running, selected, form, dialog>>
        BY <1>4 DEF assortmentVars, tables, pages
    <2>2. EventsFit' /\ Grows(events, events') /\ Len(events') = Len(events)
        BY <2>1, EventsStay
    <2>3. PagesFit'
        BY <2>1, <2>2, PagesUnchanged
    <2>. QED
        BY <2>1, <2>2, <2>3, InvAgain
<1>. QED
    BY <1>1, <1>2, <1>3, <1>4 DEF AssortmentNext

(* Rows of an event refer to rows of that event, whatever forms, dialogs   *)
(* and requests are under way; a request sees events that were there.      *)
THEOREM AssortmentInductive == AssortmentSpec => []AssortmentInv
<1>1. AssortmentInit => AssortmentInv
    BY AssortmentInitial
<1>2. AssortmentInv /\ [AssortmentNext]_assortmentVars => AssortmentInv'
    BY AssortmentStep
<1>. QED
    BY <1>1, <1>2, PTL DEF AssortmentSpec

(* No form, copy or import leaves a row with a station of another event.   *)
THEOREM RoutedInside == AssortmentSpec => []RoutedInOwnEvent
<1>1. ASSUME AssortmentInv PROVE RoutedInOwnEvent
    <2>. SUFFICES ASSUME NEW i \in DOMAIN events,
                         NEW x \in events[i].categories \union events[i].products
                  PROVE  x.station \in StationsOf(i) \union {Nowhere}
        BY DEF RoutedInOwnEvent
    <2>1. Consistent(events[i], i)
        BY <1>1 DEF AssortmentInv, EventsFit
    <2>. QED
        BY <2>1 DEF Consistent, Sites, StationsOf
<1>. QED
    BY <1>1, AssortmentInductive, PTL

(* What the checks of an import let through, the database accepts.         *)
THEOREM ImportsAccepted == AssortmentSpec => []ImportedGroupsAccepted
<1>1. ASSUME AssortmentInv PROVE ImportedGroupsAccepted
    <2>. SUFFICES ASSUME NEW i \in DOMAIN events, NEW p \in events[i].products
                  PROVE  DatabaseAccepts(p.groups)
        BY DEF ImportedGroupsAccepted
    <2>1. Consistent(events[i], i)
        BY <1>1 DEF AssortmentInv, EventsFit
    <2>. QED
        BY <2>1 DEF Consistent
<1>. QED
    BY <1>1, AssortmentInductive, PTL

(* The copy of a product goes where the product goes: to the station of    *)
(* its own, or to that of its category, which only one category is.        *)
LEMMA CopiedRoute ==
    ASSUME NEW r, Earlier(r.sees, events), r.payload.source \in DOMAIN r.sees, EventsFit
    PROVE  Routes(Duplicated(r)) = Routes(r.sees[r.payload.source])
<1>. DEFINE source == r.sees[r.payload.source]
            copy == Duplicated(r)
            new == Len(events) + 1
            to(s) == IF s = Nowhere THEN Nowhere ELSE <<new, s[2]>>
            C == {MovedCategory(c, to(c.station)) : c \in source.categories}
            P == {MovedProduct(p, to(p.station), p.category) : p \in source.products}
            base == Draft(r.payload.name)
<1>1. RowsFit(source.stations, source.categories, source.products, r.payload.source)
    BY ConsistentIs DEF Earlier
<1>2. copy.categories = C /\ copy.products = P
    <2>1. copy = [base EXCEPT !.stations = source.stations, !.categories = C, !.products = P]
        BY DEF Duplicated
    <2>2. IsEvent(base)
        BY DraftIsEvent
    <2>. HIDE DEF C, P, base, source, copy
    <2>3. copy \in [name : {base.name}, status : {base.status}, confirmed : {base.confirmed},
                    stations : {source.stations}, categories : {C}, products : {P}]
        BY <2>1, <2>2 DEF IsEvent
    <2>. QED
        BY <2>3
<1>3. \A s : (to(s) = Nowhere <=> s = Nowhere) /\ NrOf(to(s)) = NrOf(s)
    <2>1. new # 0
        BY SequenceDomain DEF EventsFit
    <2>. HIDE DEF new
    <2>. TAKE s
    <2>2. CASE s = Nowhere
        BY <2>2
    <2>3. CASE s # Nowhere
        BY <2>1, <2>3 DEF Nowhere, NrOf
    <2>. QED
        BY <2>2, <2>3
<1>. HIDE DEF source, new, to, copy
<1>4. \A c \in source.categories :
         LET m == MovedCategory(c, to(c.station))
         IN  m.nr = c.nr /\ m.station = to(c.station)
    BY DEF MovedCategory, Category
<1>5. ASSUME NEW p \in source.products,
             NEW m, m = MovedProduct(p, to(p.station), p.category)
      PROVE  m.name = p.name /\ NrOf(Route(copy, m)) = NrOf(Route(source, p))
    <2>1. m.name = p.name /\ m.station = to(p.station) /\ m.category = p.category
        BY <1>5 DEF MovedProduct, Product
    <2>2. CASE p.station # Nowhere
        BY <1>3, <2>1, <2>2 DEF Route
    <2>3. CASE p.station = Nowhere
        <3>1. PICK c \in source.categories : c.nr = p.category
            BY <1>1 DEF RowsFit, Refs
        <3>2. \A d \in source.categories : d.nr = p.category => d = c
            BY <1>1, <3>1 DEF RowsFit, Unique
        <3>3. (CHOOSE d \in source.categories : d.nr = p.category) = c
            BY <3>1, <3>2
        <3>. DEFINE k == MovedCategory(c, to(c.station))
        <3>4. k \in C /\ k.nr = p.category /\ k.station = to(c.station)
            BY <1>4, <3>1
        <3>5. \A x \in C : x.nr = p.category => x = k
            BY <1>4, <3>2
        <3>. HIDE DEF k, C
        <3>6. (CHOOSE x \in C : x.nr = p.category) = k
            BY <3>4, <3>5
        <3>7. Route(source, p) = c.station
            BY <2>3, <3>3 DEF Route
        <3>8. Route(copy, m) = k.station
            BY <1>2, <1>3, <2>1, <2>3, <3>6 DEF Route
        <3>. QED
            BY <1>3, <2>1, <3>4, <3>7, <3>8
    <2>. QED
        BY <2>1, <2>2, <2>3
<1>6. \A m \in P : \E p \in source.products : m = MovedProduct(p, to(p.station), p.category)
    OBVIOUS
<1>7. \A p \in source.products : MovedProduct(p, to(p.station), p.category) \in P
    OBVIOUS
<1>. HIDE DEF P
<1>8. Routes(copy) \subseteq Routes(source)
    <2>. SUFFICES ASSUME NEW m \in P
                  PROVE  <<m.name, NrOf(Route(copy, m))>> \in Routes(source)
        BY <1>2 DEF Routes
    <2>. QED
        BY <1>5, <1>6 DEF Routes
<1>9. Routes(source) \subseteq Routes(copy)
    <2>. SUFFICES ASSUME NEW p \in source.products
                  PROVE  <<p.name, NrOf(Route(source, p))>> \in Routes(copy)
        BY DEF Routes
    <2>1. PICK m \in P : m = MovedProduct(p, to(p.station), p.category)
        BY <1>7
    <2>2. m.name = p.name /\ NrOf(Route(copy, m)) = NrOf(Route(source, p))
        BY <1>5, <2>1
    <2>. QED
        BY <1>2, <2>2 DEF Routes
<1>. QED
    BY <1>8, <1>9 DEF source, copy

(* A duplicated event sends every product to the copy of its station: the  *)
(* request that leaves is the one whose event is new.                      *)
THEOREM DuplicatesKeepRoutes == AssortmentSpec => RoutesKept
<1>. DEFINE Kept(r) ==
        r.action = "duplicate" /\ Len(events') > Len(events) /\ r \notin running'
          => Routes(events'[Len(events')]) = Routes(r.sees[r.payload.source])
<1>1. AssortmentInv /\ [AssortmentNext]_assortmentVars
        => [\A r \in running : Kept(r)]_assortmentVars
    <2>. SUFFICES ASSUME AssortmentInv, [AssortmentNext]_assortmentVars, NEW r \in running,
                         r.action = "duplicate", Len(events') > Len(events), r \notin running'
                  PROVE  Routes(events'[Len(events')]) = Routes(r.sees[r.payload.source])
        OBVIOUS
    <2>1. Len(events') # Len(events)
        <3>1. Len(events) \in Nat
            BY SequenceDomain DEF AssortmentInv, EventsFit
        <3>. QED
            BY <3>1
    <2>2. PICK q \in running : Commits(q)
        BY <2>1, AssortmentStep
    <2>3. q = r
        BY <2>2 DEF Commits, Ends
    <2>4. events'[Len(events')] = Duplicated(r)
        BY <2>2, <2>3, CommitsKeep
    <2>5. Earlier(r.sees, events) /\ r.payload.source \in DOMAIN r.sees /\ EventsFit
        BY DEF AssortmentInv, RequestsFit, RequestFits
    <2>. QED
        BY <2>4, <2>5, CopiedRoute
<1>. HIDE DEF Kept
<1>. QED
    BY <1>1, AssortmentInductive, PTL DEF AssortmentSpec, RoutesKept, Kept
=============================================================================
