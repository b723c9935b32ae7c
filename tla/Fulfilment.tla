---------------------------- MODULE Fulfilment ------------------------------
(* From the order to the table: kitchen monitors (StationView) set the     *)
(* status of positions, runners (RunnerDashboard) take over what is ready  *)
(* and deliver it, and the tickets tell the kitchen what to make.          *)
(*                                                                         *)
(* Pages work on what they loaded last and their requests may be late, in  *)
(* any order, or lost.  A station's update and a claim lock the order row  *)
(* first and are steps here; deliverOrder reads before it writes and is    *)
(* two.                                                                    *)
EXTENDS Integers, FiniteSets

CONSTANTS
    Orders, Items, OrderOf,             \* OrderOf : the order of a position
    StationOf,                          \* resolveTargetStationId
    StationPrinters, DefaultPrinter,    \* stations with an active printer; is there a default one
    Monitors, MonitorAt,
    Runners, Nobody,
    MaxRequests, MaxAsides                \* under way at once; timeouts, reprints, stars, switches of the event

\* Every position belongs to an order, and nobody is not a runner.
ASSUME OrderAssumption == OrderOf \in [Items -> Orders] /\ Nobody \notin Runners

VARIABLES
    operating,          \* the event is ACTIVE or in TEST_MODE
    status,             \* of positions
    fulfillmentStatus, claimedBy, lifecycleStatus, isPriority,  \* of orders
    tickets, receipts,  \* print jobs
    shown,              \* positions on a monitor with the status it shows
    sent,               \* requests of monitors under way
    page,               \* of a runner: orders to claim, own ones with more to claim, and carried ones
    calls,              \* requests of runners under way, awaited by the page or given up
    loading,            \* runners whose page loads the lists after an answer
    refunded,           \* positions that were cancelled once
    starred,            \* orders that a monitor gave priority
    asides

rows == <<operating, status, fulfillmentStatus, claimedBy, lifecycleStatus, isPriority>>
prints == <<tickets, receipts>>
kitchen == <<shown, sent>>
delivery == <<page, calls, loading>>
history == <<refunded, starred, asides>>
vars == <<rows, prints, kitchen, delivery, history>>

ItemsOf(o) == {i \in Items : OrderOf[i] = o}
Placed(o) == lifecycleStatus[o] # "NONE"
Statuses == {"NONE", "PENDING", "PREPARING", "READY", "IN_DELIVERY", "DELIVERED", "CANCELLED"}
Undelivered == {"PENDING", "PREPARING", "READY"}

Init ==
    /\ operating = TRUE
    /\ status = [i \in Items |-> "NONE"]
    /\ fulfillmentStatus = [o \in Orders |-> "PENDING"]
    /\ claimedBy = [o \in Orders |-> Nobody]
    /\ lifecycleStatus = [o \in Orders |-> "NONE"]
    /\ isPriority = [o \in Orders |-> FALSE]
    /\ tickets = [i \in Items |-> 0]
    /\ receipts = [o \in Orders |-> 0]
    /\ shown = [m \in Monitors |-> {}]
    /\ sent = {}
    /\ page = [r \in Runners |-> [ready |-> {}, more |-> {}, carried |-> {}]]
    /\ calls = {}
    /\ loading = {}
    /\ refunded = {}
    /\ starred = {}
    /\ asides = 0

deriveFulfillmentStatus(of) ==
    LET active == {of[i] : i \in DOMAIN of} \ {"CANCELLED"}
    IN CASE active = {} -> "PENDING"
         [] active = {"DELIVERED"} -> "DELIVERED"
         [] active \cap {"IN_DELIVERY", "DELIVERED"} # {} /\ active # {"DELIVERED"} -> "PARTIALLY_DELIVERED"
         [] active = {"READY"} -> "READY"
         [] "READY" \in active /\ active \subseteq Undelivered /\ active # {"READY"} -> "PARTIALLY_READY"
         [] active \subseteq {"PENDING", "PREPARING"} /\ "PREPARING" \in active -> "PREPARING"
         [] OTHER -> "PENDING"

\* The bounds of the model.
Room == Cardinality(sent) + Cardinality(calls) < MaxRequests
Aside == asides < MaxAsides /\ asides' = asides + 1

StatusOf(o) == [i \in ItemsOf(o) |-> status[i]]

---------------------------------------------------------------------------
(* Orders and what is printed for them.                                    *)

\* The printer of the station, or else the default one.
targetPrinter(i) == StationOf[i] \in StationPrinters \/ DefaultPrinter

stationTickets(o) ==
    tickets' = [i \in Items |->
        IF OrderOf[i] = o /\ targetPrinter(i) THEN tickets[i] + 1 ELSE tickets[i]]

receiptJob(o) ==
    receipts' = IF DefaultPrinter THEN [receipts EXCEPT ![o] = @ + 1] ELSE receipts

dispatchPrintJobs(o, includeStationTickets) ==
    /\ \/ includeStationTickets /\ stationTickets(o)
       \/ ~includeStationTickets /\ UNCHANGED tickets
    /\ receiptJob(o)

CreateOrder(o) ==
    /\ operating
    /\ ~Placed(o)
    /\ lifecycleStatus' = [lifecycleStatus EXCEPT ![o] = "SUBMITTED"]
    /\ status' = [i \in Items |-> IF OrderOf[i] = o THEN "PENDING" ELSE status[i]]
    /\ dispatchPrintJobs(o, TRUE)
    /\ UNCHANGED <<operating, fulfillmentStatus, claimedBy, isPriority, kitchen, delivery, history>>

\* Mutant: a reprint repeats the tickets of the stations too.
reprintOrderInFull(o) ==
    /\ Placed(o)
    /\ Aside
    /\ dispatchPrintJobs(o, TRUE)
    /\ UNCHANGED <<rows, kitchen, delivery, refunded, starred>>

\* A copy of the receipt and of the vouchers, no work for a station.
reprintOrder(o) ==
    /\ Placed(o)
    /\ Aside
    /\ dispatchPrintJobs(o, FALSE)
    /\ UNCHANGED <<rows, kitchen, delivery, refunded, starred>>

cancelOrder(o) ==
    /\ lifecycleStatus[o] = "SUBMITTED"
    /\ lifecycleStatus' = [lifecycleStatus EXCEPT ![o] = "CANCELLED"]
    /\ status' = [i \in Items |-> IF OrderOf[i] = o THEN "CANCELLED" ELSE status[i]]
    /\ refunded' = refunded \cup ItemsOf(o)
    /\ UNCHANGED <<operating, fulfillmentStatus, claimedBy, isPriority, prints, kitchen, delivery,
                   starred, asides>>

cancelOrderItem(i) ==
    LET o == OrderOf[i]
        remaining == {j \in ItemsOf(o) \ {i} : status[j] # "CANCELLED"}
    IN /\ status[i] \notin {"NONE", "CANCELLED"}
       /\ status' = [status EXCEPT ![i] = "CANCELLED"]
       /\ lifecycleStatus' = IF remaining = {} THEN [lifecycleStatus EXCEPT ![o] = "CANCELLED"]
                             ELSE lifecycleStatus
       /\ refunded' = refunded \cup {i}
       /\ UNCHANGED <<operating, fulfillmentStatus, claimedBy, isPriority, prints, kitchen,
                      delivery, starred, asides>>

---------------------------------------------------------------------------
(* The monitor of a station.                                               *)

getPendingItems(m) ==
    {i \in Items : operating /\ StationOf[i] = MonitorAt[m] /\ status[i] \in {"PENDING", "PREPARING"}}

fetchItems(m) ==
    /\ shown' = [shown EXCEPT ![m] = {[item |-> i, status |-> status[i]] : i \in getPendingItems(m)}]
    /\ UNCHANGED <<rows, prints, sent, delivery, history>>

Sends(m, i, to) == sent' = sent \cup {[monitor |-> m, item |-> i, status |-> to]}

startPreparing(m, card) ==
    /\ card \in shown[m]
    /\ card.status = "PENDING"
    /\ Room
    /\ shown' = [shown EXCEPT ![m] = (@ \ {card}) \cup {[card EXCEPT !.status = "PREPARING"]}]
    /\ Sends(m, card.item, "PREPARING")
    /\ UNCHANGED <<rows, prints, delivery, history>>

markAsReady(m, card) ==
    /\ card \in shown[m]
    /\ card.status # "PENDING"
    /\ Room
    /\ shown' = [shown EXCEPT ![m] = @ \ {card}]
    /\ Sends(m, card.item, "READY")
    /\ UNCHANGED <<rows, prints, delivery, history>>

\* The request arrives: no status of the position is refused.
updateItemStatus(request) ==
    LET o == OrderOf[request.item]
    IN /\ request \in sent
       /\ sent' = sent \ {request}
       /\ status' = [status EXCEPT ![request.item] = request.status]
       /\ fulfillmentStatus' = [fulfillmentStatus EXCEPT ![o] =
              deriveFulfillmentStatus([StatusOf(o) EXCEPT ![request.item] = request.status])]
       /\ UNCHANGED <<operating, claimedBy, lifecycleStatus, isPriority, prints, shown, delivery, history>>

\* The request is lost; the page loads again what there is.
updateFails(request) ==
    /\ request \in sent
    /\ sent' = sent \ {request}
    /\ shown' = [shown EXCEPT ![request.monitor] =
                    {[item |-> i, status |-> status[i]] : i \in getPendingItems(request.monitor)}]
    /\ UNCHANGED <<rows, prints, delivery, history>>

\* order.id of a card: getPendingItems selects orderNumber, createdAt and isPriority.
CardOrder(card) == Nobody

\* togglePriority and updatePriority of the order it names.
togglePriority(m, card) ==
    /\ card \in shown[m]
    /\ Aside
    /\ isPriority' = [o \in Orders |-> IF o = CardOrder(card) THEN TRUE ELSE isPriority[o]]
    /\ starred' = starred \cup {OrderOf[card.item]}
    /\ UNCHANGED <<operating, status, fulfillmentStatus, claimedBy, lifecycleStatus, prints, kitchen,
                   delivery, refunded>>

---------------------------------------------------------------------------
(* Runners.                                                                *)

Has(o, wanted) == \E i \in ItemsOf(o) : status[i] \in wanted

listOrders ==
    {o \in Orders : /\ operating
                    /\ lifecycleStatus[o] = "SUBMITTED"
                    /\ claimedBy[o] = Nobody
                    /\ Has(o, {"READY"})}

\* Mutant: of his own orders a runner sees those with something ready.
listMineReady(r) ==
    {o \in Orders : /\ operating
                    /\ lifecycleStatus[o] = "SUBMITTED"
                    /\ claimedBy[o] = r
                    /\ Has(o, {"READY"})}

listMine(r) ==
    {o \in Orders : /\ operating
                    /\ lifecycleStatus[o] = "SUBMITTED"
                    /\ claimedBy[o] = r
                    /\ Has(o, {"READY", "IN_DELIVERY"})}

\* Every five seconds, and at the end of an action.
fetchQueue(r) ==
    /\ page' = [page EXCEPT ![r] =
           [ready |-> listOrders,
            more |-> {o \in listMine(r) : Has(o, {"READY"})},
            carried |-> {o \in listMine(r) : Has(o, {"IN_DELIVERY"})}]]
    /\ loading' = loading \ {r}
    /\ UNCHANGED <<rows, prints, kitchen, calls, history>>

fetchFails(r) ==
    /\ r \in loading
    /\ loading' = loading \ {r}
    /\ UNCHANGED <<rows, prints, kitchen, page, calls, history>>

busyOrderId(r) == r \in loading \/ \E call \in calls : call.runner = r /\ call.awaited

Call(r, o, action) ==
    [runner |-> r, order |-> o, action |-> action, read |-> << >>, awaited |-> TRUE]

\* The orders whose cards have the button.
onClaim(r) == page[r].ready \cup page[r].more
onDeliver(r) == page[r].carried

runAction(r, o, action) ==
    /\ ~busyOrderId(r)
    /\ o \in IF action = "claim" THEN onClaim(r) ELSE onDeliver(r)
    /\ Room
    /\ calls' = calls \cup {Call(r, o, action)}
    /\ UNCHANGED <<rows, prints, kitchen, page, loading, history>>

\* No answer in time: the page goes on, and so does the request.
actionTimesOut(call) ==
    /\ call.awaited
    /\ Aside
    /\ calls' = (calls \ {call}) \cup {[call EXCEPT !.awaited = FALSE]}
    /\ loading' = loading \cup {call.runner}
    /\ UNCHANGED <<rows, prints, kitchen, page, refunded, starred>>

\* Whatever the answer, the page loads the lists again.
Answers(call) ==
    /\ calls' = calls \ {call}
    /\ loading' = IF call.awaited THEN loading \cup {call.runner} ELSE loading

Claimable(r, o) ==
    /\ operating
    /\ claimedBy[o] \in {Nobody, r}
    /\ lifecycleStatus[o] = "SUBMITTED"
    /\ Has(o, {"READY"})

\* Mutant: the update does not ask whether another runner has claimed the order.
claimAnyway(call) ==
    LET o == call.order
    IN /\ call \in calls
       /\ call.action = "claim"
       /\ operating /\ lifecycleStatus[o] = "SUBMITTED" /\ Has(o, {"READY"})
       /\ claimedBy' = [claimedBy EXCEPT ![o] = call.runner]
       /\ fulfillmentStatus' = [fulfillmentStatus EXCEPT ![o] = "PARTIALLY_DELIVERED"]
       /\ status' = [i \in Items |->
              IF OrderOf[i] = o /\ status[i] = "READY" THEN "IN_DELIVERY" ELSE status[i]]
       /\ Answers(call)
       /\ UNCHANGED <<operating, lifecycleStatus, isPriority, prints, kitchen, page, history>>

claimOrder(call) ==
    LET o == call.order
    IN /\ call \in calls
       /\ call.action = "claim"
       /\ Claimable(call.runner, o)
       /\ claimedBy' = [claimedBy EXCEPT ![o] = call.runner]
       /\ fulfillmentStatus' = [fulfillmentStatus EXCEPT ![o] = "PARTIALLY_DELIVERED"]
       /\ status' = [i \in Items |->
              IF OrderOf[i] = o /\ status[i] = "READY" THEN "IN_DELIVERY" ELSE status[i]]
       /\ Answers(call)
       /\ UNCHANGED <<operating, lifecycleStatus, isPriority, prints, kitchen, page, history>>

\* deliverOrder reads the order and refuses what is not the runner's.
deliverReads(call) ==
    LET o == call.order
    IN /\ call \in calls
       /\ call.action = "deliver" /\ call.read = << >>
       /\ operating
       /\ claimedBy[o] = call.runner
       /\ Has(o, {"IN_DELIVERY"})
       /\ calls' = (calls \ {call}) \cup {[call EXCEPT !.read = StatusOf(o)]}
       /\ UNCHANGED <<rows, prints, kitchen, page, loading, history>>

\* It moves what is in delivery by now, and derives the status from what it has read.
deliverWrites(call) ==
    LET o == call.order
        projected == [i \in DOMAIN call.read |->
                         IF call.read[i] = "IN_DELIVERY" THEN "DELIVERED" ELSE call.read[i]]
    IN /\ call \in calls
       /\ call.read # << >>
       /\ Has(o, {"IN_DELIVERY"})
       /\ status' = [i \in Items |->
              IF OrderOf[i] = o /\ status[i] = "IN_DELIVERY" THEN "DELIVERED" ELSE status[i]]
       /\ fulfillmentStatus' = [fulfillmentStatus EXCEPT ![o] = deriveFulfillmentStatus(projected)]
       /\ Answers(call)
       /\ UNCHANGED <<operating, claimedBy, lifecycleStatus, isPriority, prints, kitchen, page, history>>

\* Nothing to claim or to deliver any more, or the connection is gone.
actionFails(call) ==
    /\ call \in calls
    /\ Answers(call)
    /\ UNCHANGED <<rows, prints, kitchen, page, history>>

\* The event is completed, or activated again.
SwitchEvent ==
    /\ Aside
    /\ operating' = ~operating
    /\ UNCHANGED <<status, fulfillmentStatus, claimedBy, lifecycleStatus, isPriority, prints, kitchen,
                   delivery, refunded, starred>>

Next ==
    \/ \E o \in Orders : CreateOrder(o) \/ reprintOrder(o) \/ cancelOrder(o)
    \/ \E i \in Items : cancelOrderItem(i)
    \/ \E m \in Monitors : fetchItems(m)
    \/ \E m \in Monitors : \E card \in shown[m] :
           startPreparing(m, card) \/ markAsReady(m, card) \/ togglePriority(m, card)
    \/ \E request \in sent : updateItemStatus(request) \/ updateFails(request)
    \/ \E r \in Runners : fetchQueue(r) \/ fetchFails(r)
    \/ \E r \in Runners, o \in Orders, action \in {"claim", "deliver"} : runAction(r, o, action)
    \/ \E call \in calls :
           \/ claimOrder(call) \/ deliverReads(call) \/ deliverWrites(call)
           \/ actionFails(call) \/ actionTimesOut(call)
    \/ SwitchEvent

Spec == Init /\ [][Next]_vars

---------------------------------------------------------------------------

Cards == [item : Items, status : {"PENDING", "PREPARING"}]
Readings == {<< >>} \cup UNION {[S -> Statuses] : S \in SUBSET Items}
Calls == [runner : Runners, order : Orders, action : {"claim", "deliver"}, read : Readings,
          awaited : BOOLEAN]

\* Every variable has its type.
TypeOK ==
    /\ operating \in BOOLEAN
    /\ status \in [Items -> Statuses]
    /\ fulfillmentStatus \in [Orders -> {"PENDING", "PREPARING", "PARTIALLY_READY", "READY",
                                         "PARTIALLY_DELIVERED", "DELIVERED"}]
    /\ claimedBy \in [Orders -> Runners \cup {Nobody}]
    /\ lifecycleStatus \in [Orders -> {"NONE", "SUBMITTED", "CANCELLED"}]
    /\ isPriority \in [Orders -> BOOLEAN]
    /\ tickets \in [Items -> Nat] /\ receipts \in [Orders -> Nat]
    /\ shown \in [Monitors -> SUBSET Cards]
    /\ sent \subseteq [monitor : Monitors, item : Items, status : {"PREPARING", "READY"}]
    /\ page \in [Runners -> [ready : SUBSET Orders, more : SUBSET Orders, carried : SUBSET Orders]]
    /\ calls \subseteq Calls
    /\ loading \subseteq Runners
    /\ refunded \subseteq Items /\ starred \subseteq Orders

\* Two runners who take the same order over at once do not both get it, and nobody gets one
\* that another has: a claim stays with its runner (claimOrder).
ClaimKept ==
    [][\A o \in Orders : claimedBy[o] # Nobody => claimedBy'[o] = claimedBy[o]]_vars

\* A runner only delivers what is his.  deliverOrder looks at the claim when it reads the
\* order and not again when it writes, and a page may be as old as it likes: of two runners who
\* took the order over at once the one who came too late never gets that far.
OnlyTheClaimerDelivers ==
    /\ \A call \in calls : call.read # << >> => claimedBy[call.order] = call.runner
    /\ \A r \in Runners : \A o \in page[r].more \cup page[r].carried : claimedBy[o] = r

\* What is on its way is on the list of exactly one runner, who alone can end it.
CarriedByOne ==
    \A i \in Items :
        /\ operating
        /\ status[i] = "IN_DELIVERY"
        /\ lifecycleStatus[OrderOf[i]] = "SUBMITTED"
        => Cardinality({r \in Runners : OrderOf[i] \in listMine(r)}) = 1

\* The kitchen is told once to make a position, whatever is printed again later
\* (dispatchPrintJobs, reprintOrder).
OneTicketPerPosition ==
    \A i \in Items : status[i] # "NONE" /\ targetPrinter(i) => tickets[i] = 1

\* "Ungueltige Statuswechsel muessen vom Backend verhindert werden": what is on its way or
\* delivered does not go back to the kitchen.
NoWayBack ==
    [][\A i \in Items :
           status[i] \in {"IN_DELIVERY", "DELIVERED"} => status'[i] \notin Undelivered]_vars

\* A position that was cancelled, with its money and its stock given back, is not delivered.
CancelledNotDelivered == \A i \in refunded : status[i] \notin {"IN_DELIVERY", "DELIVERED"}

\* The status of an order is the one derived from its positions.
FulfilmentMatchesItems ==
    \A o \in Orders : lifecycleStatus[o] = "SUBMITTED" =>
        fulfillmentStatus[o] = deriveFulfillmentStatus(StatusOf(o))

\* The star of a monitor gives its order priority.
StarredIsPrioritised == \A o \in starred : isPriority[o]
=============================================================================
