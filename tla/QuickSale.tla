----------------------------- MODULE QuickSale -----------------------------
(* The two tills that sell by tiles, the voucher till (QuickSaleDashboard) *)
(* and the station till (StationSaleDashboard), against createQuickSale,   *)
(* while an administrator changes the groups of the product they sell.     *)
(* A request may get lost or be served after its sender gave up, and its   *)
(* answer may get lost; the cashier then tries again.                      *)
(*                                                                         *)
(* The stock and the mode of the event are Inventory's and EventMode's:    *)
(* here they are in order.                                                 *)
EXTENDS OptionGroups

CONSTANTS
    Tills, StationTills,    \* the station tills take cash only
    Deposit,                \* of the product, and of a glass given back
    MAX_QUANTITY,           \* 100 in the source
    QuickQuantities,        \* how many a tap on a tile adds: 1, 5, 10
    MAX_PICKUP_NUMBER,
    Overpaid,               \* what a customer hands over beyond the total
    MaxRequests, MaxRefund, \* bounds on requests and on glasses given back,
    MaxCustomers,           \* and on customers sent away
    Stations, ProductStation, NoStation,    \* ProductStation : where the product is handed out
    MaxChanges              \* bound on the changes of the site and of the form together

VARIABLES
    site,       \* cashier sessions, active printer and active stations
    disturbed,
    context,    \* what a till has loaded of the site and of the groups
    station,    \* the station a till sells for
    result,     \* the order a till shows as booked
    cart,       \* its lines: tiles with a quantity
    glasses,    \* deposits to pay back
    key,        \* number of its current idempotency key
    customer,   \* history: number of the customer it serves
    waiting,    \* the request a till waits for, or NoRequest
    net,        \* requests on their way, and answers on their way back
    requests,   \* number of requests sent
    orders,     \* the server's orders
    pickups     \* EventPickupCounter

tillVars == <<context, station, result, cart, glasses, key, customer, waiting>>
serverVars == <<orders, pickups, site, disturbed>>
vars == <<groupVars, tillVars, serverVars, net, requests>>

NoRequest == 0
NoResult == << >>

Quantity(lines) == MapThenSumSet(LAMBDA l : l.quantity, lines)
Items(lines) == {[answers |-> l.answers, quantity |-> l.quantity] : l \in lines}

(* What a till shows as the total.                                         *)
ItemsTotal(t) == MapThenSumSet(LAMBDA l : (l.price + Deposit) * l.quantity, cart[t])
Refund(t) == glasses[t] * Deposit
Total(t) == Larger(0, ItemsTotal(t) - Refund(t))

----------------------------------------------------------------------------
(* The page.  Nothing of it but the buttons that submit waits for a        *)
(* request under way.                                                      *)

(* The product with its groups, of which only the active answers are read. *)
ProductRead ==
    [saved EXCEPT !.groups = [i \in DOMAIN @ |->
        [@[i] EXCEPT !.options = SelectSeq(@, LAMBDA o : o.active)]]]

getQuickSaleContext(t) ==
    [product |-> ProductRead, activeSession |-> t \in site.sessions, printingReady |-> site.printer]

getStationSaleContext(t) == getQuickSaleContext(t) @@ [stations |-> site.stations]

ContextOf(t) == IF t \in StationTills THEN getStationSaleContext(t) ELSE getQuickSaleContext(t)

(* A station that is not active any more does not stay selected.           *)
StillSelected(t, c) ==
    IF t \in StationTills /\ station[t] \in c.stations THEN station[t] ELSE NoStation

(* loadContext reads what the server has when it answers.                  *)
LoadContext(t) ==
    LET c == ContextOf(t)'
    IN /\ context' = [context EXCEPT ![t] = c]
       /\ station' = [station EXCEPT ![t] = StillSelected(t, c)]

(* "Aktualisieren"                                                         *)
Refresh(t) ==
    /\ UNCHANGED <<groupVars, serverVars, net, requests, result, cart, glasses, key, customer, waiting>>
    /\ context[t] # ContextOf(t)
    /\ LoadContext(t)

(* The station till has a screen for every obstacle, and one for the last  *)
(* sale; the cart is on none of them.                                      *)
StationChosen(t) == result[t] = NoResult /\ station[t] # NoStation

ProductsShown(t) ==
    t \in StationTills => StationChosen(t) /\ context[t].printingReady /\ context[t].activeSession

SelectStation(t, st) ==
    /\ t \in StationTills /\ result[t] = NoResult
    /\ cart[t] = {}
    /\ st \in context[t].stations /\ st # station[t]
    /\ station' = [station EXCEPT ![t] = st]
    /\ UNCHANGED <<groupVars, serverVars, net, requests, context, result, cart, glasses, key, customer,
                   waiting>>

(* The form that asks for the starting balance.                            *)
SessionMissing(t) ==
    t \in StationTills /\ StationChosen(t) /\ context[t].printingReady /\ ~context[t].activeSession

(* startSession and the context loaded after it; a session that is there   *)
(* already is refused and nothing is loaded.                               *)
StartSession(t) ==
    /\ SessionMissing(t)
    /\ t \notin site.sessions
    /\ site' = [site EXCEPT !.sessions = @ \union {t}]
    /\ UNCHANGED <<groupVars, orders, pickups, disturbed, net, requests, result, cart, glasses, key,
                   customer, waiting>>
    /\ LoadContext(t)

(* "Naechster Verkauf"                                                     *)
NextSale(t) ==
    /\ result[t] # NoResult
    /\ result' = [result EXCEPT ![t] = NoResult]
    /\ UNCHANGED <<groupVars, serverVars, net, requests, context, station, cart, glasses, key, customer,
                   waiting>>

(* stationProducts: the tiles of products of the selected station.         *)
TilesOf(t) ==
    IF ProductsShown(t) /\ (t \in StationTills => station[t] = ProductStation)
    THEN Tiles(context[t].product) ELSE {}

CartBecomes(t, lines) ==
    /\ cart' = [cart EXCEPT ![t] = lines]
    /\ UNCHANGED <<groupVars, serverVars, net, requests, context, station, result, glasses, key, customer,
                   waiting>>

Fits(t, more) == Quantity(cart[t]) + more <= MAX_QUANTITY

(* addOption: a line keeps the price and the answers it was entered with.  *)
AddedTo(lines, tile, n) ==
    IF \E l \in lines : l.key = tile.key
    THEN {IF l.key = tile.key THEN [l EXCEPT !.quantity = @ + n] ELSE l : l \in lines}
    ELSE lines \union {[key |-> tile.key, answers |-> tile.answers, price |-> tile.price,
                        quantity |-> n]}

AddOptionTile(t, tile, n) == Fits(t, n) /\ CartBecomes(t, AddedTo(cart[t], tile, n))

(* changeLine, and the button that removes a line.                         *)
Changed(lines, line, quantity) ==
    (lines \ {line}) \union (IF quantity = 0 THEN {} ELSE {[line EXCEPT !.quantity = quantity]})

ChangeLine(t, line, quantity) ==
    /\ ProductsShown(t)
    /\ quantity \in {0, line.quantity - 1, line.quantity + 1}
    /\ Fits(t, quantity - line.quantity)
    /\ CartBecomes(t, Changed(cart[t], line, quantity))

SetDepositRefundCount(t, n) ==
    /\ t \notin StationTills /\ Deposit > 0
    /\ n # glasses[t]
    /\ glasses' = [glasses EXCEPT ![t] = n]
    /\ UNCHANGED <<groupVars, serverVars, net, requests, context, station, result, cart, key, customer,
                   waiting>>

(* resetSale, resetCart: the next customer, and the next key.              *)
ResetSale(t) ==
    /\ cart' = [cart EXCEPT ![t] = {}]
    /\ glasses' = [glasses EXCEPT ![t] = 0]
    /\ key' = [key EXCEPT ![t] = @ + 1]
    /\ customer' = [customer EXCEPT ![t] = @ + 1]

(* Only the station till lets a cashier give up, even while it waits.      *)
AbortSale(t) ==
    /\ t \in StationTills /\ ProductsShown(t)
    /\ cart[t] # {} /\ customer[t] < MaxCustomers
    /\ ResetSale(t)
    /\ UNCHANGED <<groupVars, serverVars, net, requests, context, station, result, waiting>>

Request(t, method, tender) ==
    [nr |-> requests + 1, till |-> t, key |-> <<t, key[t]>>, customer |-> <<t, customer[t]>>,
     station |-> station[t],
     items |-> Items(cart[t]), method |-> method, tender |-> tender, refund |-> Refund(t),
     shown |-> Total(t), payout |-> IF Total(t) = 0 THEN Refund(t) ELSE 0, state |-> "sent",
     change |-> 0]

(* Neither till shows the payment without a printer and a session.         *)
PaymentShown(t) == ProductsShown(t) /\ context[t].printingReady /\ context[t].activeSession

(* The amount entered: a voucher till does not ask for it when nothing is  *)
(* to be paid.                                                             *)
CashCovers(t, tender) ==
    tender >= Total(t) /\ (Total(t) = 0 /\ t \notin StationTills => tender = 0)

(* "Terminalzahlung bestaetigt?"                                           *)
CardConfirmed(t, tender) ==
    t \notin StationTills /\ cart[t] # {} /\ Total(t) > 0 /\ tender = Total(t)

SomethingToSell(t) == cart[t] # {} \/ glasses[t] > 0

SubmitSale(t, method, tender) ==
    /\ waiting[t] = NoRequest
    /\ requests < MaxRequests
    /\ PaymentShown(t) /\ SomethingToSell(t)
    /\ IF method = "CARD" THEN CardConfirmed(t, tender) ELSE CashCovers(t, tender)
    /\ requests' = requests + 1
    /\ net' = net \union {Request(t, method, tender)}
    /\ waiting' = [waiting EXCEPT ![t] = requests + 1]
    /\ UNCHANGED <<groupVars, serverVars, context, station, result, cart, glasses, key, customer>>

(* Mutant: a sale that failed goes on under a new key.                     *)
Failed_NewKey(t) ==
    /\ key' = [key EXCEPT ![t] = @ + 1]
    /\ UNCHANGED <<cart, glasses, customer>>

(* The cart and the key stay: the till tries the same sale again.          *)
Failed(t) == UNCHANGED <<cart, glasses, key, customer>>

AnswerArrives(t, r) ==
    /\ waiting[t] = r.nr
    /\ r.state \in {"booked", "refused"}
    /\ waiting' = [waiting EXCEPT ![t] = NoRequest]
    /\ IF r.state = "booked" THEN ResetSale(t) ELSE Failed(t)
    /\ result' = IF r.state = "booked" /\ t \in StationTills THEN [result EXCEPT ![t] = r.key]
                 ELSE result
    /\ net' = net \ {r}
    /\ UNCHANGED <<groupVars, serverVars, requests, context, station>>

(* The request or its answer is lost, or takes longer than the till waits. *)
TimesOut(t, lost) ==
    /\ waiting[t] # NoRequest
    /\ net' = net \ {r \in net : r.nr = waiting[t] /\ (lost \/ r.state # "sent")}
    /\ waiting' = [waiting EXCEPT ![t] = NoRequest]
    /\ Failed(t)
    /\ UNCHANGED <<groupVars, serverVars, requests, context, station, result>>

----------------------------------------------------------------------------
(* The server: createQuickSale, one transaction.  A second request with    *)
(* the same key finds the order before it starts or fails on the unique    *)
(* index and finds it then.                                                *)

OrderOf(k) == {o \in orders : o.key = k}

Answer(r, state, change) ==
    net' = (net \ {r}) \union
           (IF waiting[r.till] = r.nr THEN {[r EXCEPT !.state = state, !.change = change]} ELSE {})

(* Mutant: the key alone decides.                                          *)
SameSale_KeyOnly(r, o) == TRUE

(* resolveIdempotentQuickSale                                              *)
SameSale(r, o) ==
    /\ o.items = r.items
    /\ o.method = r.method
    /\ r.method = "CASH" => o.tender = r.tender
    /\ o.refund = r.refund
    /\ o.station = r.station

Gross(r) == MapThenSumSet(LAMBDA i : (Charged(saved, i.answers).price + Deposit) * i.quantity, r.items)
ToPay(r) == Larger(0, Gross(r) - r.refund)
Payout(r) == Larger(0, r.refund - Gross(r))

(* An active printer, a session of the cashier and, at a station, a        *)
(* station that is active and hands the product out.                       *)
MaySell(r) ==
    /\ site.printer /\ r.till \in site.sessions
    /\ r.station # NoStation => r.station \in site.stations

AtStation(r) == r.station # NoStation /\ r.items # {} => r.station = ProductStation

(* What is refused before the database is asked.                           *)
WellFormed(r) ==
    /\ r.items # {} \/ r.refund > 0
    /\ r.station # NoStation => r.method = "CASH"

(* The page sends no amount for a card, so the server has none to compare. *)
Acceptable(r) ==
    /\ WellFormed(r) /\ MaySell(r) /\ AtStation(r)
    /\ \A i \in r.items : Charged(saved, i.answers).ok
    /\ Quantity(r.items) <= MAX_QUANTITY
    /\ Payout(r) > 0 => r.method = "CASH"
    /\ ToPay(r) > 0 \/ r.refund > 0
    /\ r.method = "CASH" => r.tender >= ToPay(r)
    /\ r.station # NoStation => pickups < MAX_PICKUP_NUMBER

(* drawPickupNumber: the counter after the sale, which is its number.      *)
DrawPickupNumber(r) == IF r.station # NoStation THEN pickups + 1 ELSE pickups

NewOrder(r) ==
    [key |-> r.key, customer |-> r.customer, items |-> r.items, method |-> r.method,
     tender |-> r.tender, refund |-> r.refund, station |-> r.station,
     total |-> ToPay(r), payout |-> Payout(r), pickup |-> DrawPickupNumber(r),
     vouchers |-> Quantity(r.items), shown |-> r.shown, shownPayout |-> r.payout]

ChangeOf(o) == IF o.method = "CASH" THEN o.tender - o.total ELSE 0

CreateQuickSale(r) ==
    /\ r.state = "sent"
    /\ IF OrderOf(r.key) # {}
       THEN LET o == CHOOSE x \in OrderOf(r.key) : TRUE
            IN /\ IF SameSale(r, o) THEN Answer(r, "booked", ChangeOf(o)) ELSE Answer(r, "refused", 0)
               /\ UNCHANGED <<orders, pickups>>
       ELSE IF Acceptable(r)
       THEN /\ orders' = orders \union {NewOrder(r)}
            /\ pickups' = DrawPickupNumber(r)
            /\ Answer(r, "booked", ChangeOf(NewOrder(r)))
       ELSE Answer(r, "refused", 0) /\ UNCHANGED <<orders, pickups>>
    /\ UNCHANGED <<groupVars, tillVars, requests, site, disturbed>>

(* Elsewhere a session is closed, the last printer or a station is         *)
(* switched off, or on again.                                              *)
Disturb ==
    /\ disturbed + edits + saves < MaxChanges
    /\ disturbed' = disturbed + 1
    /\ \/ \E t \in site.sessions : site' = [site EXCEPT !.sessions = @ \ {t}]
       \/ site' = [site EXCEPT !.printer = ~@]
       \/ \E st \in Stations : site' = [site EXCEPT !.stations = (@ \ {st}) \union ({st} \ @)]
    /\ UNCHANGED <<groupVars, tillVars, orders, pickups, net, requests>>

----------------------------------------------------------------------------
Init ==
    /\ GroupInit
    /\ site = [sessions |-> Tills \ StationTills, printer |-> TRUE, stations |-> Stations]
    /\ disturbed = 0
    /\ context = [t \in Tills |-> ContextOf(t)]
    /\ station = [t \in Tills |-> NoStation]
    /\ result = [t \in Tills |-> NoResult]
    /\ cart = [t \in Tills |-> {}]
    /\ glasses = [t \in Tills |-> 0]
    /\ key = [t \in Tills |-> 1]
    /\ customer = [t \in Tills |-> 1]
    /\ waiting = [t \in Tills |-> NoRequest]
    /\ net = {}
    /\ requests = 0
    /\ orders = {}
    /\ pickups = 0

Page(t) ==
    \/ Refresh(t)
    \/ \E st \in Stations : SelectStation(t, st)
    \/ StartSession(t) \/ NextSale(t)
    \/ \E tile \in TilesOf(t), n \in QuickQuantities : AddOptionTile(t, tile, n)
    \/ \E line \in cart[t], n \in 0..MAX_QUANTITY : ChangeLine(t, line, n)
    \/ \E n \in 0..MaxRefund : SetDepositRefundCount(t, n)
    \/ AbortSale(t)
    \/ \E method \in {"CASH", "CARD"}, more \in Overpaid : SubmitSale(t, method, Total(t) + more)
    \/ \E r \in net : AnswerArrives(t, r)
    \/ \E lost \in BOOLEAN : TimesOut(t, lost)

Next ==
    \/ /\ disturbed < MaxChanges
       /\ edits + saves < MaxChanges \/ open # {}
       /\ Administer
       /\ UNCHANGED <<tillVars, serverVars, net, requests>>
    \/ \E t \in Tills : Page(t)
    \/ \E r \in net : CreateQuickSale(r)
    \/ Disturb

Spec == Init /\ [][Next]_vars

----------------------------------------------------------------------------
TypeOK ==
    /\ GroupTypeOK
    /\ \A t \in Tills : /\ Quantity(cart[t]) <= MAX_QUANTITY
                        /\ \A l, m \in cart[t] : l.key = m.key => l = m
                        /\ waiting[t] \in 0..requests
                        /\ glasses[t] \in 0..MaxRefund
    /\ \A r \in net : r.state = "sent" \/ r.nr = waiting[r.till]
    /\ pickups \in 0..MAX_PICKUP_NUMBER

(* A sale a till is told is booked is booked as that till asked for it: an   *)
(* order with its key has its items, its payment and its refund, the       *)
(* change shown is the change of that order, and there is a voucher for    *)
(* every unit; a cart edited after a lost answer is never passed off as    *)
(* the sale that was booked before.                                        *)
ShownSaleIsBooked ==
    \A r \in net : r.state = "booked" =>
        \E o \in OrderOf(r.key) :
             /\ o.items = r.items /\ o.method = r.method /\ o.refund = r.refund
             /\ r.change = ChangeOf(o)
             /\ o.vouchers = Quantity(r.items)

(* No customer pays twice, however often the sale is repeated: the orders  *)
(* of one customer are one order.                                          *)
OneOrderPerCustomer == \A o, p \in orders : o.customer = p.customer => o = p

(* Two sales of a station till never carry the same pickup number.         *)
PickupNumbersDiffer ==
    \A o, p \in orders : o.station # NoStation /\ p.station # NoStation /\ o.pickup = p.pickup => o = p

(* The amount a card was charged with is the amount of the order           *)
(* ("Der Kartenbetrag muss dem Gesamtbetrag entsprechen").                 *)
CardAmountIsBooked == \A o \in orders : o.method = "CARD" => o.shown = o.total

(* A sale the cashier has given up at a station till is not booked any     *)
(* more: what is booked is what the till is still about.                   *)
AbortedIsNotBooked == [][\A o \in orders' \ orders : key[o.key[1]] = o.key[2]]_vars

(* A cart of a station till can be emptied, which its message asks for     *)
(* before another station is chosen: it belongs to a chosen station.       *)
CartCanBeEmptied == \A t \in StationTills : cart[t] # {} => station[t] # NoStation

(* The deposit the button promises to pay out is the one that is booked.   *)
PayoutShownIsBooked == \A o \in orders : o.shownPayout = o.payout
=============================================================================
