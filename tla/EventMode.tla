----------------------------- MODULE EventMode -----------------------------
(* The life of one event (EventsService) under the administrators' page    *)
(* (AdminEventsView with its dialogs), while cashiers open sessions and    *)
(* take orders.                                                            *)
(*                                                                         *)
(* activate, changeStatus, createOrder and startSession lock the row of    *)
(* the event first and read afterwards: each is one step.  cleanTestData   *)
(* is Serializable: it reads as of its first statement (BeginClean), and   *)
(* fails when a row it locks or deletes was written since (EndClean).      *)
(* Names, times and audit entries are left out.                            *)
EXTENDS Integers, FiniteSets, FiniteSetsExt

CONSTANTS
    Admins, Cashiers,
    Statuses,               \* EventStatus
    ApiStatuses,            \* statuses other clients of the API ask for
    InitialStock,
    MaxOrders, MaxSessions, MaxRequests, MaxDialogs, MaxChanges

ASSUME StockAssumption == InitialStock \in Nat

VARIABLES
    event,      \* the row: status, testMode, and whether RKSV was confirmed
    products,   \* whether the event has any; it cannot be removed then
    sessions, orders,
    vouchers,   \* numbers of the sessions in which a value voucher was issued
    stock,      \* of the tracked product, in mode TEST
    moves,      \* its InventoryMovements
    done,       \* ConfigOperation: the clean-ups that committed, with key and dialog
    cleaning,   \* the clean-ups under way
    shown,      \* what the page of an administrator last loaded
    page,       \* its dialog
    counts      \* history: how many of each were made

server == <<event, products, sessions, orders, vouchers, stock, moves, done>>
pages == <<shown, page>>
modeVars == <<server, cleaning, pages, counts>>

Modes == {"TEST", "LIVE"}
NoMode == "NONE"
Sessionless == 0
Removed == "REMOVED"

Made(what) == counts' = [counts EXCEPT ![what] = @ + 1]
OfMode(set, m) == {x \in set : x.mode = m}
Open == {s \in sessions : s.open}

(* resolveOperationalDataMode                                              *)
DataMode ==
    CASE event.status = "ACTIVE" /\ ~event.testMode -> "LIVE"
      [] event.status = "TEST_MODE" /\ event.testMode -> "TEST"
      [] OTHER -> NoMode

(* A row that a clean-up is going to lock or to delete has been written.   *)
Disturb(P(_)) == cleaning' = {[c EXCEPT !.stale = @ \/ P(c)] : c \in cleaning}
DisturbAll == Disturb(LAMBDA c : TRUE)

----------------------------------------------------------------------------
(* Cashiers.                                                               *)

StartsSession(u) ==
    /\ DataMode # NoMode
    /\ counts.sessions < MaxSessions
    /\ ~ \E s \in Open : s.user = u
    /\ sessions' = sessions \union
         {[nr |-> counts.sessions + 1, user |-> u, mode |-> DataMode, open |-> TRUE]}
    /\ Made("sessions")
    /\ UNCHANGED <<event, products, orders, vouchers, stock, moves, done, cleaning, pages>>

ClosesSession(s) ==
    /\ s.open
    /\ sessions' = (sessions \ {s}) \union {[s EXCEPT !.open = FALSE]}
    /\ Disturb(LAMBDA c : s.nr \in c.sessions)
    /\ UNCHANGED <<event, products, orders, vouchers, stock, moves, done, pages, counts>>

(* createOrder: the order of a waiter has no session; that of a cashier    *)
(* has his.  A tracked product is sold from the stock of the mode.         *)
CreatesOrder(session, tracked) ==
    LET nr == counts.orders + 1 IN
    /\ DataMode # NoMode /\ products
    /\ counts.orders < MaxOrders
    /\ session # Sessionless => \E s \in Open : s.nr = session /\ s.mode = DataMode
    /\ tracked => DataMode = "TEST" /\ stock > 0
    /\ orders' = orders \union {[nr |-> nr, mode |-> DataMode, session |-> session]}
    /\ stock' = IF tracked THEN stock - 1 ELSE stock
    /\ moves' = IF tracked THEN moves \union {[type |-> "SALE", order |-> nr, delta |-> -1]}
                           ELSE moves
    /\ Disturb(LAMBDA c : tracked \/ session \in c.sessions)
    /\ Made("orders")
    /\ UNCHANGED <<event, products, sessions, vouchers, done, pages>>

MoveOf(o, type) == \E m \in moves : m.order = o.nr /\ m.type = type

Returnable(o) == MoveOf(o, "SALE") /\ ~MoveOf(o, "CANCELLATION")

(* cancelOrder gives a sold unit back, and writes the order.               *)
CancelsOrder(o) ==
    /\ Returnable(o)
    /\ stock' = stock + 1
    /\ moves' = moves \union {[type |-> "CANCELLATION", order |-> o.nr, delta |-> 1]}
    /\ DisturbAll
    /\ UNCHANGED <<event, products, sessions, orders, vouchers, done, pages, counts>>

(* ValueVouchersService.issue                                              *)
IssuesVoucher(s) ==
    /\ s.open /\ s.mode = DataMode /\ s.nr \notin vouchers
    /\ vouchers' = vouchers \union {s.nr}
    /\ UNCHANGED <<event, products, sessions, orders, stock, moves, done, cleaning, pages, counts>>

----------------------------------------------------------------------------
(* EventsService: the row of the event.                                    *)

SetEvent(row) ==
    /\ event' = row
    /\ DisturbAll
    /\ UNCHANGED <<products, sessions, orders, vouchers, stock, moves, done>>

(* Mutant: only orders are looked for.                                     *)
HasData_Orders(m) == OfMode(orders, m) # {}

HasData(m) == OfMode(orders, m) # {} \/ OfMode(sessions, m) # {}

Activatable == Open = {} /\ ~HasData("TEST")

Activate ==
    IF Activatable /\ event.status # Removed
    THEN SetEvent([status |-> "ACTIVE", testMode |-> FALSE, confirmed |-> TRUE])
    ELSE UNCHANGED <<server, cleaning>>

Allowed(status) ==
    /\ status = "ACTIVE" => event.confirmed /\ ~HasData("TEST")
    /\ status = "TEST_MODE" => ~HasData("LIVE")
    /\ status \in {"ACTIVE", "TEST_MODE"} => Open = {}

ChangeStatus(status) ==
    IF Allowed(status) /\ event.status # Removed
    THEN SetEvent([event EXCEPT !.status = status,
                                !.testMode = CASE status = "TEST_MODE" -> TRUE
                                               [] status = "ACTIVE" -> FALSE
                                               [] OTHER -> @])
    ELSE UNCHANGED <<server, cleaning>>

(* update writes names and times only, but it writes the row.              *)
Update ==
    /\ event.status # Removed
    /\ SetEvent(event)
    /\ UNCHANGED pages

(* remove: the categories go before the products do, and a product         *)
(* restricts the deletion of its category, as a value voucher does that of *)
(* the event.  Sessions go with the event.                                 *)
Remove ==
    IF ~products /\ vouchers = {}
    THEN /\ event' = [event EXCEPT !.status = Removed]
         /\ sessions' = {}
         /\ DisturbAll
         /\ UNCHANGED <<products, orders, vouchers, stock, moves, done>>
    ELSE UNCHANGED <<server, cleaning>>

----------------------------------------------------------------------------
(* cleanTestData.                                                          *)

CleanedKeys == {d.key : d \in done}

(* The key is drawn when the dialog opens and stays.                       *)
KeyOf(a) == page[a].dialog

BeginClean(a) ==
    cleaning' = cleaning \union
        {[nr |-> counts.requests + 1, admin |-> a, dialog |-> page[a].dialog, key |-> KeyOf(a),
          stale |-> FALSE, seen |-> KeyOf(a) \in CleanedKeys, event |-> event,
          orders |-> {o.nr : o \in OfMode(orders, "TEST")},
          sessions |-> {s.nr : s \in OfMode(sessions, "TEST")},
          live |-> HasData("LIVE"), result |-> "running"]}

(* Mutant: what was deleted from the ledger is not taken back from the     *)
(* stock.                                                                  *)
Explained_Old(kept) == stock

(* resetTestInventory: stock is what the remaining movements explain.      *)
Explained(kept) == MapThenSumSet(LAMBDA m : m.delta, kept)

Kept == {m \in moves : m.type = "INITIALIZATION"}

ResetTestInventory ==
    /\ moves' = Kept
    /\ stock' = IF moves = Kept THEN stock ELSE Explained(Kept)

(* Mutant: the row of the event is read and not locked.                    *)
Serializes_Never(c) == TRUE

(* The row of the event is locked FOR UPDATE; it, the stock, the orders    *)
(* and the sessions are as they were when the clean-up began.              *)
Serializes(c) == ~c.stale

(* A value voucher restricts the deletion of its session; a second         *)
(* ConfigOperation with the same key violates its unique index.            *)
Cleanable(c) ==
    /\ Serializes(c)
    /\ c.event.status = "TEST_MODE" /\ c.event.testMode
    /\ ~c.live
    /\ c.sessions \intersect vouchers = {}
    /\ c.key \notin CleanedKeys

CleanAway(c) ==
    /\ ResetTestInventory
    /\ orders' = {o \in orders : o.nr \notin c.orders}
    /\ sessions' = {s \in sessions : s.nr \notin c.sessions}
    /\ event' = [event EXCEPT !.status = "PREPARED", !.testMode = FALSE]
    /\ done' = done \union {[key |-> c.key, dialog |-> c.dialog]}
    /\ UNCHANGED <<products, vouchers>>

EndClean(c) ==
    /\ c.result = "running"
    /\ LET result == CASE c.seen -> "replayed" [] ~c.seen /\ Cleanable(c) -> "cleaned"
                       [] OTHER -> "refused"
       IN /\ cleaning' = {CASE d = c -> [c EXCEPT !.result = result]
                            [] d # c -> [d EXCEPT !.stale = @ \/ result = "cleaned"] : d \in cleaning}
          /\ IF result = "cleaned" THEN CleanAway(c) ELSE UNCHANGED server
    /\ UNCHANGED <<pages, counts>>

----------------------------------------------------------------------------
(* The page of an administrator.  What it offers depends on what it last   *)
(* loaded; the server decides by the row.                                  *)

NoDialog == [kind |-> "none", ticked |-> FALSE, warned |-> FALSE, dialog |-> 0, busy |-> FALSE]

Dialog(kind, warned, nr) ==
    [kind |-> kind, ticked |-> FALSE, warned |-> warned, dialog |-> nr, busy |-> FALSE]

PageBecomes(a, dialog) == page' = [page EXCEPT ![a] = dialog]
OnPage(a, kind) == page[a].kind = kind

LoadEvents(a) ==
    /\ shown[a] # event
    /\ shown' = [shown EXCEPT ![a] = event]
    /\ UNCHANGED <<server, cleaning, page, counts>>

Shows(a, dialog) ==
    /\ OnPage(a, "none")
    /\ counts.dialogs < MaxDialogs /\ Made("dialogs")
    /\ PageBecomes(a, dialog)
    /\ UNCHANGED <<server, cleaning, shown>>

OpenActivateModal(a) == shown[a].status # "ACTIVE" /\ Shows(a, Dialog("rksv", FALSE, 0))

(* handleCompleteEvent looks for orders waiting in this browser's own      *)
(* offline queue; without an answer it takes it to be empty.               *)
OpenCompleteModal(a, waiting) ==
    shown[a].status \notin {"COMPLETED", "ARCHIVED"} /\ Shows(a, Dialog("complete", waiting, 0))

OpenCleanup(a) ==
    /\ shown[a].status = "TEST_MODE" /\ shown[a].testMode
    /\ Shows(a, Dialog("cleanup", FALSE, counts.dialogs + 1))

(* The check box of a modal; for a clean-up, the counts have arrived and   *)
(* the name of the event is typed.                                         *)
Tick(a) ==
    /\ ~OnPage(a, "none") /\ ~page[a].ticked
    /\ OnPage(a, "complete") => page[a].warned
    /\ PageBecomes(a, [page[a] EXCEPT !.ticked = TRUE])
    /\ UNCHANGED <<server, cleaning, shown, counts>>

Cancel(a) ==
    /\ ~OnPage(a, "none") /\ ~page[a].busy
    /\ PageBecomes(a, NoDialog)
    /\ UNCHANGED <<server, cleaning, shown, counts>>

Changed == counts.changes < MaxChanges /\ Made("changes")

(* The modal stays open when the server refuses.                           *)
ClosesIf(a, accepted) == PageBecomes(a, IF accepted THEN NoDialog ELSE page[a])

ConfirmActivation(a) ==
    /\ OnPage(a, "rksv") /\ page[a].ticked
    /\ Activate
    /\ Changed
    /\ ClosesIf(a, Activatable /\ event.status # Removed)
    /\ UNCHANGED shown

SetTestMode(a) ==
    /\ OnPage(a, "none")
    /\ shown[a].status \notin {"TEST_MODE", "ACTIVE"}
    /\ ChangeStatus("TEST_MODE")
    /\ Changed
    /\ UNCHANGED pages

PauseEvent(a) ==
    /\ OnPage(a, "none")
    /\ shown[a].status = "ACTIVE"
    /\ ChangeStatus("PAUSED")
    /\ Changed
    /\ UNCHANGED pages

ConfirmCompleteEvent(a) ==
    /\ OnPage(a, "complete") /\ (page[a].warned => page[a].ticked)
    /\ ChangeStatus("COMPLETED")
    /\ Changed
    /\ ClosesIf(a, event.status # Removed)
    /\ UNCHANGED shown

Delete(a) ==
    /\ OnPage(a, "none") /\ event.status # Removed
    /\ Remove
    /\ UNCHANGED <<pages, counts>>

Submit(a) ==
    /\ OnPage(a, "cleanup") /\ page[a].ticked /\ ~page[a].busy
    /\ counts.requests < MaxRequests /\ Made("requests")
    /\ BeginClean(a)
    /\ PageBecomes(a, [page[a] EXCEPT !.busy = TRUE])
    /\ UNCHANGED <<server, shown>>

(* An error leaves the dialog open, with its key.                          *)
Answered(a, c, arrives) ==
    /\ c.admin = a
    /\ page[a].busy /\ page[a].dialog = c.dialog
    /\ \A d \in cleaning : d.admin = a => d.nr <= c.nr
    /\ arrives => c.result # "running"
    /\ cleaning' = IF c.result = "running" THEN cleaning ELSE cleaning \ {c}
    /\ PageBecomes(a, IF arrives /\ c.result # "refused" THEN NoDialog
                      ELSE [page[a] EXCEPT !.busy = FALSE])
    /\ UNCHANGED <<server, shown, counts>>

ApiChange(status) == ChangeStatus(status) /\ Changed /\ UNCHANGED pages
ApiUpdate == Update /\ Changed

----------------------------------------------------------------------------
ModeInit ==
    /\ event = [status |-> "DRAFT", testMode |-> FALSE, confirmed |-> FALSE]
    /\ sessions = {} /\ orders = {} /\ vouchers = {} /\ done = {} /\ cleaning = {}
    /\ products \in BOOLEAN
    /\ stock = IF products THEN InitialStock ELSE 0
    /\ moves = IF ~products THEN {}
               ELSE {[type |-> "INITIALIZATION", order |-> 0, delta |-> InitialStock]}
    /\ shown = [a \in Admins |-> event]
    /\ page = [a \in Admins |-> NoDialog]
    /\ counts = [orders |-> 0, sessions |-> 0, requests |-> 0, dialogs |-> 0, changes |-> 0]

Cashier ==
    \/ \E u \in Cashiers : StartsSession(u)
    \/ \E s \in sessions : ClosesSession(s) \/ IssuesVoucher(s)
    \/ \E tracked \in BOOLEAN, session \in {Sessionless} \union {s.nr : s \in sessions} :
          CreatesOrder(session, tracked)
    \/ \E o \in orders : CancelsOrder(o)

Administrator(a) ==
    \/ LoadEvents(a) \/ Tick(a) \/ Cancel(a)
    \/ OpenActivateModal(a) \/ OpenCleanup(a)
    \/ \E waiting \in BOOLEAN : OpenCompleteModal(a, waiting)
    \/ ConfirmActivation(a) \/ SetTestMode(a) \/ PauseEvent(a)
    \/ ConfirmCompleteEvent(a) \/ Delete(a)
    \/ Submit(a)
    \/ \E c \in cleaning, arrives \in BOOLEAN : Answered(a, c, arrives)

ModeNext ==
    \/ Cashier
    \/ \E a \in Admins : Administrator(a)
    \/ \E c \in cleaning : EndClean(c)
    \/ \E status \in ApiStatuses : ApiChange(status)
    \/ ApiUpdate

ModeSpec == ModeInit /\ [][ModeNext]_modeVars

----------------------------------------------------------------------------
ModeTypeOK ==
    /\ event \in [status : Statuses \union {Removed}, testMode : BOOLEAN, confirmed : BOOLEAN]
    /\ \A s \in sessions : s.nr \in 1..MaxSessions /\ s.user \in Cashiers /\ s.mode \in Modes
    /\ \A o \in orders : o.nr \in 1..MaxOrders /\ o.mode \in Modes
    /\ stock \in 0..InitialStock
    /\ \A a \in Admins : page[a].kind \in {"none", "rksv", "complete", "cleanup"}

(* "Testdaten muessen vor dem Echtbetrieb vollstaendig bereinigt werden"   *)
(* and its converse: while an event runs, live or as a test, everything    *)
(* entered for it belongs to the mode it runs in, whatever clean-up was    *)
(* under way meanwhile.                                                    *)
ModesNeverMix == DataMode # NoMode => \A x \in orders \union sessions : x.mode = DataMode

(* resetTestInventory: the ledger of the tests explains the stock, also    *)
(* after a clean-up and with sales during it.                              *)
TestStockExplained == stock = MapThenSumSet(LAMBDA m : m.delta, moves)

(* A clean-up that was asked for during the test never takes an event out  *)
(* of live operation; the pages of other administrators went on.           *)
CleaningNeverEndsLive ==
    [][event.status = "ACTIVE" /\ done' # done => event'.status = "ACTIVE"]_modeVars

(* A dialog cleans at most once (configOperation): when its answer was     *)
(* lost and it is sent again, it does not delete what was entered since.   *)
CleansOncePerDialog == \A d, e \in done : d.dialog = e.dialog => d = e
-----------------------------------------------------------------------------
(* Refuted: "TEST_MODE --> PREPARED : Testdaten bereinigt".  An order that *)
(* commits between the first statement of a clean-up and its lock stays.   *)
CleanedMeansNoTestData == event.status = "PREPARED" => ~HasData("TEST")

(* Refuted: "Veranstaltung loeschen (nur im Entwurf/Testmodus)".           *)
RemovedInDraftOrTest ==
    [][event'.status = Removed /\ event.status # Removed
         => event.status \in {"DRAFT", "TEST_MODE"}]_modeVars

(* Refuted: the diagram of the states of an event.                         *)
StatusFollowsDiagram ==
    [][event'.status # event.status =>
         <<event.status, event'.status>> \in
             {<<"DRAFT", "PREPARED">>, <<"PREPARED", "TEST_MODE">>, <<"TEST_MODE", "PREPARED">>,
              <<"PREPARED", "ACTIVE">>, <<"ACTIVE", "PAUSED">>, <<"PAUSED", "ACTIVE">>,
              <<"ACTIVE", "COMPLETED">>, <<"COMPLETED", "ARCHIVED">>}]_modeVars

(* Refuted: "liesse sich nie wieder auf Echtbetrieb umstellen" is what the *)
(* order of the deletions is there to avoid; an undisturbed clean-up of a  *)
(* test event succeeds.                                                    *)
UndisturbedCleanupSucceeds ==
    \A c \in cleaning : c.result = "refused" => c.stale \/ c.event.status # "TEST_MODE"
=============================================================================
