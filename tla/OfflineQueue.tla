---------------------------- MODULE OfflineQueue ----------------------------
(* The offline queue of a till: the waiter's page submits a basket, keeps  *)
(* it in IndexedDB when the outcome is unknown, and every open tab runs a  *)
(* loop that sends what is due; an operator repeats, adopts or discards    *)
(* entries.  The server accepts an order at most once for its key.         *)
(*                                                                         *)
(* Time is abstract: an entry that waits becomes due at some time, an      *)
(* entry in SENDING is older than 90 s or not, a confirmed one older than  *)
(* 24 h or not.  Products, prices and the content of an order only matter  *)
(* as a reason to reject it.                                               *)
EXTENDS Naturals, Sequences, FiniteSets

CONSTANTS
    Keys,           \* 1..n: idempotency keys in the order of capture
    LegacyKeys,     \* entries of version 1 of the database
    RefundKeys,     \* baskets with a deposit refund
    PaidKeys,       \* baskets paid on capture
    TrackedKeys,    \* baskets with a product whose stock is tracked
    Tabs, MainTab,  \* open pages; the one with the cart and the panel
    Hand, Till,     \* its operator's panel, its checkout
    Users, Role, NoUser, NoSession, Nobody,
    MAX_AUTOMATIC_ATTEMPTS, MAX_OPEN_QUEUE_ENTRIES,
    MaxRequests,    \* bound on requests on their way
    MaxFaults       \* bound on what the world does to the till: changes of
                    \* event and sessions, logins, crashes, operators' decisions

ASSUME KeysAreNumbers ==
    IsFiniteSet(Keys) /\ Keys = 1..Cardinality(Keys) /\ LegacyKeys \subseteq Keys
ASSUME MainTabIsATab ==
    /\ MainTab \in Tabs /\ {Hand, Till} \cap Tabs = {} /\ Hand # Till
    /\ Nobody \notin Tabs \union {Hand, Till}
ASSUME BoundsAreNumbers == MAX_AUTOMATIC_ATTEMPTS \in Nat \ {0} /\ MaxFaults \in Nat

VARIABLES
    entry,      \* the object store offline-orders, shared by all tabs
    pc,         \* what a tab's loop, the panel and the checkout do
    copy,       \* the records a loop or the panel has read
    cur,        \* the key it works on
    seen,       \* the context it compares them with
    known,      \* the page's cached answer of GET /sessions/context
    basket,     \* the cart a key was made for
    cart,       \* the cart on the page, 0 once it is empty
    user,       \* who is logged in; every tab takes the token from here
    mode,       \* mode of the event: LIVE, TEST or NONE
    active,     \* the active cashier session of every user
    net,        \* requests POST /orders on their way
    orders,     \* the server's orders for every key
    audited,    \* keys with an entry OFFLINE_QUEUE_DISCARDED in the audit log
    faults

storeVars  == <<entry>>
localVars  == <<pc, copy, cur, seen>>
pageVars   == <<known, basket, cart>>
serverVars == <<orders, audited>>
worldVars  == <<user, mode, active>>
vars == <<storeVars, localVars, pageVars, serverVars, worldVars, faults, net>>

Procs == Tabs \union {Hand, Till}
Modes == {"LIVE", "TEST", "NONE"}
Sessions == [mode : {"LIVE", "TEST"}, nr : 1..MaxFaults]
OpenStates == {"LOCAL_PENDING", "SENDING", "CONFLICT", "FAILED"}

Entry == [state   : OpenStates \union {"ABSENT", "V1", "CONFIRMED"},
          user    : Users \union {NoUser},
          mode    : Modes \union {"UNKNOWN"},
          session : Sessions \union {NoSession},
          attempt : 0..(MAX_AUTOMATIC_ATTEMPTS + MaxFaults),
          due     : BOOLEAN,
          legacy  : BOOLEAN]

(* captured is a history of the entry an order came from; NoContext for an *)
(* order that came from the checkout.                                      *)
Order == [user : Users, mode : {"LIVE", "TEST"},
          session : Sessions \union {NoSession}, refund : BOOLEAN,
          captured : [user : Users \union {NoUser}, mode : Modes,
                      session : Sessions \union {NoSession}]]

NoEntry == [state |-> "ABSENT", user |-> NoUser, mode |-> "NONE",
            session |-> NoSession, attempt |-> 0, due |-> FALSE, legacy |-> FALSE]

NoContext == [user |-> NoUser, mode |-> "NONE", session |-> NoSession]

(* The context of whoever is logged in, as the server sees it now.          *)
Context == [user |-> user, mode |-> mode,
            session |-> IF user = NoUser THEN NoSession ELSE active[user]]

Open == {k \in Keys : entry[k].state \in OpenStates}
Fault == faults < MaxFaults /\ faults' = faults + 1
Upgraded == \A k \in Keys : entry[k].state # "V1"

Init ==
    /\ entry = [k \in Keys |-> IF k \in LegacyKeys THEN [NoEntry EXCEPT !.state = "V1"]
                                                   ELSE NoEntry]
    /\ pc = [p \in Procs |-> "idle"]
    /\ copy = [p \in Procs |-> [k \in Keys |-> NoEntry]]
    /\ cur = [p \in Procs |-> 0]
    /\ seen = [p \in Procs |-> NoContext]
    /\ known = NoContext
    /\ basket = [k \in Keys |-> 0]
    /\ cart = 0
    /\ user \in Users
    /\ mode = "LIVE"
    /\ active = [u \in Users |-> NoSession]
    /\ net = {}
    /\ orders = [k \in Keys |-> <<>>]
    /\ audited = {}
    /\ faults = 0

----------------------------------------------------------------------------
(* The object store.                                                       *)

(* The first access upgrades version 1: what is known of an old entry is   *)
(* neither its user nor its mode, so nobody sends it unasked.              *)
Upgrade ==
    /\ ~Upgraded
    /\ entry' = [k \in Keys |->
                    IF entry[k].state = "V1"
                    THEN [NoEntry EXCEPT !.state = "CONFLICT", !.mode = "UNKNOWN", !.legacy = TRUE]
                    ELSE entry[k]]
    /\ UNCHANGED <<localVars, pageVars, serverVars, worldVars, faults, net>>

Put(k, e) == entry' = [entry EXCEPT ![k] = e]

(* Mutant: an interrupted entry is not put back.                           *)
Recovered_Nothing == entry

(* Entries in SENDING for more than 90 s were interrupted; the attempts    *)
(* they have used up stay counted.                                         *)
Recovered ==
    [k \in Keys |-> IF entry[k].state = "SENDING" /\ entry[k].due
                    THEN [entry[k] EXCEPT !.state = "LOCAL_PENDING", !.due = TRUE]
                    ELSE entry[k]]

Cleaned(old) == [k \in Keys |-> IF k \in old THEN NoEntry ELSE entry[k]]

(* The waiting time of an entry is over; the 90 s of one in SENDING are    *)
(* over only after its sender died, for a request takes at most 15 s.      *)
BecomesDue(k) ==
    /\ ~entry[k].due
    /\ \/ entry[k].state = "LOCAL_PENDING"
       \/ entry[k].state = "SENDING" /\ ~\E p \in Procs : pc[p] = "sending" /\ cur[p] = k
    /\ Put(k, [entry[k] EXCEPT !.due = TRUE])
    /\ UNCHANGED <<localVars, pageVars, serverVars, worldVars, faults, net>>

----------------------------------------------------------------------------
(* Sending one entry, by a tab's loop or by the panel.                     *)

(* checkOfflineOrderContext, in its order.                                 *)
Check(e, ctx) ==
    IF e.mode = "UNKNOWN" \/ e.user = NoUser THEN "CONFLICT"
    ELSE IF ctx.user # e.user THEN "WAIT_FOR_USER"
    ELSE IF ctx.mode \notin {"LIVE", "TEST"} \/ ctx.mode # e.mode THEN "CONFLICT"
    ELSE IF e.session # NoSession /\ e.session # ctx.session THEN "CONFLICT"
    ELSE "OK"

Request(p, k, context, refund) ==
    [key |-> k, user |-> user, session |-> context.session, refund |-> refund,
     from |-> p, stage |-> "sent", answer |-> "none", captured |-> context]

CapturedIn(e) == [user |-> e.user, mode |-> e.mode, session |-> e.session]

(* The copy that was read is written back as SENDING, then it is posted;   *)
(* the payload has no deposit refund, and the token is the one of now.     *)
Attempts(p, k, e) ==
    LET sending == [e EXCEPT !.state = "SENDING", !.attempt = @ + 1, !.due = FALSE]
    IN  /\ Cardinality(net) < MaxRequests
        /\ Put(k, sending)
        /\ copy' = [copy EXCEPT ![p][k] = sending]
        /\ cur' = [cur EXCEPT ![p] = k]
        /\ pc' = [pc EXCEPT ![p] = "sending"]
        /\ net' = net \union {Request(p, k, CapturedIn(e), FALSE)}

(* What the answer makes of the entry: 2xx, 4xx, or anything else.         *)
Settled(e, answer) ==
    CASE answer = "ok"     -> [e EXCEPT !.state = "CONFIRMED"]
      [] answer \in {"reject", "mismatch"} -> [e EXCEPT !.state = "CONFLICT"]
      [] answer = "error"  -> IF e.attempt >= MAX_AUTOMATIC_ATTEMPTS
                              THEN [e EXCEPT !.state = "FAILED"]
                              ELSE [e EXCEPT !.state = "LOCAL_PENDING", !.due = FALSE]

Finishes(p) ==
    /\ pc' = [pc EXCEPT ![p] = "idle"]
    /\ copy' = [copy EXCEPT ![p] = [k \in Keys |-> NoEntry]]
    /\ cur' = [cur EXCEPT ![p] = 0]
    /\ seen' = [seen EXCEPT ![p] = NoContext]

Remaining(p) == {k \in Keys : copy[p][k].state # "ABSENT"}

(* Done with k: the run goes on with its next entry or is over.            *)
GoesOn(p, k) ==
    IF Remaining(p) \subseteq {k} THEN Finishes(p)
    ELSE /\ pc' = [pc EXCEPT ![p] = "loop"]
         /\ copy' = [copy EXCEPT ![p][k] = NoEntry]
         /\ cur' = [cur EXCEPT ![p] = 0]
         /\ UNCHANGED seen

(* The outcome of attemptSendEntry.                                        *)
SendEnds(p, answer) ==
    LET k == cur[p]
    IN  /\ Put(k, Settled(copy[p][k], answer))
        /\ GoesOn(p, k)
        /\ UNCHANGED pageVars

----------------------------------------------------------------------------
(* The loop of a tab.                                                      *)

(* A run starts unless one is under way in this tab: on start, once the    *)
(* network is back, after maintenance, and every minute.                   *)
SyncStarts(t) ==
    /\ Upgraded
    /\ pc[t] = "idle"
    /\ entry' = Recovered
    /\ pc' = [pc EXCEPT ![t] = "context"]
    /\ seen' = [seen EXCEPT ![t].user = user]
    /\ UNCHANGED <<copy, cur, pageVars, serverVars, worldVars, faults, net>>

SyncFails(t) ==
    /\ pc[t] = "context"
    /\ Finishes(t)
    /\ UNCHANGED <<entry, pageVars, serverVars, worldVars, faults, net>>

(* The context of today arrives; old confirmed entries go; what is due is  *)
(* read.                                                                   *)
Due == {k \in Keys : entry[k].state = "LOCAL_PENDING" /\ entry[k].due}

SyncReads(t) ==
    /\ pc[t] = "context"
    /\ user # NoUser
    /\ known' = IF t = MainTab THEN Context ELSE known
    /\ \E old \in SUBSET {k \in Keys : entry[k].state = "CONFIRMED"} :
          entry' = Cleaned(old)
    /\ IF Due = {} THEN Finishes(t)
       ELSE /\ seen' = [seen EXCEPT ![t] = [Context EXCEPT !.user = seen[t].user]]
            /\ copy' = [copy EXCEPT ![t] = [k \in Keys |->
                           IF k \in Due THEN entry[k] ELSE NoEntry]]
            /\ pc' = [pc EXCEPT ![t] = "loop"]
            /\ UNCHANGED cur
    /\ UNCHANGED <<basket, cart, serverVars, worldVars, faults, net>>

(* The entry captured first of those that remain.                          *)
NextDue(t) == CHOOSE k \in Remaining(t) : \A j \in Remaining(t) : k <= j

SyncStep(t) ==
    LET k == NextDue(t)
        e == copy[t][k]
    IN  /\ pc[t] = "loop"
        /\ CASE Check(e, seen[t]) = "OK" ->
                  Attempts(t, k, e) /\ UNCHANGED seen
             [] Check(e, seen[t]) = "CONFLICT" ->
                  Put(k, [e EXCEPT !.state = "CONFLICT"]) /\ GoesOn(t, k) /\ UNCHANGED net
             [] Check(e, seen[t]) = "WAIT_FOR_USER" ->
                  GoesOn(t, k) /\ UNCHANGED <<entry, net>>
        /\ UNCHANGED <<pageVars, serverVars, worldVars, faults>>

----------------------------------------------------------------------------
(* The panel.                                                              *)

Paid(k) == (IF k \in LegacyKeys THEN k ELSE basket[k]) \in PaidKeys

CanDiscard(k) ==
    \/ Role[user] = "ADMINISTRATOR"
    \/ /\ ~Paid(k)
       /\ IF entry[k].legacy THEN Role[user] = "EVENT_MANAGER" ELSE entry[k].user = user

(* The panel reads the record and asks the server.                         *)
Asks(k, for) ==
    /\ Upgraded
    /\ pc[Hand] = "idle" /\ user # NoUser
    /\ Fault
    /\ copy' = [copy EXCEPT ![Hand][k] = entry[k]]
    /\ cur' = [cur EXCEPT ![Hand] = k]
    /\ pc' = [pc EXCEPT ![Hand] = for]
    /\ seen' = [seen EXCEPT ![Hand].user = user]
    /\ UNCHANGED <<entry, pageVars, serverVars, worldVars, net>>

(* The row of an entry offers another try.                                 *)
canRetry(k) == entry[k].state \in {"CONFLICT", "FAILED"} /\ ~entry[k].legacy

RetryStarts(k) == canRetry(k) /\ Asks(k, "retry")

RetryChecks ==
    LET k == cur[Hand]
        e == [copy[Hand][k] EXCEPT !.attempt = 0, !.due = TRUE]
        ctx == [Context EXCEPT !.user = seen[Hand].user]
    IN  /\ pc[Hand] = "retry"
        /\ user # NoUser
        /\ CASE Check(e, ctx) = "OK" ->
                  Attempts(Hand, k, e) /\ UNCHANGED seen
             [] Check(e, ctx) = "CONFLICT" ->
                  /\ Put(k, [e EXCEPT !.state = "CONFLICT"])
                  /\ Finishes(Hand) /\ UNCHANGED net
             [] Check(e, ctx) = "WAIT_FOR_USER" ->
                  Finishes(Hand) /\ UNCHANGED <<entry, net>>
        /\ UNCHANGED <<pageVars, serverVars, worldVars, faults>>

(* A request of the panel fails, or its answer is lost.                    *)
HandFails ==
    /\ pc[Hand] \in {"retry", "lookup", "discard"}
    /\ Finishes(Hand)
    /\ UNCHANGED <<entry, pageVars, serverVars, worldVars, faults, net>>

(* Who may take over an entry of version 1.                                *)
canAdopt(k) == Role[user] \in {"ADMINISTRATOR", "EVENT_MANAGER"} /\ entry[k].legacy

(* The context the page has cached says how the event is run today.        *)
ModeIsKnown == known.mode \in {"LIVE", "TEST"}

Adopted(e) ==
    [e EXCEPT !.user = user, !.mode = known.mode, !.session = known.session,
              !.state = "LOCAL_PENDING", !.attempt = 0, !.due = TRUE]

(* The panel takes over an entry in the context it has cached.             *)
Adopt(k) ==
    /\ Upgraded
    /\ pc[Hand] = "idle" /\ user # NoUser
    /\ canAdopt(k)
    /\ Fault
    /\ ModeIsKnown
    /\ Put(k, Adopted(entry[k]))
    /\ UNCHANGED <<localVars, pageVars, serverVars, worldVars, net>>

(* The lists of the panel are read when it opens: one that has been        *)
(* confirmed since is still among the open ones.                           *)
Listed(k) == entry[k].state \in OpenStates \union {"CONFIRMED"}

(* The dialog that asks for a reason and a tick.                           *)
DiscardConfirmed(k) == Listed(k) /\ user # NoUser /\ CanDiscard(k)

DiscardStarts(k) == DiscardConfirmed(k) /\ Asks(k, "lookup")

(* GET /orders/by-idempotency-key: the order of somebody else is unknown   *)
(* to all but administrators and event managers.                           *)
Visible(k) ==
    /\ orders[k] # <<>>
    /\ orders[k][1].user = user \/ Role[user] \in {"ADMINISTRATOR", "EVENT_MANAGER"}

(* Mutant: what the server does not know is deleted without an audit entry. *)
DiscardLooksUp_Deletes ==
    LET k == cur[Hand]
    IN  /\ pc[Hand] = "lookup" /\ user # NoUser
        /\ IF Visible(k) THEN Put(k, [copy[Hand][k] EXCEPT !.state = "CONFIRMED"])
                         ELSE Put(k, NoEntry)
        /\ Finishes(Hand)
        /\ UNCHANGED <<pageVars, serverVars, worldVars, faults, net>>

DiscardLooksUp ==
    LET k == cur[Hand]
    IN  /\ pc[Hand] = "lookup" /\ user # NoUser
        /\ IF Visible(k)
           THEN /\ Put(k, [copy[Hand][k] EXCEPT !.state = "CONFIRMED"])
                /\ Finishes(Hand)
           ELSE /\ pc' = [pc EXCEPT ![Hand] = "discard"]
                /\ UNCHANGED <<entry, copy, cur, seen>>
        /\ UNCHANGED <<pageVars, serverVars, worldVars, faults, net>>

(* POST /orders/offline-queue/discard: refused once there is an order or   *)
(* if the user may not; otherwise the audit log is written.                *)
MayDiscard(k) ==
    LET e == copy[Hand][k]
    IN  IF Paid(k) THEN Role[user] = "ADMINISTRATOR"
        ELSE IF e.legacy THEN Role[user] \in {"ADMINISTRATOR", "EVENT_MANAGER"}
        ELSE Role[user] = "ADMINISTRATOR" \/ e.user = user

DiscardIsAudited ==
    LET k == cur[Hand]
    IN  /\ pc[Hand] = "discard" /\ user # NoUser
        /\ orders[k] = <<>> /\ MayDiscard(k)
        /\ audited' = audited \union {k}
        /\ \/ pc' = [pc EXCEPT ![Hand] = "delete"] /\ UNCHANGED <<copy, cur, seen>>
           \/ Finishes(Hand)                           \* the answer is lost
        /\ UNCHANGED <<entry, pageVars, orders, worldVars, faults, net>>

DiscardDeletes ==
    /\ pc[Hand] = "delete"
    /\ Put(cur[Hand], NoEntry)
    /\ Finishes(Hand)
    /\ UNCHANGED <<pageVars, serverVars, worldVars, faults, net>>

----------------------------------------------------------------------------
(* The checkout of the page.                                               *)

Unused == {k \in Keys \ LegacyKeys : basket[k] = 0}

(* Every press of the button makes a key of its own.                       *)
Submits(k) ==
    LET b == IF cart = 0 THEN k ELSE cart
    IN  /\ pc[Till] = "idle"
        /\ user # NoUser
        /\ k \in Unused /\ \A j \in Unused : k <= j
        /\ Cardinality(net) < MaxRequests
        /\ basket' = [basket EXCEPT ![k] = b]
        /\ cart' = b
        /\ cur' = [cur EXCEPT ![Till] = k]
        /\ pc' = [pc EXCEPT ![Till] = "sending"]
        /\ net' = net \union {Request(Till, k, NoContext, b \in RefundKeys)}
        /\ UNCHANGED <<entry, copy, seen, known, serverVars, worldVars, faults>>

(* Without a known context, with tracked products or with a full queue     *)
(* nothing is held back and the cart stays as it is.                       *)
CanQueue ==
    /\ Upgraded
    /\ cart \notin TrackedKeys
    /\ user # NoUser /\ known.mode \in {"LIVE", "TEST"}
    /\ Cardinality(Open) < MAX_OPEN_QUEUE_ENTRIES

Captured == [NoEntry EXCEPT !.state = "LOCAL_PENDING", !.user = user,
                !.mode = known.mode, !.session = known.session, !.due = TRUE]

SubmitEnds(answer) ==
    /\ CASE answer = "ok" -> cart' = 0 /\ UNCHANGED entry
         [] answer = "error" /\ CanQueue -> cart' = 0 /\ Put(cur[Till], Captured)
         [] OTHER -> UNCHANGED <<cart, entry>>
    /\ Finishes(Till)
    /\ UNCHANGED <<known, basket>>

(* The waiter gives up what is in the cart.                                *)
ClearsCart ==
    /\ pc[Till] = "idle" /\ cart # 0
    /\ cart' = 0
    /\ UNCHANGED <<storeVars, localVars, known, basket, serverVars, worldVars, faults, net>>

----------------------------------------------------------------------------
(* Requests and answers.                                                   *)

Ends(p, answer) == IF p = Till THEN SubmitEnds(answer) ELSE SendEnds(p, answer)

Receives(p) ==
    /\ pc[p] = "sending"
    /\ \E r \in net :
          /\ r.from = p /\ r.stage = "answered"
          /\ Ends(p, r.answer)
          /\ net' = net \ {r}
    /\ UNCHANGED <<serverVars, worldVars, faults>>

(* The caller hears nothing for 15 s; the request is lost or still on its  *)
(* way.                                                                    *)
Orphaned(r) == [r EXCEPT !.from = Nobody]

TimesOut(p) ==
    /\ pc[p] = "sending"
    /\ \E r \in net :
          /\ r.from = p
          /\ Ends(p, "error")
          /\ net' \in {net \ {r}} \union
                      (IF r.stage = "answered" THEN {} ELSE {(net \ {r}) \union {Orphaned(r)}})
    /\ UNCHANGED <<serverVars, worldVars, faults>>

Answered(r, a) ==
    net' = (net \ {r}) \union
           (IF r.from = Nobody THEN {} ELSE {[r EXCEPT !.stage = "answered", !.answer = a]})

(* resolveIdempotentOrder: the same user, event and content.               *)
Resolves(r) ==
    IF orders[r.key][1].user = r.user /\ orders[r.key][1].refund = r.refund
    THEN "ok" ELSE "mismatch"

(* The check before the transaction.                                       *)
ServerChecks(r) ==
    /\ r.stage = "sent"
    /\ IF r.user = NoUser THEN Answered(r, "reject")
       ELSE IF orders[r.key] # <<>> THEN Answered(r, Resolves(r))
       ELSE net' = (net \ {r}) \union {[r EXCEPT !.stage = "checked"]}
    /\ UNCHANGED <<storeVars, localVars, pageVars, serverVars, worldVars, faults>>

(* The transaction refuses an event that is not running, a session of the  *)
(* other mode, and a captured session that is not the active one.          *)
ContextRejects(r) ==
    \/ mode = "NONE"
    \/ active[r.user] # NoSession /\ active[r.user].mode # mode
    \/ r.session # NoSession /\ r.session # active[r.user]

Booked(r) == [user |-> r.user, mode |-> mode, session |-> active[r.user],
              refund |-> r.refund, captured |-> r.captured]

(* Mutant: no unique index on the key.                                     *)
KeyIsFree_Always(k) == TRUE

(* The order is stored, or the unique key is taken and the order behind it *)
(* is the answer; rejections for products, options and prices come at any  *)
(* time.                                                                   *)
KeyIsFree(k) == orders[k] = <<>>

ServerCommits(r) ==
    /\ r.stage = "checked"
    /\ \/ Answered(r, "reject") /\ UNCHANGED orders
       \/ /\ ~ContextRejects(r) /\ KeyIsFree(r.key)
          /\ orders' = [orders EXCEPT ![r.key] = Append(@, Booked(r))]
          /\ Answered(r, "ok")
       \/ /\ ~ContextRejects(r) /\ ~KeyIsFree(r.key)
          /\ Answered(r, Resolves(r)) /\ UNCHANGED orders
    /\ UNCHANGED <<storeVars, localVars, pageVars, audited, worldVars, faults>>

(* 5xx, 408, 425 or 429.                                                   *)
ServerFails(r) ==
    /\ r.stage \in {"sent", "checked"}
    /\ Answered(r, "error")
    /\ UNCHANGED <<storeVars, localVars, pageVars, serverVars, worldVars, faults>>

----------------------------------------------------------------------------
(* The world around.                                                       *)

LogsIn(u) ==
    /\ u # user /\ Fault
    /\ user' = u
    /\ UNCHANGED <<storeVars, localVars, pageVars, serverVars, mode, active, net>>

EventChanges(m) ==
    /\ m # mode /\ Fault
    /\ mode' = m
    /\ UNCHANGED <<storeVars, localVars, pageVars, serverVars, user, active, net>>

SessionOpens(u) ==
    /\ active[u] = NoSession /\ mode # "NONE" /\ Fault
    /\ active' = [active EXCEPT ![u] = [mode |-> mode, nr |-> faults + 1]]
    /\ UNCHANGED <<storeVars, localVars, pageVars, serverVars, user, mode, net>>

SessionCloses(u) ==
    /\ active[u] # NoSession
    /\ active' = [active EXCEPT ![u] = NoSession]
    /\ UNCHANGED <<storeVars, localVars, pageVars, serverVars, user, mode, faults, net>>

(* A tab dies with its loop; the main one with the panel and the cart.     *)
Crash(t) ==
    LET gone == IF t = MainTab THEN {t, Hand, Till} ELSE {t}
    IN  /\ Fault
        /\ \E p \in gone : pc[p] # "idle"
        /\ pc' = [p \in Procs |-> IF p \in gone THEN "idle" ELSE pc[p]]
        /\ copy' = [p \in Procs |-> IF p \in gone THEN [k \in Keys |-> NoEntry] ELSE copy[p]]
        /\ cur' = [p \in Procs |-> IF p \in gone THEN 0 ELSE cur[p]]
        /\ seen' = [p \in Procs |-> IF p \in gone THEN NoContext ELSE seen[p]]
        /\ cart' = IF t = MainTab THEN 0 ELSE cart
        /\ known' = IF t = MainTab THEN NoContext ELSE known
        /\ net' = {r \in net : r.from \notin gone} \union
                  {Orphaned(r) : r \in {x \in net : x.from \in gone /\ x.stage # "answered"}}
        /\ UNCHANGED <<entry, basket, serverVars, user, mode, active>>

Next ==
    \/ Upgrade
    \/ \E k \in Keys : BecomesDue(k) \/ Submits(k) \/ RetryStarts(k) \/ Adopt(k) \/ DiscardStarts(k)
    \/ \E t \in Tabs : SyncStarts(t) \/ SyncFails(t) \/ SyncReads(t) \/ SyncStep(t) \/ Crash(t)
    \/ RetryChecks \/ HandFails \/ DiscardLooksUp \/ DiscardIsAudited \/ DiscardDeletes
    \/ ClearsCart
    \/ \E p \in Procs : Receives(p) \/ TimesOut(p)
    \/ \E r \in net : ServerChecks(r) \/ ServerCommits(r) \/ ServerFails(r)
    \/ \E u \in Users \union {NoUser} : LogsIn(u)
    \/ \E m \in Modes : EventChanges(m)
    \/ \E u \in Users : SessionOpens(u) \/ SessionCloses(u)

Spec == Init /\ [][Next]_vars

(* Every open tab starts a run each minute and works it off, the server    *)
(* answers or the 15 s pass, and waiting times end.  The context can be    *)
(* fetched again and again: the till is back online now and then.          *)
Fairness ==
    /\ WF_vars(Upgrade)
    /\ \A k \in Keys : WF_vars(BecomesDue(k))
    /\ \A t \in Tabs : /\ WF_vars(SyncStarts(t)) /\ WF_vars(SyncStep(t))
                       /\ SF_vars(SyncReads(t))
    /\ \A p \in Procs : WF_vars(Receives(p) \/ TimesOut(p))
    /\ WF_vars(\E r \in net : ServerChecks(r) \/ ServerCommits(r) \/ ServerFails(r))

FairSpec == Spec /\ Fairness

----------------------------------------------------------------------------
(* Properties.                                                             *)

TypeOK ==
    /\ entry \in [Keys -> Entry]
    /\ pc \in [Procs -> {"idle", "context", "loop", "sending", "retry", "lookup", "discard", "delete"}]
    /\ copy \in [Procs -> [Keys -> Entry]]
    /\ cur \in [Procs -> Keys \union {0}]
    /\ basket \in [Keys -> Keys \union {0}] /\ cart \in Keys \union {0}
    /\ user \in Users \union {NoUser} /\ mode \in Modes
    /\ active \in [Users -> Sessions \union {NoSession}]
    /\ \A r \in net : r.key \in Keys /\ r.from \in Procs \union {Nobody}
    /\ \A k \in Keys : \A i \in 1..Len(orders[k]) : orders[k][i] \in Order
    /\ audited \subseteq Keys

(* What the queue shows as confirmed by the server is one order there, of  *)
(* the user who captured it or of an administrator who looked it up        *)
(* (attemptSendEntry, discardOfflineOrder, resolveIdempotentOrder).        *)
ConfirmedIsOrdered ==
    \A k \in Keys : entry[k].state = "CONFIRMED" => Len(orders[k]) = 1

(* A basket that was held back is never just gone: it ends as an order or, *)
(* after the audit log was written, as discarded, and an order is for good *)
(* (the order of the steps in discardOfflineOrder, the clean-up, recovery  *)
(* after a crash).                                                         *)
fate == [k \in Keys |-> IF orders[k] # <<>> THEN "ordered"
                        ELSE IF entry[k].state # "ABSENT" THEN "held"
                        ELSE IF k \in audited THEN "discarded" ELSE "new"]

Fate == INSTANCE BasketFate WITH Keys <- Keys, fate <- fate
FateOfBaskets == Fate!Spec

(* An entry that waits or is being sent gets an outcome while the user who *)
(* captured it is logged in: no crash, timeout or second tab leaves it     *)
(* SENDING or lets it try for ever (recoverInterruptedSendingRecords,      *)
(* MAX_AUTOMATIC_ATTEMPTS).                                                *)
EntryIsSettled ==
    \A k \in Keys :
        entry[k].state \in {"LOCAL_PENDING", "SENDING"} ~>
            (entry[k].state \notin {"LOCAL_PENDING", "SENDING"} \/ user # entry[k].user)

(* "Ein Eintrag haelt den Kontext seiner Entstehung fest und wird          *)
(* ausschliesslich in genau diesem Kontext gesendet": what comes through   *)
(* the queue is booked for the user, in the mode and in the session it was *)
(* captured in.  The loop compares with a context and a user it has read   *)
(* before; the payload names neither, and the token is the one of now.     *)
BookedAsCaptured ==
    \A k \in Keys : \A i \in 1..Len(orders[k]) :
        LET o == orders[k][i]
        IN  o.captured # NoContext =>
                /\ o.user = o.captured.user /\ o.mode = o.captured.mode
                /\ o.captured.session # NoSession => o.session = o.captured.session

(* "Aus CONFLICT und FAILED fuehrt kein Weg ohne Bedienerentscheidung      *)
(* heraus": only the panel takes an entry out of these states.             *)
OnlyOperatorReopens ==
    [][\A k \in Keys : entry[k].state \in {"CONFLICT", "FAILED"} /\ entry'[k] # entry[k]
                          => pc[Hand] # "idle" \/ entry[k].legacy]_vars

(* What was discarded is not sent: "dass diese Vormerkung nicht an den     *)
(* Server geht".                                                           *)
DiscardedIsNotSent ==
    [][\A k \in audited : entry[k].state = "ABSENT" /\ pc[Hand] # "delete"
                             => entry'[k].state = "ABSENT"]_vars

(* A cart becomes one order, however often the button is pressed after     *)
(* "Sie wird nicht offline vorgemerkt, damit der Bestand nicht ueberbucht  *)
(* wird".                                                                  *)
BasketOrderedOnce ==
    \A j, k \in Keys : (basket[j] # 0 /\ basket[j] = basket[k]
                        /\ orders[j] # <<>> /\ orders[k] # <<>>) => j = k

(* An entry whose order the server has already made is confirmed when it   *)
(* is sent again: "der Kurzschluss findet sie ueber idempotencyKey und     *)
(* gibt sie zurueck, Antwort 2xx".                                         *)
ResendConfirms ==
    \A r \in net : (r.stage = "answered" /\ r.from \in Tabs /\ orders[r.key] # <<>>
                       /\ orders[r.key][1].user = r.user)
                     => r.answer # "mismatch"

=============================================================================
