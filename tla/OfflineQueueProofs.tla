------------------------- MODULE OfflineQueueProofs -------------------------
(* Proofs about the offline queue of a till: type correctness with the     *)
(* bound on the attempts, that a confirmed entry has its order, and that   *)
(* the queue implements the fate a basket is promised (BasketFate).        *)
EXTENDS OfflineQueue, TLAPS, FiniteSetTheorems, WellFoundedInduction

Contexts == [user : Users \union {NoUser}, mode : Modes,
             session : Sessions \union {NoSession}]

Answers == {"ok", "reject", "mismatch", "error"}

Requests == [key : Keys, user : Users \union {NoUser},
             session : Sessions \union {NoSession}, refund : BOOLEAN,
             from : Procs \union {Nobody}, stage : {"sent", "checked", "answered"},
             answer : Answers \union {"none"}, captured : Contexts]

(* Whoever sends an entry of the store; the checkout sends a basket.       *)
Senders == Tabs \union {Hand}

Sends(p, k) == pc[p] = "sending" /\ cur[p] = k

(* An entry that waits has an attempt left, not counting those that n      *)
(* crashes have interrupted.                                               *)
Fits(e, n) ==
    /\ e \in Entry
    /\ e.attempt <= MAX_AUTOMATIC_ATTEMPTS + n
    /\ e.state = "LOCAL_PENDING" => e.attempt < MAX_AUTOMATIC_ATTEMPTS + n

(* The store: an entry in SENDING that nobody sends was interrupted by a   *)
(* crash, and only such a one is found older than 90 s.                    *)
Interrupted(e, n) == e.attempt < MAX_AUTOMATIC_ATTEMPTS + n

StoreOK(k) ==
    /\ Fits(entry[k], faults)
    /\ entry[k].state = "SENDING" =>
          /\ (\A p \in Senders : ~Sends(p, k)) => Interrupted(entry[k], faults)
          /\ entry[k].due => \A p \in Senders : ~Sends(p, k)

StoreInv == entry \in [Keys -> Entry] /\ \A k \in Keys : StoreOK(k)

(* A tab has read what waits; the one it sends it has marked.              *)
Labels == {"idle", "context", "loop", "sending", "retry", "lookup", "discard", "delete"}

LocalOK(p) ==
    /\ pc[p] \in {"sending", "retry", "lookup", "discard", "delete"} => cur[p] \in Keys
    /\ pc[p] = "loop" => Remaining(p) # {}
    /\ \A k \in Keys :
          /\ Fits(copy[p][k], faults)
          /\ p \in Tabs => \/ copy[p][k].state \in {"ABSENT", "LOCAL_PENDING"}
                           \/ Sends(p, k)

LocalTypes == /\ pc \in [Procs -> Labels]
              /\ copy \in [Procs -> [Keys -> Entry]]
              /\ cur \in [Procs -> Keys \union {0}]

LocalInv == LocalTypes /\ \A p \in Procs : LocalOK(p)

PageInv ==
    /\ known \in Contexts
    /\ basket \in [Keys -> Keys \union {0}] /\ cart \in Keys \union {0}

WorldInv ==
    /\ user \in Users \union {NoUser} /\ mode \in Modes
    /\ active \in [Users -> Sessions \union {NoSession}]
    /\ faults \in 0..MaxFaults

ServerInv ==
    /\ orders \in [Keys -> Seq(Order)]
    /\ \A k \in Keys : orders[k] = <<>> \/ Len(orders[k]) = 1
    /\ audited \subseteq Keys

(* A request belongs to the one who still waits for it, and "ok" is only   *)
(* said of an order.                                                       *)
RequestOK(r) ==
    /\ r.from \in Procs => Sends(r.from, r.key)
    /\ r.stage = "checked" => r.user \in Users
    /\ r.stage = "answered" => r.answer \in Answers
    /\ r.answer = "ok" => orders[r.key] # <<>>

NetInv ==
    /\ net \subseteq Requests
    /\ \A r \in net : RequestOK(r)
    /\ \A r, s \in net : r.from = s.from /\ r.from \in Procs => r = s

ConfirmedInv == \A k \in Keys : entry[k].state = "CONFIRMED" => orders[k] # <<>>

(* The panel discards an entry that is there or has been ordered, and      *)
(* deletes it only after the audit log was written.                        *)
DiscardInv ==
    /\ pc[Hand] \in {"lookup", "discard"} =>
          entry[cur[Hand]].state # "ABSENT" \/ orders[cur[Hand]] # <<>>
    /\ pc[Hand] = "delete" => cur[Hand] \in audited

IInv == /\ StoreInv /\ LocalInv /\ PageInv /\ WorldInv
        /\ ServerInv /\ NetInv /\ ConfirmedInv /\ DiscardInv

(***************************************************************************)
(* Keys, entries and contexts.                                             *)
(***************************************************************************)

LEMMA KeysAreNat == Keys \subseteq Nat
BY KeysAreNumbers, FS_CardinalityType

LEMMA LeastKey ==
    ASSUME NEW S \in SUBSET Keys, S # {}
    PROVE  \E k \in S : \A j \in S : k <= j
<1> DEFINE R == {ss \in Nat \X Nat : ss[1] < ss[2]}
<1>1. IsWellFoundedOn(R, Nat)
    BY NatLessThanWellFounded, Zenon DEF OpToRel
<1>2. S \subseteq Nat
    BY KeysAreNat
<1> HIDE DEF R
<1>3. PICK k \in S : \A j \in S : <<j, k>> \notin R
    BY <1>1, <1>2, WFMin
<1>4. ASSUME NEW j \in S PROVE k <= j
    <2>1. j \in Nat /\ k \in Nat /\ <<j, k>> \in Nat \X Nat
        BY <1>2
    <2>2. ~(j < k)
        BY <1>3, <2>1 DEF R
    <2> QED
        BY <2>1, <2>2
<1> QED
    BY <1>4

LEMMA NextDueRemains ==
    ASSUME NEW t \in Procs, Remaining(t) # {}
    PROVE  NextDue(t) \in Keys /\ NextDue(t) \in Remaining(t)
BY LeastKey DEF NextDue, Remaining

LEMMA RoomForOne ==
    ASSUME NEW n \in Nat
    PROVE  0 <= MAX_AUTOMATIC_ATTEMPTS + n /\ 0 < MAX_AUTOMATIC_ATTEMPTS + n
<1>1. MAX_AUTOMATIC_ATTEMPTS \in Nat /\ MAX_AUTOMATIC_ATTEMPTS # 0
    BY BoundsAreNumbers
<1> QED
    BY <1>1

LEMMA NoEntryFits == ASSUME NEW n \in Nat PROVE Fits(NoEntry, n)
<1>1. 0 \in 0..(MAX_AUTOMATIC_ATTEMPTS + MaxFaults)
    BY BoundsAreNumbers
<1>2. NoEntry \in Entry
    BY <1>1 DEF NoEntry, Entry, Modes
<1> QED
    BY <1>2, BoundsAreNumbers DEF Fits, NoEntry

(* A fault only leaves more room for attempts.                             *)
LEMMA FitsGrows ==
    ASSUME NEW e, NEW m \in Nat, NEW n \in Nat, m <= n, Fits(e, m)
    PROVE  Fits(e, n)
<1>1. e.attempt \in Nat
    BY BoundsAreNumbers DEF Fits, Entry
<1> QED
    BY <1>1, BoundsAreNumbers DEF Fits

(* A change of state leaves the attempts as they are.                      *)
LEMMA StateChanged ==
    ASSUME NEW e, NEW n \in Nat, Fits(e, n),
           NEW s \in {"CONFIRMED", "CONFLICT", "FAILED"}
    PROVE  Fits([e EXCEPT !.state = s], n) /\ [e EXCEPT !.state = s].state = s
<1>1. e \in Entry
    BY DEF Fits
<1>2. [e EXCEPT !.state = s] \in Entry
    BY <1>1 DEF Entry, OpenStates
<1> QED
    BY <1>1, <1>2 DEF Fits, Entry

(* An entry that waits can be marked and sent.                             *)
LEMMA Marked ==
    ASSUME NEW e \in Entry, NEW n \in 0..MaxFaults, e.attempt < MAX_AUTOMATIC_ATTEMPTS + n
    PROVE  LET s == [e EXCEPT !.state = "SENDING", !.attempt = @ + 1, !.due = FALSE]
           IN  Fits(s, n) /\ s.state = "SENDING" /\ ~s.due
<1> DEFINE s == [e EXCEPT !.state = "SENDING", !.attempt = @ + 1, !.due = FALSE]
<1>1. e.attempt \in Nat /\ n \in Nat /\ n <= MaxFaults
    BY BoundsAreNumbers DEF Entry
<1>2. s.attempt = e.attempt + 1 /\ s.state = "SENDING" /\ s.due = FALSE
    BY DEF Entry
<1>3. e.attempt + 1 \in 0..(MAX_AUTOMATIC_ATTEMPTS + MaxFaults)
      /\ e.attempt + 1 <= MAX_AUTOMATIC_ATTEMPTS + n
    BY <1>1, BoundsAreNumbers
<1>4. s \in Entry
    BY <1>3 DEF Entry, OpenStates
<1> QED
    BY <1>2, <1>3, <1>4 DEF Fits

(* Whatever the answer: the entry stays, it is not left in SENDING, and    *)
(* only "ok" confirms it.                                                  *)
LEMMA SettledFits ==
    ASSUME NEW e, NEW n \in Nat, Fits(e, n), NEW a \in Answers
    PROVE  /\ Fits(Settled(e, a), n)
           /\ Settled(e, a).state \notin {"SENDING", "ABSENT"}
           /\ Settled(e, a).state = "CONFIRMED" => a = "ok"
<1>1. CASE a \in {"ok", "reject", "mismatch"}
    BY <1>1, StateChanged DEF Settled
<1>2. CASE a = "error" /\ e.attempt >= MAX_AUTOMATIC_ATTEMPTS
    BY <1>2, StateChanged DEF Settled
<1>3. CASE a = "error" /\ ~(e.attempt >= MAX_AUTOMATIC_ATTEMPTS)
    <2> DEFINE w == [e EXCEPT !.state = "LOCAL_PENDING", !.due = FALSE]
    <2>1. e \in Entry /\ e.attempt \in Nat
        BY BoundsAreNumbers DEF Fits, Entry
    <2>2. w \in Entry
        BY <2>1 DEF Entry, OpenStates
    <2>3. w.attempt = e.attempt /\ w.state = "LOCAL_PENDING"
        BY <2>1 DEF Entry
    <2>4. Settled(e, a) = w
        BY <1>3 DEF Settled
    <2>5. e.attempt < MAX_AUTOMATIC_ATTEMPTS + n /\ e.attempt <= MAX_AUTOMATIC_ATTEMPTS + n
        BY <1>3, <2>1, BoundsAreNumbers
    <2> QED
        BY <2>2, <2>3, <2>4, <2>5 DEF Fits
<1> QED
    BY <1>1, <1>2, <1>3 DEF Answers

LEMMA CheckResults ==
    ASSUME NEW e \in Entry, NEW ctx
    PROVE  /\ Check(e, ctx) \in {"OK", "CONFLICT", "WAIT_FOR_USER"}
           /\ Check(e, ctx) = "OK" => CapturedIn(e) \in Contexts
BY DEF Check, CapturedIn, Contexts, Entry, Modes

(***************************************************************************)
(* What a step leaves of each part of the invariant.                       *)
(***************************************************************************)

(* Entries that are written are not left in SENDING.                       *)
LEMMA StoreStep ==
    ASSUME StoreInv, faults \in Nat, faults' \in Nat, faults <= faults',
           entry' \in [Keys -> Entry],
           \A k \in Keys :
              \/ entry'[k] = entry[k] /\ \A p \in Senders : Sends(p, k)' <=> Sends(p, k)
              \/ Fits(entry'[k], faults') /\ entry'[k].state # "SENDING"
    PROVE  StoreInv'
<1> SUFFICES ASSUME NEW k \in Keys PROVE StoreOK(k)'
    BY DEF StoreInv
<1>1. CASE entry'[k] = entry[k] /\ \A p \in Senders : Sends(p, k)' <=> Sends(p, k)
    <2>1. StoreOK(k) /\ entry[k] \in Entry
        BY DEF StoreInv
    <2>2. Fits(entry[k], faults')
        BY <2>1, FitsGrows DEF StoreOK
    <2>3. entry[k].attempt \in Nat
        BY <2>1, BoundsAreNumbers DEF Entry
    <2>4. Interrupted(entry[k], faults) => Interrupted(entry[k], faults')
        BY <2>3, BoundsAreNumbers DEF Interrupted
    <2> QED
        BY <1>1, <2>1, <2>2, <2>4 DEF StoreOK
<1>2. CASE Fits(entry'[k], faults') /\ entry'[k].state # "SENDING"
    BY <1>2 DEF StoreOK
<1> QED
    BY <1>1, <1>2

(* One process moves, the others stay where they are.                      *)
LEMMA LocalStep ==
    ASSUME LocalInv, faults \in Nat, faults' \in Nat, faults <= faults',
           NEW S \in SUBSET Procs, LocalTypes',
           \A q \in Procs \ S : pc'[q] = pc[q] /\ copy'[q] = copy[q] /\ cur'[q] = cur[q],
           \A p \in S : LocalOK(p)'
    PROVE  LocalInv'
<1> SUFFICES ASSUME NEW q \in Procs \ S PROVE LocalOK(q)'
    BY DEF LocalInv
<1>1. LocalOK(q)
    BY DEF LocalInv
<1>2. \A k \in Keys : Fits(copy[q][k], faults')
    BY <1>1, FitsGrows DEF LocalOK
<1> QED
    BY <1>1, <1>2 DEF LocalOK, Remaining, Sends

LEMMA LocalStepOne ==
    ASSUME LocalInv, faults \in Nat, faults' \in Nat, faults <= faults',
           NEW p \in Procs, LocalTypes', LocalOK(p)',
           \A q \in Procs \ {p} : pc'[q] = pc[q] /\ copy'[q] = copy[q] /\ cur'[q] = cur[q]
    PROVE  LocalInv'
<1>1. {p} \in SUBSET Procs /\ \A q \in {p} : LocalOK(q)'
    OBVIOUS
<1> QED
    BY <1>1, LocalStep

(* Requests may vanish as long as the others' senders wait.                *)
LEMMA NetShrinks ==
    ASSUME NetInv, net' \subseteq net,
           \A r \in net' : r.from \in Procs => Sends(r.from, r.key)',
           \A k \in Keys : orders[k] # <<>> => orders'[k] # <<>>
    PROVE  NetInv'
<1>1. \A r \in net' : RequestOK(r)'
    <2> SUFFICES ASSUME NEW r \in net' PROVE RequestOK(r)'
        OBVIOUS
    <2>1. RequestOK(r) /\ r.key \in Keys
        BY DEF NetInv, Requests
    <2> QED
        BY <2>1 DEF RequestOK
<1> QED
    BY <1>1 DEF NetInv

(* A request takes the place of another one of the same sender or of       *)
(* nobody's.                                                               *)
LEMMA NetReplaced ==
    ASSUME NetInv, NEW r \in net, NEW s \in Requests,
           net' \subseteq (net \ {r}) \union {s},
           s.from \in {r.from, Nobody}, RequestOK(s)',
           \A x \in net \ {r} : x.from \in Procs => Sends(x.from, x.key)',
           \A k \in Keys : orders[k] # <<>> => orders'[k] # <<>>
    PROVE  NetInv'
<1>1. \A x \in net' : RequestOK(x)'
    <2> SUFFICES ASSUME NEW x \in net \ {r} PROVE RequestOK(x)'
        OBVIOUS
    <2>1. RequestOK(x) /\ x.key \in Keys
        BY DEF NetInv, Requests
    <2> QED
        BY <2>1 DEF RequestOK
<1>2. net' \subseteq Requests
    BY DEF NetInv
<1>3. Nobody \notin Procs
    BY MainTabIsATab DEF Procs
<1>4. \A x, y \in net' : x.from = y.from /\ x.from \in Procs => x = y
    BY <1>3 DEF NetInv
<1> QED
    BY <1>1, <1>2, <1>4 DEF NetInv

LEMMA FinishesLocal ==
    ASSUME NEW p \in Procs, LocalInv, WorldInv, faults' = faults, Finishes(p)
    PROVE  /\ LocalInv' /\ pc'[p] = "idle"
           /\ \A q \in Procs \ {p} : pc'[q] = pc[q] /\ cur'[q] = cur[q]
<1>1. faults \in Nat /\ faults' \in Nat /\ faults <= faults'
    BY BoundsAreNumbers DEF WorldInv
<1>2. Fits(NoEntry, faults') /\ NoEntry \in Entry
    BY <1>1, NoEntryFits DEF Fits
<1>3. LocalTypes'
    BY <1>2 DEF LocalInv, LocalTypes, Finishes, Labels
<1>4. pc'[p] = "idle" /\ copy'[p] = [k \in Keys |-> NoEntry]
    BY DEF LocalInv, LocalTypes, Finishes
<1>5. LocalOK(p)'
    BY <1>2, <1>4 DEF LocalOK, NoEntry
<1>6. \A q \in Procs \ {p} : pc'[q] = pc[q] /\ copy'[q] = copy[q] /\ cur'[q] = cur[q]
    BY DEF LocalInv, LocalTypes, Finishes
<1>7. LocalInv'
    BY <1>1, <1>3, <1>5, <1>6, LocalStepOne
<1> QED
    BY <1>4, <1>6, <1>7

LEMMA GoesOnLocal ==
    ASSUME NEW p \in Procs, NEW k \in Keys, LocalInv, WorldInv, faults' = faults,
           GoesOn(p, k), \A j \in Keys \ {k} : ~Sends(p, j)
    PROVE  /\ LocalInv' /\ pc'[p] \in {"idle", "loop"}
           /\ \A q \in Procs \ {p} : pc'[q] = pc[q] /\ cur'[q] = cur[q]
<1>1. CASE Remaining(p) \subseteq {k}
    BY <1>1, FinishesLocal DEF GoesOn
<1>2. CASE ~(Remaining(p) \subseteq {k})
    <2>1. faults \in Nat /\ faults' \in Nat /\ faults <= faults'
        BY BoundsAreNumbers DEF WorldInv
    <2>2. Fits(NoEntry, faults') /\ NoEntry \in Entry
        BY <2>1, NoEntryFits DEF Fits
    <2>3. pc' = [pc EXCEPT ![p] = "loop"] /\ copy' = [copy EXCEPT ![p][k] = NoEntry]
          /\ cur' = [cur EXCEPT ![p] = 0]
        BY <1>2 DEF GoesOn
    <2>4. LocalTypes'
        BY <2>2, <2>3 DEF LocalInv, LocalTypes, Labels
    <2>5. pc'[p] = "loop" /\ copy'[p] = [copy[p] EXCEPT ![k] = NoEntry]
        BY <2>3 DEF LocalInv, LocalTypes
    <2>6. copy'[p][k] = NoEntry /\ \A j \in Keys \ {k} : copy'[p][j] = copy[p][j]
        BY <2>5 DEF LocalInv, LocalTypes
    <2>7. LocalOK(p)'
        <3>1. LocalOK(p)
            BY DEF LocalInv
        <3>2. (Remaining(p) # {})'
            BY <1>2, <2>6 DEF Remaining
        <3>3. ASSUME NEW j \in Keys
              PROVE  /\ Fits(copy'[p][j], faults')
                     /\ p \in Tabs => copy'[p][j].state \in {"ABSENT", "LOCAL_PENDING"}
            BY <2>2, <2>6, <3>1 DEF LocalOK, NoEntry
        <3> QED
            BY <2>5, <3>2, <3>3 DEF LocalOK
    <2>8. \A q \in Procs \ {p} : pc'[q] = pc[q] /\ copy'[q] = copy[q] /\ cur'[q] = cur[q]
        BY <2>3 DEF LocalInv, LocalTypes
    <2>9. LocalInv'
        BY <2>1, <2>4, <2>7, <2>8, LocalStepOne
    <2> QED
        BY <2>5, <2>8, <2>9
<1> QED
    BY <1>1, <1>2

(* A sender that was not sending another entry leaves the one it worked    *)
(* on: nobody else is concerned.                                           *)
LEMMA StoreLeft ==
    ASSUME NEW p \in Procs, NEW k \in Keys, NEW e, StoreInv, WorldInv, faults' = faults,
           Put(k, e), Fits(e, faults), e.state # "SENDING",
           \A j \in Keys \ {k} : ~Sends(p, j), pc'[p] # "sending",
           \A q \in Procs \ {p} : pc'[q] = pc[q] /\ cur'[q] = cur[q]
    PROVE  StoreInv'
<1>1. faults \in Nat /\ faults' \in Nat /\ faults <= faults'
    BY BoundsAreNumbers DEF WorldInv
<1>2. entry' \in [Keys -> Entry] /\ entry'[k] = e
      /\ \A j \in Keys \ {k} : entry'[j] = entry[j]
    BY DEF StoreInv, Put, Fits
<1>3. ASSUME NEW j \in Keys \ {k}, NEW q \in Senders PROVE Sends(q, j)' <=> Sends(q, j)
    BY DEF Sends, Senders, Procs
<1> QED
    BY <1>1, <1>2, <1>3, StoreStep

(* The outcome of sending an entry.                                        *)
LEMMA SendEndsStep ==
    ASSUME IInv, NEW p \in Senders, pc[p] = "sending", NEW a \in Answers,
           a = "ok" => orders[cur[p]] # <<>>, SendEnds(p, a),
           UNCHANGED <<serverVars, worldVars, faults>>
    PROVE  /\ StoreInv' /\ LocalInv' /\ PageInv' /\ ConfirmedInv' /\ DiscardInv'
           /\ \A q \in Procs \ {p} : pc'[q] = pc[q] /\ cur'[q] = cur[q]
<1> DEFINE k == cur[p]
           e == Settled(copy[p][k], a)
<1>1. p \in Procs /\ k \in Keys /\ LocalInv /\ WorldInv /\ faults' = faults
      /\ StoreInv /\ orders' = orders /\ audited' = audited
    BY DEF IInv, LocalInv, LocalOK, Senders, Procs, serverVars
<1>2. faults \in Nat
    BY <1>1, BoundsAreNumbers DEF WorldInv
<1>3. Fits(copy[p][k], faults)
    BY <1>1 DEF LocalInv, LocalOK
<1>4. /\ Fits(e, faults) /\ e.state \notin {"SENDING", "ABSENT"}
      /\ e.state = "CONFIRMED" => a = "ok"
    BY <1>2, <1>3, SettledFits
<1>5. Put(k, e) /\ GoesOn(p, k) /\ UNCHANGED pageVars
    BY DEF SendEnds
<1> HIDE DEF e
<1>6. \A j \in Keys \ {k} : ~Sends(p, j)
    BY DEF Sends
<1> HIDE DEF k
<1>7. /\ LocalInv' /\ pc'[p] \in {"idle", "loop"}
      /\ \A q \in Procs \ {p} : pc'[q] = pc[q] /\ cur'[q] = cur[q]
    BY <1>1, <1>5, <1>6, GoesOnLocal
<1>8. StoreInv'
    BY <1>1, <1>4, <1>5, <1>6, <1>7, StoreLeft
<1>9. PageInv'
    BY <1>5 DEF IInv, PageInv, pageVars
<1>10. entry'[k] = e /\ \A j \in Keys \ {k} : entry'[j] = entry[j]
    BY <1>1, <1>5 DEF Put, StoreInv
<1>11. ConfirmedInv'
    BY <1>1, <1>4, <1>10 DEF IInv, ConfirmedInv, k
<1>12. DiscardInv'
    <2>1. Hand \in Procs /\ DiscardInv
        BY DEF Procs, IInv
    <2>2. CASE p = Hand
        BY <1>7, <2>2 DEF DiscardInv
    <2>3. CASE p # Hand
        <3>1. pc'[Hand] = pc[Hand] /\ cur'[Hand] = cur[Hand]
            BY <1>7, <2>1, <2>3
        <3>2. pc[Hand] \in {"lookup", "discard"} => cur[Hand] \in Keys
            BY <1>1, <2>1 DEF LocalInv, LocalOK
        <3> QED
            BY <1>1, <1>4, <1>10, <2>1, <3>1, <3>2 DEF DiscardInv
    <2> QED
        BY <2>2, <2>3
<1> QED
    BY <1>7, <1>8, <1>9, <1>11, <1>12

(* An entry is marked and posted.                                          *)
LEMMA AttemptsStep ==
    ASSUME IInv, NEW p \in Senders, NEW k \in Keys, pc[p] \in {"loop", "retry"},
           NEW e \in Entry, e.attempt < MAX_AUTOMATIC_ATTEMPTS + faults,
           CapturedIn(e) \in Contexts, Attempts(p, k, e),
           UNCHANGED <<pageVars, serverVars, worldVars, faults>>
    PROVE  IInv'
<1> DEFINE s == [e EXCEPT !.state = "SENDING", !.attempt = @ + 1, !.due = FALSE]
<1>0. PICK r : r = Request(p, k, CapturedIn(e), FALSE)
    OBVIOUS
<1>1. p \in Procs /\ LocalInv /\ WorldInv /\ faults' = faults
      /\ StoreInv /\ orders' = orders /\ audited' = audited
    BY DEF IInv, Senders, Procs, serverVars
<1>2. faults \in Nat /\ faults \in 0..MaxFaults /\ faults <= faults'
    BY <1>1, BoundsAreNumbers DEF WorldInv
<1>3. Fits(s, faults) /\ s.state = "SENDING" /\ ~s.due /\ s \in Entry
    BY <1>2, Marked DEF Fits
<1>4. /\ entry' = [entry EXCEPT ![k] = s]
      /\ copy' = [copy EXCEPT ![p][k] = s] /\ cur' = [cur EXCEPT ![p] = k]
      /\ pc' = [pc EXCEPT ![p] = "sending"] /\ net' = net \union {r}
    BY <1>0 DEF Attempts, Put
<1> HIDE DEF s
<1>5. /\ LocalTypes' /\ pc'[p] = "sending" /\ cur'[p] = k /\ copy'[p][k] = s
      /\ \A j \in Keys \ {k} : copy'[p][j] = copy[p][j]
      /\ \A q \in Procs \ {p} : pc'[q] = pc[q] /\ copy'[q] = copy[q] /\ cur'[q] = cur[q]
    <2>1. copy' \in [Procs -> [Keys -> Entry]]
        BY <1>1, <1>3, <1>4 DEF LocalInv, LocalTypes
    <2>2. copy'[p] = [copy[p] EXCEPT ![k] = s]
        BY <1>1, <1>4 DEF LocalInv, LocalTypes
    <2>3. copy'[p][k] = s /\ \A j \in Keys \ {k} : copy'[p][j] = copy[p][j]
        BY <1>1, <2>2 DEF LocalInv, LocalTypes
    <2>4. pc' \in [Procs -> Labels] /\ cur' \in [Procs -> Keys \union {0}]
        BY <1>1, <1>4 DEF LocalInv, LocalTypes, Labels
    <2> QED
        BY <1>1, <1>4, <2>1, <2>3, <2>4 DEF LocalInv, LocalTypes
<1>6. LocalInv'
    <2>1. LocalOK(p)
        BY <1>1 DEF LocalInv
    <2>2. LocalOK(p)'
        BY <1>1, <1>3, <1>5, <2>1 DEF LocalOK, Sends
    <2> QED
        BY <1>1, <1>2, <1>5, <2>2, LocalStepOne
<1>7. StoreInv'
    <2>1. entry' \in [Keys -> Entry] /\ entry'[k] = s
          /\ \A j \in Keys \ {k} : entry'[j] = entry[j]
        BY <1>1, <1>3, <1>4 DEF StoreInv
    <2>2. StoreOK(k)'
        BY <1>1, <1>3, <1>5, <2>1 DEF StoreOK, Sends
    <2>3. ASSUME NEW j \in Keys \ {k} PROVE StoreOK(j)'
        <3>1. StoreOK(j)
            BY <1>1 DEF StoreInv
        <3>2. \A q \in Senders : Sends(q, j)' <=> Sends(q, j)
            BY <1>5 DEF Sends, Senders, Procs
        <3> QED
            BY <1>1, <2>1, <3>1, <3>2 DEF StoreOK
    <2> QED
        BY <2>1, <2>2, <2>3 DEF StoreInv
<1>8. NetInv'
    <2>1. /\ r.key = k /\ r.from = p /\ r.stage = "sent" /\ r.answer = "none"
          /\ r \in Requests
        BY <1>0, <1>1 DEF Request, Requests, IInv, WorldInv, Contexts
    <2>2. \A x \in net : x.from # p
        BY <1>1 DEF IInv, NetInv, RequestOK, Sends
    <2>3. ASSUME NEW x \in net PROVE RequestOK(x)'
        BY <1>1, <1>5, <2>2 DEF IInv, NetInv, RequestOK, Sends
    <2>4. RequestOK(r)'
        BY <1>5, <2>1 DEF RequestOK, Sends
    <2> QED
        BY <1>4, <2>1, <2>2, <2>3, <2>4 DEF IInv, NetInv
<1>9. \A j \in Keys : entry'[j] = entry[j] \/ entry'[j].state = "SENDING"
    BY <1>1, <1>3, <1>4 DEF StoreInv
<1>10. ConfirmedInv'
    BY <1>1, <1>9 DEF IInv, ConfirmedInv
<1>11. DiscardInv'
    <2>1. Hand \in Procs /\ DiscardInv
        BY DEF Procs, IInv
    <2>2. CASE p = Hand
        BY <1>5, <2>2 DEF DiscardInv
    <2>3. CASE p # Hand
        <3>1. pc'[Hand] = pc[Hand] /\ cur'[Hand] = cur[Hand]
            BY <1>5, <2>1, <2>3
        <3>2. pc[Hand] \in {"lookup", "discard"} => cur[Hand] \in Keys
            BY <1>1, <2>1 DEF LocalInv, LocalOK
        <3> QED
            BY <1>1, <1>9, <2>1, <3>1, <3>2 DEF DiscardInv
    <2> QED
        BY <2>2, <2>3
<1>12. PageInv' /\ WorldInv' /\ ServerInv'
    BY DEF IInv, PageInv, WorldInv, ServerInv, pageVars, worldVars, serverVars
<1> QED
    BY <1>6, <1>7, <1>8, <1>10, <1>11, <1>12 DEF IInv

LEMMA StoreLocalKept ==
    ASSUME StoreInv, LocalInv, faults \in Nat, faults' \in Nat, faults <= faults',
           UNCHANGED <<entry, localVars>>
    PROVE  StoreInv' /\ LocalInv'
<1>1. entry' = entry /\ pc' = pc /\ copy' = copy /\ cur' = cur
    BY DEF localVars
<1>2. \A k \in Keys, p \in Senders : Sends(p, k)' <=> Sends(p, k)
    BY <1>1 DEF Sends
<1>3. StoreInv'
    BY <1>1, <1>2, StoreStep DEF StoreInv
<1>4. {} \in SUBSET Procs /\ LocalTypes'
    BY <1>1 DEF LocalInv, LocalTypes
<1>5. LocalInv'
    BY <1>1, <1>4, LocalStep
<1> QED
    BY <1>3, <1>5

LEMMA FaultFacts ==
    ASSUME WorldInv, Fault \/ UNCHANGED faults
    PROVE  /\ faults \in Nat /\ faults' \in Nat /\ faults <= faults'
           /\ faults' \in 0..MaxFaults
<1>1. faults \in 0..MaxFaults /\ MaxFaults \in Nat
    BY BoundsAreNumbers DEF WorldInv
<1> QED
    BY <1>1 DEF Fault

LEMMA SerialFaults ==
    ASSUME WorldInv PROVE faults \in Nat /\ faults <= faults
BY BoundsAreNumbers DEF WorldInv

(* What only the world does.                                               *)
LEMMA WorldStep ==
    ASSUME IInv, Fault \/ UNCHANGED faults, WorldInv',
           UNCHANGED <<storeVars, localVars, pageVars, serverVars, net>>
    PROVE  IInv'
<1>1. StoreInv' /\ LocalInv'
    BY FaultFacts, StoreLocalKept DEF IInv, storeVars
<1>2. entry' = entry /\ pc' = pc /\ cur' = cur /\ net' = net /\ orders' = orders
      /\ audited' = audited
    BY DEF storeVars, localVars, serverVars
<1>3. PageInv' /\ ServerInv' /\ ConfirmedInv' /\ DiscardInv'
    BY <1>2 DEF IInv, PageInv, ServerInv, ConfirmedInv, DiscardInv, pageVars
<1>4. NetInv'
    BY <1>2 DEF IInv, NetInv, RequestOK, Sends
<1> QED
    BY <1>1, <1>3, <1>4 DEF IInv

LEMMA LogsInStep ==
    ASSUME IInv, NEW u \in Users \union {NoUser}, LogsIn(u)
    PROVE  IInv'
<1>1. Fault /\ user' = u /\ UNCHANGED <<storeVars, localVars, pageVars, serverVars, net>>
      /\ mode' = mode /\ active' = active
    BY DEF LogsIn
<1>2. WorldInv'
    BY <1>1, FaultFacts DEF IInv, WorldInv
<1> QED
    BY <1>1, <1>2, WorldStep

LEMMA EventChangesStep ==
    ASSUME IInv, NEW m \in Modes, EventChanges(m)
    PROVE  IInv'
<1>1. Fault /\ mode' = m /\ UNCHANGED <<storeVars, localVars, pageVars, serverVars, net>>
      /\ user' = user /\ active' = active
    BY DEF EventChanges
<1>2. WorldInv'
    BY <1>1, FaultFacts DEF IInv, WorldInv
<1> QED
    BY <1>1, <1>2, WorldStep

LEMMA SessionOpensStep ==
    ASSUME IInv, NEW u \in Users, SessionOpens(u)
    PROVE  IInv'
<1>1. Fault /\ UNCHANGED <<storeVars, localVars, pageVars, serverVars, net>>
      /\ user' = user /\ mode' = mode
      /\ active' = [active EXCEPT ![u] = [mode |-> mode, nr |-> faults + 1]]
    BY DEF SessionOpens
<1>2. mode \in {"LIVE", "TEST"} /\ faults + 1 \in 1..MaxFaults
    BY BoundsAreNumbers DEF SessionOpens, Fault, IInv, WorldInv, Modes
<1>3. [mode |-> mode, nr |-> faults + 1] \in Sessions
    BY <1>2 DEF Sessions
<1>4. WorldInv'
    BY <1>1, <1>3, FaultFacts DEF IInv, WorldInv
<1> QED
    BY <1>1, <1>4, WorldStep

LEMMA SessionClosesStep ==
    ASSUME IInv, NEW u \in Users, SessionCloses(u)
    PROVE  IInv'
<1>1. UNCHANGED faults /\ UNCHANGED <<storeVars, localVars, pageVars, serverVars, net>>
      /\ user' = user /\ mode' = mode /\ active' = [active EXCEPT ![u] = NoSession]
    BY DEF SessionCloses
<1>2. WorldInv'
    BY <1>1 DEF IInv, WorldInv
<1> QED
    BY <1>1, <1>2, WorldStep

(* What only the server does with a request.                               *)
LEMMA ServerStep ==
    ASSUME IInv, NEW r \in net, NEW s \in Requests,
           net' \subseteq (net \ {r}) \union {s}, s.from \in {r.from, Nobody},
           RequestOK(s)', ServerInv', \A k \in Keys : orders[k] # <<>> => orders'[k] # <<>>,
           UNCHANGED <<storeVars, localVars, pageVars, audited, worldVars, faults>>
    PROVE  IInv'
<1>1. entry' = entry /\ pc' = pc /\ cur' = cur /\ audited' = audited /\ faults' = faults
    BY DEF storeVars, localVars
<1>2. StoreInv' /\ LocalInv'
    BY <1>1, SerialFaults, StoreLocalKept DEF IInv, storeVars
<1>3. NetInv'
    <2>1. \A x \in net \ {r} : x.from \in Procs => Sends(x.from, x.key)'
        BY <1>1 DEF IInv, NetInv, RequestOK, Sends
    <2> QED
        BY <2>1, NetReplaced DEF IInv
<1>4. PageInv' /\ WorldInv'
    BY <1>1 DEF IInv, PageInv, WorldInv, pageVars, worldVars
<1>5. ConfirmedInv'
    BY <1>1 DEF IInv, ConfirmedInv
<1>6. DiscardInv'
    <2>1. pc[Hand] \in {"lookup", "discard"} => cur[Hand] \in Keys
        BY DEF IInv, LocalInv, LocalOK, Procs
    <2> QED
        BY <1>1, <2>1 DEF IInv, DiscardInv
<1> QED
    BY <1>2, <1>3, <1>4, <1>5, <1>6 DEF IInv

LEMMA AnsweredStep ==
    ASSUME IInv, NEW r \in net, NEW a \in Answers, Answered(r, a),
           a = "ok" => orders'[r.key] # <<>>, ServerInv',
           \A k \in Keys : orders[k] # <<>> => orders'[k] # <<>>,
           UNCHANGED <<storeVars, localVars, pageVars, audited, worldVars, faults>>
    PROVE  IInv'
<1>1. PICK s : s = [r EXCEPT !.stage = "answered", !.answer = a]
    OBVIOUS
<1>2. r \in Requests /\ RequestOK(r)
    BY DEF IInv, NetInv
<1>3. /\ s \in Requests /\ s.from = r.from /\ s.key = r.key /\ s.stage = "answered"
      /\ s.answer = a
    BY <1>1, <1>2 DEF Requests
<1>4. net' \subseteq (net \ {r}) \union {s}
    BY <1>1 DEF Answered
<1>5. RequestOK(s)'
    BY <1>2, <1>3 DEF RequestOK, Sends, localVars
<1> QED
    BY <1>3, <1>4, <1>5, ServerStep

LEMMA ResolvesAnswers ==
    ASSUME NEW r PROVE Resolves(r) \in Answers
BY DEF Resolves, Answers

LEMMA ServerChecksStep ==
    ASSUME IInv, NEW r \in net, ServerChecks(r)
    PROVE  IInv'
<1>1. ServerInv' /\ orders' = orders /\ audited' = audited
      /\ UNCHANGED <<storeVars, localVars, pageVars, audited, worldVars, faults>>
    BY DEF ServerChecks, IInv, ServerInv, serverVars
<1>2. CASE r.user = NoUser
    <2>1. Answered(r, "reject") /\ "reject" \in Answers
        BY <1>2 DEF ServerChecks, Answers
    <2> QED
        BY <1>1, <2>1, AnsweredStep
<1>3. CASE r.user # NoUser /\ orders[r.key] # <<>>
    <2>1. Answered(r, Resolves(r)) /\ Resolves(r) \in Answers
        BY <1>3, ResolvesAnswers DEF ServerChecks
    <2> QED
        BY <1>1, <1>3, <2>1, AnsweredStep
<1>4. CASE r.user # NoUser /\ orders[r.key] = <<>>
    <2>1. PICK s : s = [r EXCEPT !.stage = "checked"]
        OBVIOUS
    <2>2. r \in Requests /\ RequestOK(r)
        BY DEF IInv, NetInv
    <2>3. /\ s \in Requests /\ s.from = r.from /\ s.key = r.key /\ s.stage = "checked"
          /\ s.answer = r.answer /\ s.user = r.user /\ r.user \in Users
        BY <1>4, <2>1, <2>2 DEF Requests
    <2>4. net' \subseteq (net \ {r}) \union {s}
        BY <1>4, <2>1 DEF ServerChecks
    <2>5. RequestOK(s)'
        BY <1>1, <2>2, <2>3 DEF RequestOK, Sends, localVars
    <2> QED
        BY <1>1, <2>3, <2>4, <2>5, ServerStep
<1> QED
    BY <1>2, <1>3, <1>4

LEMMA ServerFailsStep ==
    ASSUME IInv, NEW r \in net, ServerFails(r)
    PROVE  IInv'
<1>1. ServerInv' /\ orders' = orders /\ Answered(r, "error") /\ "error" \in Answers
      /\ UNCHANGED <<storeVars, localVars, pageVars, audited, worldVars, faults>>
    BY DEF ServerFails, IInv, ServerInv, serverVars, Answers
<1> QED
    BY <1>1, AnsweredStep

(* An order is made for a key without one.                                 *)
LEMMA ServerCommitsStep ==
    ASSUME IInv, NEW r \in net, ServerCommits(r)
    PROVE  IInv'
<1>1. UNCHANGED <<storeVars, localVars, pageVars, audited, worldVars, faults>>
      /\ audited' = audited
    BY DEF ServerCommits
<1>2. r \in Requests /\ r.user \in Users /\ r.key \in Keys
    BY DEF ServerCommits, IInv, NetInv, RequestOK, Requests
<1>3. CASE Answered(r, "reject") /\ UNCHANGED orders
    <2>1. ServerInv' /\ orders' = orders /\ "reject" \in Answers
        BY <1>1, <1>3 DEF IInv, ServerInv, Answers
    <2> QED
        BY <1>1, <1>3, <2>1, AnsweredStep
<1>4. CASE /\ ~ContextRejects(r) /\ KeyIsFree(r.key)
           /\ orders' = [orders EXCEPT ![r.key] = Append(@, Booked(r))]
           /\ Answered(r, "ok")
    <2>1. Booked(r) \in Order
        BY <1>2, <1>4 DEF Booked, Order, Requests, Contexts, ContextRejects, IInv, WorldInv, Modes
    <2>2. orders[r.key] = <<>> /\ orders \in [Keys -> Seq(Order)]
        BY <1>4 DEF KeyIsFree, IInv, ServerInv
    <2>3. Append(orders[r.key], Booked(r)) \in Seq(Order)
          /\ Len(Append(orders[r.key], Booked(r))) = 1
          /\ Append(orders[r.key], Booked(r)) # <<>>
        BY <2>1, <2>2
    <2>4. /\ orders' \in [Keys -> Seq(Order)]
          /\ \A k \in Keys : orders'[k] = orders[k] \/ Len(orders'[k]) = 1
          /\ orders'[r.key] # <<>>
          /\ \A k \in Keys : orders[k] # <<>> => orders'[k] # <<>>
        BY <1>2, <1>4, <2>2, <2>3
    <2>5. ServerInv'
        BY <1>1, <2>4 DEF IInv, ServerInv
    <2>6. "ok" \in Answers
        BY DEF Answers
    <2> QED
        BY <1>1, <1>4, <2>4, <2>5, <2>6, AnsweredStep
<1>5. CASE /\ ~ContextRejects(r) /\ ~KeyIsFree(r.key)
           /\ Answered(r, Resolves(r)) /\ UNCHANGED orders
    <2>1. ServerInv' /\ orders' = orders /\ orders[r.key] # <<>> /\ Resolves(r) \in Answers
        BY <1>1, <1>5, ResolvesAnswers DEF IInv, ServerInv, KeyIsFree
    <2> QED
        BY <1>1, <1>5, <2>1, AnsweredStep
<1> QED
    BY <1>3, <1>4, <1>5 DEF ServerCommits

(* The request of a caller that stops waiting is gone or nobody's.         *)
LEMMA RequestLeaves ==
    ASSUME IInv, NEW p \in Procs, NEW r \in net, r.from = p, orders' = orders,
           net' \subseteq (net \ {r}) \union {Orphaned(r)},
           \A q \in Procs \ {p} : pc'[q] = pc[q] /\ cur'[q] = cur[q]
    PROVE  NetInv'
<1>1. r \in Requests /\ RequestOK(r)
    BY DEF IInv, NetInv
<1>2. PICK s : s = Orphaned(r)
    OBVIOUS
<1>3. /\ s \in Requests /\ s.from = Nobody /\ s.key = r.key /\ s.stage = r.stage
      /\ s.answer = r.answer /\ s.user = r.user
    BY <1>1, <1>2 DEF Orphaned, Requests
<1>4. Nobody \notin Procs
    BY MainTabIsATab DEF Procs
<1>5. RequestOK(s)'
    BY <1>1, <1>3, <1>4 DEF RequestOK
<1>6. \A x \in net \ {r} : x.from \in Procs => Sends(x.from, x.key)'
    <2> SUFFICES ASSUME NEW x \in net \ {r}, x.from \in Procs
                 PROVE  Sends(x.from, x.key)'
        OBVIOUS
    <2>1. x.from # p
        BY DEF IInv, NetInv
    <2>2. Sends(x.from, x.key)
        BY DEF IInv, NetInv, RequestOK
    <2> QED
        BY <2>1, <2>2 DEF Sends
<1> QED
    BY <1>2, <1>3, <1>5, <1>6, NetReplaced DEF IInv

LEMMA NetKept ==
    ASSUME IInv, net' = net, orders' = orders,
           \A p \in Procs, k \in Keys : Sends(p, k) => Sends(p, k)'
    PROVE  NetInv'
<1>1. \A r \in net' : r.from \in Procs => Sends(r.from, r.key)'
    BY DEF IInv, NetInv, RequestOK, Requests
<1> QED
    BY <1>1, NetShrinks DEF IInv

(* One process moves, before and after without a request.                  *)
LEMMA NobodySends ==
    ASSUME NEW p \in Procs, pc[p] # "sending", pc'[p] # "sending",
           \A q \in Procs \ {p} : pc'[q] = pc[q] /\ cur'[q] = cur[q]
    PROVE  \A q \in Procs, k \in Keys : Sends(q, k)' <=> Sends(q, k)
BY DEF Sends

LEMMA SendersAreProcs == Senders \subseteq Procs /\ Hand \in Senders /\ Till \notin Senders
BY MainTabIsATab DEF Senders, Procs

LEMMA DiscardIdle ==
    ASSUME pc'[Hand] \notin {"lookup", "discard", "delete"}
    PROVE  DiscardInv'
BY DEF DiscardInv

LEMMA DiscardKept ==
    ASSUME IInv, pc'[Hand] = pc[Hand], cur'[Hand] = cur[Hand],
           orders' = orders, audited' = audited,
           \A k \in Keys : \/ entry'[k].state # "ABSENT" \/ entry[k].state = "ABSENT"
                           \/ orders[k] # <<>>
    PROVE  DiscardInv'
<1>1. pc[Hand] \in {"lookup", "discard"} => cur[Hand] \in Keys
    BY SendersAreProcs DEF IInv, LocalInv, LocalOK
<1> QED
    BY <1>1 DEF IInv, DiscardInv

(* What the checkout holds back waits with all its attempts.               *)
LEMMA CapturedFits ==
    ASSUME IInv
    PROVE  Fits(Captured, faults) /\ Captured.state = "LOCAL_PENDING"
<1>1. faults \in Nat /\ NoEntry \in Entry /\ NoEntry.attempt = 0
    BY SerialFaults, NoEntryFits DEF IInv, Fits, NoEntry
<1>2. Captured \in Entry
    BY <1>1 DEF Captured, Entry, OpenStates, IInv, WorldInv, PageInv, Contexts
<1>3. Captured.state = "LOCAL_PENDING" /\ Captured.attempt = 0
    BY <1>1 DEF Captured, Entry
<1> QED
    BY <1>1, <1>2, <1>3, BoundsAreNumbers DEF Fits

LEMMA SubmitEndsStep ==
    ASSUME IInv, pc[Till] = "sending", NEW a \in Answers, SubmitEnds(a),
           UNCHANGED <<serverVars, worldVars, faults>>
    PROVE  /\ StoreInv' /\ LocalInv' /\ PageInv' /\ ConfirmedInv' /\ DiscardInv'
           /\ \A q \in Procs \ {Till} : pc'[q] = pc[q] /\ cur'[q] = cur[q]
<1>1. /\ Till \in Procs /\ LocalInv /\ WorldInv /\ faults' = faults
      /\ StoreInv /\ orders' = orders /\ audited' = audited /\ Finishes(Till)
      /\ cur[Till] \in Keys
    BY DEF IInv, LocalInv, LocalOK, Procs, serverVars, SubmitEnds
<1>2. /\ LocalInv' /\ \A q \in Procs \ {Till} : pc'[q] = pc[q] /\ cur'[q] = cur[q]
    BY <1>1, FinishesLocal
<1>3. \A q \in Senders, k \in Keys : Sends(q, k)' <=> Sends(q, k)
    BY <1>2, SendersAreProcs DEF Sends
<1>4. entry' = entry \/ Put(cur[Till], Captured)
    BY DEF SubmitEnds
<1>5. PICK e : e = Captured
    OBVIOUS
<1>6. Fits(e, faults) /\ e.state = "LOCAL_PENDING" /\ e \in Entry
    BY <1>5, CapturedFits DEF Fits
<1>7. entry' \in [Keys -> Entry] /\ \A k \in Keys : entry'[k] = entry[k] \/ entry'[k] = e
    BY <1>1, <1>4, <1>5, <1>6 DEF Put, StoreInv
<1>8. StoreInv'
    BY <1>1, <1>3, <1>6, <1>7, SerialFaults, StoreStep
<1>9. PageInv'
    BY DEF IInv, PageInv, SubmitEnds
<1>10. ConfirmedInv'
    BY <1>1, <1>6, <1>7 DEF IInv, ConfirmedInv
<1>11. DiscardInv'
    <2>1. pc'[Hand] = pc[Hand] /\ cur'[Hand] = cur[Hand]
        BY <1>2, SendersAreProcs
    <2> QED
        BY <1>1, <1>6, <1>7, <2>1, DiscardKept
<1> QED
    BY <1>2, <1>8, <1>9, <1>10, <1>11

(* A request is over for the one who sent it, with an answer or without.   *)
LEMMA EndsStep ==
    ASSUME IInv, NEW p \in Procs, pc[p] = "sending", NEW a \in Answers, Ends(p, a),
           NEW r \in net, r.from = p, a = "ok" => orders[r.key] # <<>>,
           net' \subseteq (net \ {r}) \union {Orphaned(r)},
           UNCHANGED <<serverVars, worldVars, faults>>
    PROVE  IInv'
<1>1. cur[p] = r.key /\ orders' = orders
    BY DEF IInv, NetInv, RequestOK, Sends, serverVars
<1>2. /\ StoreInv' /\ LocalInv' /\ PageInv' /\ ConfirmedInv' /\ DiscardInv'
      /\ \A q \in Procs \ {p} : pc'[q] = pc[q] /\ cur'[q] = cur[q]
    <2>1. CASE p = Till
        BY <2>1, SubmitEndsStep DEF Ends
    <2>2. CASE p # Till
        <3>1. p \in Senders /\ SendEnds(p, a)
            BY <2>2 DEF Ends, Senders, Procs
        <3> QED
            BY <1>1, <3>1, SendEndsStep
    <2> QED
        BY <2>1, <2>2
<1>3. NetInv'
    BY <1>1, <1>2, RequestLeaves
<1>4. WorldInv' /\ ServerInv'
    BY DEF IInv, WorldInv, ServerInv, worldVars, serverVars
<1> QED
    BY <1>2, <1>3, <1>4 DEF IInv

LEMMA ReceivesStep ==
    ASSUME IInv, NEW p \in Procs, Receives(p)
    PROVE  IInv'
<1>1. PICK r \in net : /\ r.from = p /\ r.stage = "answered" /\ Ends(p, r.answer)
                       /\ net' = net \ {r}
    BY DEF Receives
<1>2. r.answer \in Answers /\ (r.answer = "ok" => orders[r.key] # <<>>)
    BY <1>1 DEF IInv, NetInv, RequestOK
<1>3. pc[p] = "sending" /\ UNCHANGED <<serverVars, worldVars, faults>>
    BY DEF Receives
<1> QED
    BY <1>1, <1>2, <1>3, EndsStep

LEMMA TimesOutStep ==
    ASSUME IInv, NEW p \in Procs, TimesOut(p)
    PROVE  IInv'
<1>1. PICK r \in net :
            /\ r.from = p /\ Ends(p, "error")
            /\ net' \in {net \ {r}} \union
                  (IF r.stage = "answered" THEN {} ELSE {(net \ {r}) \union {Orphaned(r)}})
    BY DEF TimesOut
<1>2. net' \subseteq (net \ {r}) \union {Orphaned(r)}
    BY <1>1
<1>3. pc[p] = "sending" /\ UNCHANGED <<serverVars, worldVars, faults>> /\ "error" \in Answers
    BY DEF TimesOut, Answers
<1> QED
    BY <1>1, <1>2, <1>3, EndsStep

(* The entry a dead tab was sending stays in SENDING with an attempt used  *)
(* up; its requests go on.                                                 *)
LEMMA CrashStep ==
    ASSUME IInv, NEW t \in Tabs, Crash(t)
    PROVE  IInv'
<1> DEFINE gone == IF t = MainTab THEN {t, Hand, Till} ELSE {t}
<1>1. /\ faults \in Nat /\ faults' = faults + 1 /\ faults' \in 0..MaxFaults
      /\ entry' = entry /\ orders' = orders /\ audited' = audited
    BY FaultFacts DEF IInv, Crash, Fault, serverVars
<1>2. gone \in SUBSET Procs
    BY DEF Procs
<1>3. Fits(NoEntry, faults') /\ NoEntry \in Entry
    BY <1>1, NoEntryFits DEF Fits
<1>4. /\ pc' = [p \in Procs |-> IF p \in gone THEN "idle" ELSE pc[p]]
      /\ copy' = [p \in Procs |-> IF p \in gone THEN [k \in Keys |-> NoEntry] ELSE copy[p]]
      /\ cur' = [p \in Procs |-> IF p \in gone THEN 0 ELSE cur[p]]
      /\ net' = {r \in net : r.from \notin gone} \union
                {Orphaned(r) : r \in {x \in net : x.from \in gone /\ x.stage # "answered"}}
    BY DEF Crash
<1> HIDE DEF gone
<1>5. LocalInv'
    <2>1. LocalTypes'
        BY <1>3, <1>4 DEF IInv, LocalInv, LocalTypes, Labels
    <2>2. ASSUME NEW p \in gone PROVE LocalOK(p)'
        BY <1>2, <1>3, <1>4 DEF LocalOK, NoEntry
    <2>3. \A q \in Procs \ gone : pc'[q] = pc[q] /\ copy'[q] = copy[q] /\ cur'[q] = cur[q]
        BY <1>4
    <2>4. faults \in Nat /\ faults' \in Nat /\ faults <= faults'
        BY <1>1
    <2> QED
        BY <1>2, <2>1, <2>2, <2>3, <2>4, LocalStep DEF IInv
<1>6. \A p \in Procs, k \in Keys : Sends(p, k)' <=> Sends(p, k) /\ p \notin gone
    BY <1>4 DEF Sends
<1>7. StoreInv'
    <2> SUFFICES ASSUME NEW k \in Keys PROVE StoreOK(k)'
        BY <1>1 DEF IInv, StoreInv
    <2>1. StoreOK(k) /\ entry[k] \in Entry
        BY DEF IInv, StoreInv
    <2>2. entry[k].attempt \in Nat
        BY <2>1, BoundsAreNumbers DEF Entry
    <2>3. Fits(entry[k], faults')
        BY <1>1, <2>1, FitsGrows DEF StoreOK
    <2>4. Interrupted(entry[k], faults')
        BY <1>1, <2>1, <2>2, BoundsAreNumbers DEF StoreOK, Fits, Interrupted
    <2> QED
        BY <1>1, <1>6, <2>1, <2>3, <2>4, SendersAreProcs DEF StoreOK
<1>8. NetInv'
    <2>1. Nobody \notin Procs
        BY MainTabIsATab DEF Procs
    <2>2. ASSUME NEW r \in net'
          PROVE  /\ r \in Requests /\ RequestOK(r)'
                 /\ r.from \in Procs => r \in net
        <3>1. CASE r \in net /\ r.from \notin gone
            BY <1>1, <1>6, <3>1 DEF IInv, NetInv, RequestOK, Requests
        <3>2. CASE \E x \in net : r = Orphaned(x)
            <4>1. PICK x \in net : r = Orphaned(x)
                BY <3>2
            <4>2. x \in Requests /\ RequestOK(x)
                BY DEF IInv, NetInv
            <4>3. /\ r \in Requests /\ r.from = Nobody /\ r.key = x.key /\ r.stage = x.stage
                  /\ r.answer = x.answer /\ r.user = x.user
                BY <4>1, <4>2 DEF Orphaned, Requests
            <4> QED
                BY <1>1, <2>1, <4>2, <4>3 DEF RequestOK
        <3> QED
            BY <1>4, <3>1, <3>2
    <2> QED
        BY <2>2 DEF IInv, NetInv
<1>9. DiscardInv'
    <2>1. CASE Hand \in gone
        BY <1>4, <2>1, SendersAreProcs DEF DiscardInv
    <2>2. CASE Hand \notin gone
        <3>1. pc'[Hand] = pc[Hand] /\ cur'[Hand] = cur[Hand]
            BY <1>4, <2>2, SendersAreProcs
        <3> QED
            BY <1>1, <3>1, DiscardKept
    <2> QED
        BY <2>1, <2>2
<1>10. PageInv' /\ WorldInv'
    <2>1. NoContext \in Contexts
        BY DEF NoContext, Contexts, Modes
    <2> QED
        BY <1>1, <2>1 DEF IInv, PageInv, WorldInv, Crash
<1>11. ServerInv' /\ ConfirmedInv'
    BY <1>1 DEF IInv, ServerInv, ConfirmedInv
<1> QED
    BY <1>5, <1>7, <1>8, <1>9, <1>10, <1>11 DEF IInv

(* The store alone, or the page alone.                                     *)
LEMMA StoreOnlyStep ==
    ASSUME IInv, UNCHANGED <<localVars, pageVars, serverVars, worldVars, net>>,
           StoreInv', Fault \/ UNCHANGED faults,
           \A k \in Keys : entry'[k].state = "CONFIRMED" => orders[k] # <<>>,
           \A k \in Keys : \/ entry'[k].state # "ABSENT" \/ entry[k].state = "ABSENT"
                           \/ orders[k] # <<>>
    PROVE  IInv'
<1>1. /\ pc' = pc /\ copy' = copy /\ cur' = cur /\ orders' = orders /\ audited' = audited
      /\ net' = net
    BY DEF localVars, serverVars
<1>2. LocalInv'
    <2>1. {} \in SUBSET Procs /\ LocalTypes'
        BY <1>1 DEF IInv, LocalInv, LocalTypes
    <2> QED
        BY <1>1, <2>1, FaultFacts, LocalStep DEF IInv
<1>3. NetInv'
    BY <1>1, NetKept DEF Sends
<1>4. DiscardInv'
    BY <1>1, DiscardKept
<1>5. PageInv' /\ WorldInv' /\ ServerInv' /\ ConfirmedInv'
    BY <1>1, FaultFacts DEF IInv, PageInv, WorldInv, ServerInv, ConfirmedInv,
                            pageVars, worldVars
<1> QED
    BY <1>2, <1>3, <1>4, <1>5 DEF IInv

LEMMA UpgradeStep ==
    ASSUME IInv, Upgrade
    PROVE  IInv'
<1> DEFINE e == [NoEntry EXCEPT !.state = "CONFLICT", !.mode = "UNKNOWN", !.legacy = TRUE]
<1>1. faults \in Nat /\ NoEntry \in Entry /\ NoEntry.attempt = 0
    BY SerialFaults, NoEntryFits DEF IInv, Fits, NoEntry
<1>2. e \in Entry
    BY <1>1 DEF Entry, OpenStates
<1>3. e.state = "CONFLICT" /\ e.attempt = 0
    BY <1>1 DEF Entry
<1>4. Fits(e, faults)
    BY <1>1, <1>2, <1>3, BoundsAreNumbers DEF Fits
<1> HIDE DEF e
<1>5. /\ entry' = [k \in Keys |-> IF entry[k].state = "V1" THEN e ELSE entry[k]]
      /\ UNCHANGED <<localVars, pageVars, serverVars, worldVars, net>> /\ faults' = faults
    BY DEF Upgrade, e
<1>6. /\ entry' \in [Keys -> Entry]
      /\ \A k \in Keys : entry'[k] = entry[k] \/ entry'[k] = e
    BY <1>2, <1>5 DEF IInv, StoreInv
<1>7. \A p \in Senders, k \in Keys : Sends(p, k)' <=> Sends(p, k)
    BY <1>5 DEF Sends, localVars
<1>8. StoreInv'
    BY <1>1, <1>3, <1>4, <1>5, <1>6, <1>7, SerialFaults, StoreStep DEF IInv
<1> QED
    BY <1>3, <1>5, <1>6, <1>8, StoreOnlyStep DEF IInv, ConfirmedInv

LEMMA BecomesDueStep ==
    ASSUME IInv, NEW k \in Keys, BecomesDue(k)
    PROVE  IInv'
<1> DEFINE e == [entry[k] EXCEPT !.due = TRUE]
<1>1. StoreOK(k) /\ entry[k] \in Entry
    BY DEF IInv, StoreInv
<1>2. e \in Entry
    BY <1>1 DEF Entry
<1>3. e.state = entry[k].state /\ e.attempt = entry[k].attempt
    BY <1>1 DEF Entry
<1>4. PICK x : x = e
    OBVIOUS
<1>5. /\ entry' = [entry EXCEPT ![k] = x] /\ faults' = faults
      /\ UNCHANGED <<localVars, pageVars, serverVars, worldVars, net>>
      /\ entry[k].state = "SENDING" => ~\E p \in Procs : Sends(p, k)
    BY <1>4 DEF BecomesDue, Put, Sends
<1> HIDE DEF e
<1>6. entry' \in [Keys -> Entry] /\ entry'[k] = x
      /\ \A j \in Keys \ {k} : entry'[j] = entry[j]
    BY <1>2, <1>4, <1>5 DEF IInv, StoreInv
<1>7. \A p \in Senders, j \in Keys : Sends(p, j)' <=> Sends(p, j)
    BY <1>5 DEF Sends, localVars
<1>8. StoreOK(k)'
    <2>1. Fits(x, faults)
        BY <1>1, <1>2, <1>3, <1>4 DEF StoreOK, Fits
    <2>2. x.state = "SENDING" => Interrupted(x, faults) /\ \A p \in Senders : ~Sends(p, k)
        BY <1>1, <1>3, <1>4, <1>5, SendersAreProcs DEF StoreOK, Interrupted
    <2> QED
        BY <1>5, <1>6, <1>7, <2>1, <2>2 DEF StoreOK
<1>9. ASSUME NEW j \in Keys \ {k} PROVE StoreOK(j)'
    <2>1. StoreOK(j)
        BY DEF IInv, StoreInv
    <2> QED
        BY <1>5, <1>6, <1>7, <2>1 DEF StoreOK
<1>10. StoreInv'
    BY <1>6, <1>8, <1>9 DEF StoreInv
<1>11. \A j \in Keys : entry'[j].state = entry[j].state
    BY <1>3, <1>4, <1>6
<1> QED
    BY <1>5, <1>10, <1>11, StoreOnlyStep DEF IInv, ConfirmedInv

LEMMA AdoptStep ==
    ASSUME IInv, NEW k \in Keys, Adopt(k)
    PROVE  IInv'
<1>1. PICK e : e = Adopted(entry[k])
    OBVIOUS
<1>2. /\ entry' = [entry EXCEPT ![k] = e] /\ Fault
      /\ UNCHANGED <<localVars, pageVars, serverVars, worldVars, net>>
    BY <1>1 DEF Adopt, Put
<1>3. entry[k] \in Entry /\ faults' \in Nat /\ faults \in Nat /\ faults <= faults'
    BY <1>2, FaultFacts DEF IInv, StoreInv
<1>4. 0 \in 0..(MAX_AUTOMATIC_ATTEMPTS + MaxFaults)
    BY BoundsAreNumbers
<1>5. e \in Entry
    BY <1>1, <1>3, <1>4 DEF Adopted, Entry, OpenStates, IInv, WorldInv, PageInv, Contexts
<1>6. e.state = "LOCAL_PENDING" /\ e.attempt = 0
    BY <1>1, <1>3 DEF Adopted, Entry
<1>7. Fits(e, faults')
    <2>1. 0 <= MAX_AUTOMATIC_ATTEMPTS + faults' /\ 0 < MAX_AUTOMATIC_ATTEMPTS + faults'
        BY <1>3, RoomForOne
    <2> QED
        BY <1>5, <1>6, <2>1 DEF Fits
<1>8. entry' \in [Keys -> Entry] /\ entry'[k] = e
      /\ \A j \in Keys \ {k} : entry'[j] = entry[j]
    BY <1>2, <1>5 DEF IInv, StoreInv
<1>9. \A p \in Senders, j \in Keys : Sends(p, j)' <=> Sends(p, j)
    BY <1>2 DEF Sends, localVars
<1>10. StoreInv'
    BY <1>3, <1>6, <1>7, <1>8, <1>9, StoreStep DEF IInv
<1> QED
    BY <1>2, <1>6, <1>8, <1>10, StoreOnlyStep DEF IInv, ConfirmedInv

(* One process moves without a request; it may write entries that are not  *)
(* left in SENDING, confirmed ones only with their order, and remove only  *)
(* those.                                                                  *)
LEMMA MoveStep ==
    ASSUME IInv, NEW p \in Procs, Fault \/ UNCHANGED faults,
           pc[p] # "sending", pc'[p] # "sending", LocalInv',
           \A q \in Procs \ {p} : pc'[q] = pc[q] /\ cur'[q] = cur[q],
           UNCHANGED <<serverVars, worldVars, net>>, PageInv',
           entry' \in [Keys -> Entry],
           \A k \in Keys :
              \/ entry'[k] = entry[k]
              \/ /\ Fits(entry'[k], faults') /\ entry'[k].state # "SENDING"
                 /\ entry'[k].state = "CONFIRMED" => orders[k] # <<>>
                 /\ entry'[k].state = "ABSENT" => orders[k] # <<>> \/ p = Hand,
           p = Hand => DiscardInv'
    PROVE  IInv'
<1>1. orders' = orders /\ audited' = audited /\ net' = net
    BY DEF serverVars
<1>2. \A q \in Procs, k \in Keys : Sends(q, k)' <=> Sends(q, k)
    BY NobodySends
<1>3. StoreInv'
    BY <1>2, FaultFacts, SendersAreProcs, StoreStep DEF IInv
<1>4. NetInv'
    BY <1>1, <1>2, NetKept
<1>5. ConfirmedInv'
    BY <1>1 DEF IInv, ConfirmedInv
<1>6. DiscardInv'
    <2>1. CASE p # Hand
        <3>1. pc'[Hand] = pc[Hand] /\ cur'[Hand] = cur[Hand]
            BY <2>1, SendersAreProcs
        <3> QED
            BY <1>1, <2>1, <3>1, DiscardKept
    <2> QED
        BY <2>1
<1>7. WorldInv' /\ ServerInv'
    BY <1>1, FaultFacts DEF IInv, WorldInv, ServerInv, worldVars
<1> QED
    BY <1>3, <1>4, <1>5, <1>6, <1>7 DEF IInv

LEMMA SyncStartsStep ==
    ASSUME IInv, NEW t \in Tabs, SyncStarts(t)
    PROVE  IInv'
<1>1. /\ pc[t] = "idle" /\ pc' = [pc EXCEPT ![t] = "context"] /\ faults' = faults
      /\ copy' = copy /\ cur' = cur /\ entry' = Recovered
      /\ UNCHANGED <<pageVars, serverVars, worldVars, net>>
    BY DEF SyncStarts
<1>2. t \in Procs /\ t # Hand /\ faults \in Nat /\ faults <= faults'
    BY <1>1, MainTabIsATab, SerialFaults DEF Procs, IInv
<1>3. pc' \in [Procs -> Labels] /\ pc'[t] = "context"
      /\ \A q \in Procs \ {t} : pc'[q] = pc[q] /\ copy'[q] = copy[q] /\ cur'[q] = cur[q]
    BY <1>1, <1>2 DEF IInv, LocalInv, LocalTypes, Labels
<1>4. LocalInv'
    <2>1. LocalOK(t)'
        BY <1>1, <1>2, <1>3 DEF IInv, LocalInv, LocalOK, Sends
    <2> QED
        BY <1>1, <1>2, <1>3, <2>1, LocalStepOne DEF IInv, LocalInv, LocalTypes
<1>5. ASSUME NEW k \in Keys, entry[k].state = "SENDING", entry[k].due
      PROVE  /\ Fits([entry[k] EXCEPT !.state = "LOCAL_PENDING", !.due = TRUE], faults)
             /\ [entry[k] EXCEPT !.state = "LOCAL_PENDING", !.due = TRUE].state = "LOCAL_PENDING"
    <2> DEFINE e == [entry[k] EXCEPT !.state = "LOCAL_PENDING", !.due = TRUE]
    <2>1. StoreOK(k) /\ entry[k] \in Entry
        BY DEF IInv, StoreInv
    <2>2. Interrupted(entry[k], faults)
        BY <1>5, <2>1 DEF StoreOK
    <2>3. e \in Entry
        BY <2>1 DEF Entry, OpenStates
    <2>4. e.attempt = entry[k].attempt /\ e.state = "LOCAL_PENDING"
        BY <2>1 DEF Entry
    <2> QED
        BY <2>1, <2>2, <2>3, <2>4 DEF StoreOK, Fits, Interrupted
<1>6. \A k \in Keys : \/ entry'[k] = entry[k]
                      \/ Fits(entry'[k], faults) /\ entry'[k].state = "LOCAL_PENDING"
    BY <1>1, <1>5 DEF Recovered
<1>7. entry' \in [Keys -> Entry]
    <2>1. entry' = [k \in Keys |-> entry'[k]]
        BY <1>1 DEF Recovered
    <2>2. \A k \in Keys : entry'[k] \in Entry
        BY <1>6 DEF Fits, IInv, StoreInv
    <2> QED
        BY <2>1, <2>2
<1>8. PageInv'
    BY <1>1 DEF IInv, PageInv, pageVars
<1> QED
    BY <1>1, <1>2, <1>3, <1>4, <1>6, <1>7, <1>8, MoveStep

(* A run that fails, or the panel's, is given up.                          *)
LEMMA GivesUpStep ==
    ASSUME IInv, NEW p \in Procs, pc[p] # "sending", Finishes(p),
           UNCHANGED <<entry, pageVars, serverVars, worldVars, faults, net>>
    PROVE  IInv'
<1>1. /\ LocalInv' /\ pc'[p] = "idle"
      /\ \A q \in Procs \ {p} : pc'[q] = pc[q] /\ cur'[q] = cur[q]
    BY FinishesLocal DEF IInv
<1>2. PageInv'
    BY DEF IInv, PageInv, pageVars
<1>3. p = Hand => DiscardInv'
    BY <1>1, DiscardIdle
<1>4. entry' \in [Keys -> Entry] /\ entry' = entry
    BY DEF IInv, StoreInv
<1> QED
    BY <1>1, <1>2, <1>3, <1>4, MoveStep

LEMMA SyncFailsStep ==
    ASSUME IInv, NEW t \in Tabs, SyncFails(t)
    PROVE  IInv'
BY GivesUpStep DEF SyncFails, Procs

LEMMA HandFailsStep ==
    ASSUME IInv, HandFails
    PROVE  IInv'
BY GivesUpStep DEF HandFails, Procs

LEMMA ClearsCartStep ==
    ASSUME IInv, ClearsCart
    PROVE  IInv'
<1>1. UNCHANGED <<entry, localVars, serverVars, worldVars, faults, net>> /\ PageInv'
    BY DEF ClearsCart, IInv, PageInv, storeVars
<1>2. entry' = entry /\ pc' = pc /\ copy' = copy /\ cur' = cur /\ orders' = orders
      /\ audited' = audited /\ net' = net
    BY <1>1 DEF localVars, serverVars
<1>3. StoreInv' /\ LocalInv'
    BY <1>1, SerialFaults, StoreLocalKept DEF IInv
<1>4. NetInv'
    BY <1>2, NetKept DEF Sends
<1>5. DiscardInv' /\ ConfirmedInv' /\ ServerInv' /\ WorldInv'
    BY <1>1, <1>2 DEF IInv, DiscardInv, ConfirmedInv, ServerInv, WorldInv, worldVars
<1> QED
    BY <1>1, <1>3, <1>4, <1>5 DEF IInv

LEMMA ContextTyped ==
    ASSUME WorldInv, user # NoUser
    PROVE  Context \in Contexts
BY DEF WorldInv, Context, Contexts

LEMMA SyncReadsStep ==
    ASSUME IInv, NEW t \in Tabs, SyncReads(t)
    PROVE  IInv'
<1>1. PICK old \in SUBSET {k \in Keys : entry[k].state = "CONFIRMED"} : entry' = Cleaned(old)
    BY DEF SyncReads
<1>2. /\ pc[t] = "context" /\ faults' = faults
      /\ known' = IF t = MainTab THEN Context ELSE known
      /\ UNCHANGED <<basket, cart, serverVars, worldVars, net>>
      /\ user # NoUser
    BY DEF SyncReads
<1>3. t \in Procs /\ t # Hand /\ faults \in Nat /\ faults <= faults'
    BY <1>2, MainTabIsATab, SerialFaults DEF Procs, IInv
<1>4. Fits(NoEntry, faults') /\ NoEntry \in Entry /\ NoEntry.state = "ABSENT"
    BY <1>2, <1>3, NoEntryFits DEF Fits, NoEntry
<1>5. LocalInv' /\ pc'[t] # "sending"
      /\ \A q \in Procs \ {t} : pc'[q] = pc[q] /\ cur'[q] = cur[q]
    <2>1. CASE Due = {}
        BY <1>2, <1>3, <2>1, FinishesLocal DEF SyncReads, IInv
    <2>2. CASE Due # {}
        <3>1. /\ copy' = [copy EXCEPT ![t] = [k \in Keys |-> IF k \in Due THEN entry[k] ELSE NoEntry]]
              /\ pc' = [pc EXCEPT ![t] = "loop"] /\ cur' = cur
            BY <2>2 DEF SyncReads
        <3>2. [k \in Keys |-> IF k \in Due THEN entry[k] ELSE NoEntry] \in [Keys -> Entry]
            BY <1>4 DEF IInv, StoreInv
        <3>3. /\ LocalTypes' /\ pc'[t] = "loop"
              /\ copy'[t] = [k \in Keys |-> IF k \in Due THEN entry[k] ELSE NoEntry]
              /\ \A q \in Procs \ {t} : pc'[q] = pc[q] /\ copy'[q] = copy[q] /\ cur'[q] = cur[q]
            BY <1>3, <3>1, <3>2 DEF IInv, LocalInv, LocalTypes, Labels
        <3>4. \A k \in Keys : /\ Fits(copy'[t][k], faults')
                              /\ copy'[t][k].state \in {"ABSENT", "LOCAL_PENDING"}
                              /\ k \in Due => copy'[t][k].state = "LOCAL_PENDING"
            BY <1>2, <1>4, <3>3 DEF IInv, StoreInv, StoreOK, Due
        <3>5. LocalOK(t)'
            BY <2>2, <3>3, <3>4 DEF LocalOK, Remaining, Due
        <3> QED
            BY <1>2, <1>3, <3>3, <3>5, LocalStepOne DEF IInv
    <2> QED
        BY <2>1, <2>2
<1>6. PageInv'
    BY <1>2, ContextTyped DEF IInv, PageInv
<1>7. entry' \in [Keys -> Entry]
      /\ \A k \in Keys : \/ entry'[k] = entry[k]
                         \/ entry'[k] = NoEntry /\ orders[k] # <<>>
    BY <1>1, <1>4 DEF Cleaned, IInv, StoreInv, ConfirmedInv
<1> QED
    BY <1>2, <1>3, <1>4, <1>5, <1>6, <1>7, MoveStep

LEMMA SyncStepStep ==
    ASSUME IInv, NEW t \in Tabs, SyncStep(t)
    PROVE  IInv'
<1>1. /\ pc[t] = "loop" /\ UNCHANGED <<pageVars, serverVars, worldVars, faults>>
      /\ t \in Procs /\ t # Hand /\ t \in Senders /\ faults' = faults
    BY MainTabIsATab DEF SyncStep, Procs, Senders
<1>2. PICK k : k = NextDue(t)
    OBVIOUS
<1>3. PICK e : e = copy[t][k]
    OBVIOUS
<1>4. k \in Keys /\ k \in Remaining(t)
    BY <1>1, <1>2, NextDueRemains DEF IInv, LocalInv, LocalOK
<1>5. e.state = "LOCAL_PENDING" /\ Fits(e, faults) /\ e \in Entry
    BY <1>1, <1>3, <1>4 DEF IInv, LocalInv, LocalOK, Remaining, Sends, Fits
<1>6. e.attempt < MAX_AUTOMATIC_ATTEMPTS + faults
    BY <1>5 DEF Fits
<1>7. \A j \in Keys : ~Sends(t, j)
    BY <1>1 DEF Sends
<1>8. PageInv'
    BY <1>1 DEF IInv, PageInv, pageVars
<1>9. CASE Check(e, seen[t]) = "OK"
    <2>1. Attempts(t, k, e) /\ CapturedIn(e) \in Contexts
        BY <1>2, <1>3, <1>5, <1>9, CheckResults DEF SyncStep
    <2> QED
        BY <1>1, <1>4, <1>5, <1>6, <2>1, AttemptsStep
<1>10. CASE Check(e, seen[t]) = "CONFLICT"
    <2>1. PICK c : c = [e EXCEPT !.state = "CONFLICT"]
        OBVIOUS
    <2>2. entry' = [entry EXCEPT ![k] = c] /\ GoesOn(t, k) /\ net' = net
        BY <1>2, <1>3, <1>10, <2>1 DEF SyncStep, Put
    <2>3. Fits(c, faults) /\ c.state = "CONFLICT" /\ c \in Entry
        BY <1>5, <2>1, StateChanged, SerialFaults DEF IInv, Fits
    <2>4. /\ LocalInv' /\ pc'[t] # "sending"
          /\ \A q \in Procs \ {t} : pc'[q] = pc[q] /\ cur'[q] = cur[q]
        BY <1>1, <1>4, <1>7, <2>2, GoesOnLocal DEF IInv
    <2>5. entry' \in [Keys -> Entry] /\ \A j \in Keys : entry'[j] = entry[j] \/ entry'[j] = c
        BY <2>2, <2>3 DEF IInv, StoreInv
    <2> QED
        BY <1>1, <1>8, <2>2, <2>3, <2>4, <2>5, MoveStep
<1>11. CASE Check(e, seen[t]) = "WAIT_FOR_USER"
    <2>1. GoesOn(t, k) /\ entry' = entry /\ net' = net
        BY <1>2, <1>3, <1>11 DEF SyncStep
    <2>2. /\ LocalInv' /\ pc'[t] # "sending"
          /\ \A q \in Procs \ {t} : pc'[q] = pc[q] /\ cur'[q] = cur[q]
        BY <1>1, <1>4, <1>7, <2>1, GoesOnLocal DEF IInv
    <2>3. entry' \in [Keys -> Entry]
        BY <2>1 DEF IInv, StoreInv
    <2> QED
        BY <1>1, <1>8, <2>1, <2>2, <2>3, MoveStep
<1> QED
    BY <1>5, <1>9, <1>10, <1>11, CheckResults

(* The panel reads an entry that is there.                                 *)
LEMMA AsksStep ==
    ASSUME IInv, NEW k \in Keys, NEW for \in {"retry", "lookup"}, Asks(k, for),
           entry[k].state # "ABSENT"
    PROVE  IInv'
<1>1. /\ pc[Hand] = "idle" /\ Fault
      /\ copy' = [copy EXCEPT ![Hand][k] = entry[k]] /\ cur' = [cur EXCEPT ![Hand] = k]
      /\ pc' = [pc EXCEPT ![Hand] = for] /\ entry' = entry
      /\ UNCHANGED <<pageVars, serverVars, worldVars, net>>
    BY DEF Asks
<1>2. Hand \in Procs /\ Hand \notin Tabs
    BY MainTabIsATab DEF Procs
<1>3. faults \in Nat /\ faults' \in Nat /\ faults <= faults'
    BY <1>1, FaultFacts DEF IInv
<1>4. entry[k] \in Entry /\ Fits(entry[k], faults')
    BY <1>3, FitsGrows DEF IInv, StoreInv, StoreOK
<1>5. LocalTypes'
    BY <1>1, <1>2, <1>4 DEF IInv, LocalInv, LocalTypes, Labels
<1>6. /\ pc'[Hand] = for /\ cur'[Hand] = k
      /\ \A j \in Keys : copy'[Hand][j] = IF j = k THEN entry[k] ELSE copy[Hand][j]
      /\ \A q \in Procs \ {Hand} : pc'[q] = pc[q] /\ copy'[q] = copy[q] /\ cur'[q] = cur[q]
    BY <1>1, <1>2 DEF IInv, LocalInv, LocalTypes
<1>7. LocalInv'
    <2>1. \A j \in Keys : Fits(copy[Hand][j], faults')
        BY <1>2, <1>3, FitsGrows DEF IInv, LocalInv, LocalOK
    <2>2. LocalOK(Hand)'
        BY <1>2, <1>4, <1>6, <2>1 DEF LocalOK
    <2> QED
        BY <1>2, <1>3, <1>5, <1>6, <2>2, LocalStepOne DEF IInv
<1>8. DiscardInv'
    BY <1>1, <1>6 DEF DiscardInv
<1>9. PageInv' /\ entry' \in [Keys -> Entry]
    BY <1>1 DEF IInv, PageInv, StoreInv, pageVars
<1> QED
    BY <1>1, <1>2, <1>6, <1>7, <1>8, <1>9, MoveStep

LEMMA RetryStartsStep ==
    ASSUME IInv, NEW k \in Keys, RetryStarts(k)
    PROVE  IInv'
BY AsksStep DEF RetryStarts, canRetry

LEMMA DiscardStartsStep ==
    ASSUME IInv, NEW k \in Keys, DiscardStarts(k)
    PROVE  IInv'
BY AsksStep DEF DiscardStarts, DiscardConfirmed, Listed, OpenStates

(* The panel is done, with the entry it worked on written or not.          *)
LEMMA HandEndsStep ==
    ASSUME IInv, pc[Hand] \in {"retry", "lookup", "discard", "delete"}, Finishes(Hand),
           UNCHANGED <<pageVars, serverVars, worldVars, faults, net>>,
           NEW e, NEW k \in Keys, Put(k, e), Fits(e, faults), e.state # "SENDING",
           e.state = "CONFIRMED" => orders[k] # <<>>
    PROVE  IInv'
<1>1. Hand \in Procs /\ faults' = faults
    BY DEF Procs
<1>2. /\ LocalInv' /\ pc'[Hand] = "idle"
      /\ \A q \in Procs \ {Hand} : pc'[q] = pc[q] /\ cur'[q] = cur[q]
    BY <1>1, FinishesLocal DEF IInv
<1>3. DiscardInv'
    BY <1>2, DiscardIdle
<1>4. entry' \in [Keys -> Entry] /\ entry'[k] = e
      /\ \A j \in Keys \ {k} : entry'[j] = entry[j]
    BY DEF IInv, StoreInv, Put, Fits
<1>5. PageInv'
    BY DEF IInv, PageInv, pageVars
<1>6. pc[Hand] # "sending" /\ pc'[Hand] # "sending"
    BY <1>2
<1>7. \A j \in Keys :
         \/ entry'[j] = entry[j]
         \/ /\ Fits(entry'[j], faults') /\ entry'[j].state # "SENDING"
            /\ entry'[j].state = "CONFIRMED" => orders[j] # <<>>
    BY <1>1, <1>4
<1> QED
    BY <1>1, <1>2, <1>3, <1>4, <1>5, <1>6, <1>7, MoveStep

LEMMA RetryChecksStep ==
    ASSUME IInv, RetryChecks
    PROVE  IInv'
<1>1. /\ pc[Hand] = "retry" /\ UNCHANGED <<pageVars, serverVars, worldVars, faults>>
      /\ Hand \in Procs /\ Hand \in Senders /\ faults' = faults
    BY SendersAreProcs DEF RetryChecks
<1>2. PICK k : k = cur[Hand]
    OBVIOUS
<1>3. PICK e : e = [copy[Hand][k] EXCEPT !.attempt = 0, !.due = TRUE]
    OBVIOUS
<1>4. PICK ctx : ctx = [Context EXCEPT !.user = seen[Hand].user]
    OBVIOUS
<1>5. k \in Keys /\ copy[Hand][k] \in Entry
    BY <1>1, <1>2 DEF IInv, LocalInv, LocalOK, Fits
<1>6. faults \in Nat /\ 0 \in 0..(MAX_AUTOMATIC_ATTEMPTS + MaxFaults)
      /\ 0 < MAX_AUTOMATIC_ATTEMPTS + faults
    BY BoundsAreNumbers DEF IInv, WorldInv
<1>7. e \in Entry
    BY <1>3, <1>5, <1>6 DEF Entry
<1>8. e.attempt = 0
    BY <1>3, <1>5 DEF Entry
<1>9. Fits(e, faults)
    BY <1>6, <1>7, <1>8, RoomForOne DEF Fits
<1>10. CASE Check(e, ctx) = "OK"
    <2>1. Attempts(Hand, k, e) /\ CapturedIn(e) \in Contexts
        BY <1>2, <1>3, <1>4, <1>7, <1>10, CheckResults DEF RetryChecks
    <2> QED
        BY <1>1, <1>5, <1>6, <1>7, <1>8, <2>1, AttemptsStep
<1>11. CASE Check(e, ctx) = "CONFLICT"
    <2>1. PICK c : c = [e EXCEPT !.state = "CONFLICT"]
        OBVIOUS
    <2>2. Put(k, c) /\ Finishes(Hand) /\ net' = net
        BY <1>2, <1>3, <1>4, <1>11, <2>1 DEF RetryChecks
    <2>3. Fits(c, faults) /\ c.state = "CONFLICT"
        BY <1>6, <1>9, <2>1, StateChanged
    <2> QED
        BY <1>1, <1>5, <2>2, <2>3, HandEndsStep
<1>12. CASE Check(e, ctx) = "WAIT_FOR_USER"
    <2>1. Finishes(Hand) /\ UNCHANGED <<entry, net>>
        BY <1>2, <1>3, <1>4, <1>12 DEF RetryChecks
    <2> QED
        BY <1>1, <2>1, GivesUpStep
<1> QED
    BY <1>7, <1>10, <1>11, <1>12, CheckResults

(* What stays in the panel, and the page as it is.                         *)
LEMMA HandStaysStep ==
    ASSUME IInv, NEW x \in {"discard", "delete"}, pc[Hand] \in {"lookup", "discard"},
           pc' = [pc EXCEPT ![Hand] = x], orders' = orders, audited' \subseteq Keys,
           UNCHANGED <<entry, copy, cur, pageVars, worldVars, faults, net>>,
           DiscardInv'
    PROVE  IInv'
<1>1. Hand \in Procs /\ Hand \notin Tabs /\ faults \in Nat /\ faults <= faults' /\ faults' = faults
    BY MainTabIsATab, SerialFaults DEF Procs, IInv
<1>2. /\ LocalTypes' /\ pc'[Hand] = x
      /\ \A q \in Procs \ {Hand} : pc'[q] = pc[q] /\ copy'[q] = copy[q] /\ cur'[q] = cur[q]
    BY <1>1 DEF IInv, LocalInv, LocalTypes, Labels
<1>3. LocalInv'
    <2>1. LocalOK(Hand) /\ copy' = copy /\ cur' = cur
        BY <1>1 DEF IInv, LocalInv
    <2>2. LocalOK(Hand)'
        BY <1>1, <1>2, <2>1 DEF LocalOK
    <2> QED
        BY <1>1, <1>2, <2>2, LocalStepOne DEF IInv
<1>4. \A q \in Procs, k \in Keys : Sends(q, k)' <=> Sends(q, k)
    BY <1>1, <1>2, NobodySends
<1>5. StoreInv'
    BY <1>1, <1>4, SendersAreProcs, StoreStep DEF IInv, StoreInv
<1>6. NetInv'
    BY <1>4, NetKept
<1>7. PageInv' /\ WorldInv' /\ ServerInv' /\ ConfirmedInv'
    BY DEF IInv, PageInv, WorldInv, ServerInv, ConfirmedInv, pageVars, worldVars
<1> QED
    BY <1>3, <1>5, <1>6, <1>7 DEF IInv

LEMMA DiscardLooksUpStep ==
    ASSUME IInv, DiscardLooksUp
    PROVE  IInv'
<1>1. /\ pc[Hand] = "lookup" /\ UNCHANGED <<pageVars, serverVars, worldVars, faults, net>>
      /\ orders' = orders /\ audited' = audited /\ Hand \in Procs
    BY DEF DiscardLooksUp, serverVars, Procs
<1>2. PICK k : k = cur[Hand]
    OBVIOUS
<1>3. k \in Keys /\ Fits(copy[Hand][k], faults) /\ faults \in Nat
    BY <1>1, <1>2, SerialFaults DEF IInv, LocalInv, LocalOK
<1>4. CASE Visible(k)
    <2>1. PICK e : e = [copy[Hand][k] EXCEPT !.state = "CONFIRMED"]
        OBVIOUS
    <2>2. Put(k, e) /\ Finishes(Hand) /\ orders[k] # <<>>
        BY <1>2, <1>4, <2>1 DEF DiscardLooksUp, Visible
    <2>3. Fits(e, faults) /\ e.state = "CONFIRMED"
        BY <1>3, <2>1, StateChanged
    <2> QED
        BY <1>1, <1>3, <2>2, <2>3, HandEndsStep
<1>5. CASE ~Visible(k)
    <2>1. pc' = [pc EXCEPT ![Hand] = "discard"] /\ UNCHANGED <<entry, copy, cur>>
        BY <1>2, <1>5 DEF DiscardLooksUp
    <2>2. pc'[Hand] = "discard"
        BY <1>1, <2>1 DEF IInv, LocalInv, LocalTypes
    <2>3. DiscardInv' /\ audited' \subseteq Keys
        BY <1>1, <2>1, <2>2 DEF IInv, DiscardInv, ServerInv
    <2> QED
        BY <1>1, <2>1, <2>3, HandStaysStep
<1> QED
    BY <1>4, <1>5

LEMMA DiscardIsAuditedStep ==
    ASSUME IInv, DiscardIsAudited
    PROVE  IInv'
<1>1. /\ pc[Hand] = "discard" /\ UNCHANGED <<entry, pageVars, orders, worldVars, faults, net>>
      /\ Hand \in Procs /\ audited' = audited \union {cur[Hand]} /\ faults' = faults
    BY DEF DiscardIsAudited, Procs
<1>2. cur[Hand] \in Keys
    BY <1>1 DEF IInv, LocalInv, LocalOK
<1>3. audited' \subseteq Keys
    BY <1>1, <1>2 DEF IInv, ServerInv
<1>4. CASE pc' = [pc EXCEPT ![Hand] = "delete"] /\ UNCHANGED <<copy, cur, seen>>
    <2>1. pc'[Hand] = "delete"
        BY <1>1, <1>4 DEF IInv, LocalInv, LocalTypes
    <2>2. DiscardInv'
        BY <1>1, <1>4, <2>1 DEF DiscardInv
    <2> QED
        BY <1>1, <1>3, <1>4, <2>2, HandStaysStep
<1>5. CASE Finishes(Hand)
    <2>1. /\ LocalInv' /\ pc'[Hand] = "idle"
          /\ \A q \in Procs \ {Hand} : pc'[q] = pc[q] /\ cur'[q] = cur[q]
        BY <1>1, <1>5, FinishesLocal DEF IInv
    <2>2. \A q \in Procs, k \in Keys : Sends(q, k)' <=> Sends(q, k)
        BY <1>1, <2>1, NobodySends
    <2>3. StoreInv'
        BY <1>1, <2>2, SendersAreProcs, SerialFaults, StoreStep DEF IInv, StoreInv
    <2>4. NetInv'
        BY <1>1, <2>2, NetKept
    <2>5. DiscardInv'
        BY <2>1, DiscardIdle
    <2>6. PageInv' /\ WorldInv' /\ ServerInv' /\ ConfirmedInv'
        BY <1>1, <1>3 DEF IInv, PageInv, WorldInv, ServerInv, ConfirmedInv, pageVars, worldVars
    <2> QED
        BY <2>1, <2>3, <2>4, <2>5, <2>6 DEF IInv
<1> QED
    BY <1>4, <1>5 DEF DiscardIsAudited

LEMMA DiscardDeletesStep ==
    ASSUME IInv, DiscardDeletes
    PROVE  IInv'
<1>1. /\ pc[Hand] = "delete" /\ UNCHANGED <<pageVars, serverVars, worldVars, faults, net>>
      /\ Hand \in Procs /\ Finishes(Hand)
    BY DEF DiscardDeletes, Procs
<1>2. PICK k : k = cur[Hand]
    OBVIOUS
<1>3. PICK e : e = NoEntry
    OBVIOUS
<1>4. k \in Keys /\ Put(k, e)
    BY <1>1, <1>2, <1>3 DEF IInv, LocalInv, LocalOK, DiscardDeletes
<1>5. Fits(e, faults) /\ e.state = "ABSENT"
    BY <1>3, NoEntryFits, SerialFaults DEF IInv, NoEntry
<1> QED
    BY <1>1, <1>4, <1>5, HandEndsStep

(* The checkout posts a basket under a key of its own.                     *)
LEMMA SubmitsStep ==
    ASSUME IInv, NEW k \in Keys, Submits(k)
    PROVE  IInv'
<1>1. PICK b : b = IF cart = 0 THEN k ELSE cart
    OBVIOUS
<1>2. PICK r : r = Request(Till, k, NoContext, b \in RefundKeys)
    OBVIOUS
<1>3. /\ pc[Till] = "idle" /\ basket' = [basket EXCEPT ![k] = b] /\ cart' = b
      /\ cur' = [cur EXCEPT ![Till] = k] /\ pc' = [pc EXCEPT ![Till] = "sending"]
      /\ net' = net \union {r} /\ entry' = entry /\ copy' = copy /\ known' = known
      /\ faults' = faults /\ orders' = orders /\ audited' = audited
      /\ UNCHANGED <<serverVars, worldVars>>
    BY <1>1, <1>2 DEF Submits, serverVars
<1>4. Till \in Procs /\ Till \notin Tabs /\ faults \in Nat /\ faults <= faults'
    BY <1>3, MainTabIsATab, SerialFaults DEF Procs, IInv
<1>5. /\ LocalTypes' /\ pc'[Till] = "sending" /\ cur'[Till] = k
      /\ \A q \in Procs \ {Till} : pc'[q] = pc[q] /\ copy'[q] = copy[q] /\ cur'[q] = cur[q]
    BY <1>3, <1>4 DEF IInv, LocalInv, LocalTypes, Labels
<1>6. LocalInv'
    <2>1. LocalOK(Till)
        BY <1>4 DEF IInv, LocalInv
    <2>2. LocalOK(Till)'
        BY <1>3, <1>4, <1>5, <2>1 DEF LocalOK
    <2> QED
        BY <1>3, <1>4, <1>5, <2>2, LocalStepOne DEF IInv
<1>7. \A q \in Senders, j \in Keys : Sends(q, j)' <=> Sends(q, j)
    BY <1>5, SendersAreProcs DEF Sends
<1>8. StoreInv'
    BY <1>3, <1>4, <1>7, StoreStep DEF IInv, StoreInv
<1>9. PageInv'
    BY <1>1, <1>3 DEF IInv, PageInv
<1>10. NetInv'
    <2>1. /\ r.key = k /\ r.from = Till /\ r.stage = "sent" /\ r.answer = "none"
          /\ r \in Requests
        BY <1>2, <1>4 DEF Request, Requests, IInv, WorldInv, Contexts, NoContext, Modes
    <2>2. \A x \in net : x.from # Till
        BY <1>3, <1>4 DEF IInv, NetInv, RequestOK, Sends
    <2>3. ASSUME NEW x \in net PROVE RequestOK(x)'
        BY <1>3, <1>5, <2>2 DEF IInv, NetInv, RequestOK, Sends
    <2>4. RequestOK(r)'
        BY <1>5, <2>1 DEF RequestOK, Sends
    <2> QED
        BY <1>3, <2>1, <2>2, <2>3, <2>4 DEF IInv, NetInv
<1>11. DiscardInv'
    <2>1. pc'[Hand] = pc[Hand] /\ cur'[Hand] = cur[Hand]
        BY <1>5, SendersAreProcs
    <2> QED
        BY <1>3, <2>1, DiscardKept
<1>12. WorldInv' /\ ServerInv' /\ ConfirmedInv'
    BY <1>3 DEF IInv, WorldInv, ServerInv, ConfirmedInv, worldVars
<1> QED
    BY <1>6, <1>8, <1>9, <1>10, <1>11, <1>12 DEF IInv

LEMMA InitIInv == Init => IInv
<1> SUFFICES ASSUME Init PROVE IInv
    OBVIOUS
<1>1. faults = 0 /\ faults \in 0..MaxFaults
    BY BoundsAreNumbers DEF Init
<1>2. Fits(NoEntry, 0) /\ NoEntry \in Entry /\ NoEntry.state = "ABSENT"
    BY NoEntryFits DEF Fits, NoEntry
<1>3. PICK v : v = [NoEntry EXCEPT !.state = "V1"]
    OBVIOUS
<1>4. v \in Entry /\ v.state = "V1" /\ Fits(v, 0)
    <2>1. v \in Entry
        BY <1>2, <1>3 DEF Entry
    <2>2. v.state = "V1" /\ v.attempt = NoEntry.attempt
        BY <1>2, <1>3 DEF Entry
    <2> QED
        BY <1>2, <2>1, <2>2 DEF Fits
<1>5. entry = [k \in Keys |-> IF k \in LegacyKeys THEN v ELSE NoEntry]
    BY <1>3 DEF Init
<1>6. StoreInv
    BY <1>1, <1>2, <1>4, <1>5 DEF StoreInv, StoreOK
<1>7. LocalInv
    <2>1. LocalTypes
        BY <1>2 DEF Init, LocalTypes, Labels
    <2> QED
        BY <1>1, <1>2, <2>1 DEF Init, LocalInv, LocalOK
<1>8. PageInv
    BY DEF Init, PageInv, NoContext, Contexts, Modes
<1>9. WorldInv
    BY <1>1 DEF Init, WorldInv, Modes
<1>10. ServerInv /\ NetInv
    BY DEF Init, ServerInv, NetInv
<1>11. ConfirmedInv
    BY <1>2, <1>4, <1>5 DEF ConfirmedInv
<1>12. DiscardInv
    BY DEF Init, DiscardInv, Procs
<1> QED
    BY <1>6, <1>7, <1>8, <1>9, <1>10, <1>11, <1>12 DEF IInv

LEMMA StepIInv == IInv /\ [Next]_vars => IInv'
<1> SUFFICES ASSUME IInv, [Next]_vars PROVE IInv'
    OBVIOUS
<1>1. CASE Upgrade
    BY <1>1, UpgradeStep
<1>2. ASSUME NEW k \in Keys,
             BecomesDue(k) \/ Submits(k) \/ RetryStarts(k) \/ Adopt(k) \/ DiscardStarts(k)
      PROVE  IInv'
    BY <1>2, BecomesDueStep, SubmitsStep, RetryStartsStep, AdoptStep, DiscardStartsStep
<1>3. ASSUME NEW t \in Tabs,
             SyncStarts(t) \/ SyncFails(t) \/ SyncReads(t) \/ SyncStep(t) \/ Crash(t)
      PROVE  IInv'
    BY <1>3, SyncStartsStep, SyncFailsStep, SyncReadsStep, SyncStepStep, CrashStep
<1>4. CASE RetryChecks \/ HandFails \/ DiscardLooksUp \/ DiscardIsAudited \/ DiscardDeletes
    BY <1>4, RetryChecksStep, HandFailsStep, DiscardLooksUpStep, DiscardIsAuditedStep,
       DiscardDeletesStep
<1>5. CASE ClearsCart
    BY <1>5, ClearsCartStep
<1>6. ASSUME NEW p \in Procs, Receives(p) \/ TimesOut(p) PROVE IInv'
    BY <1>6, ReceivesStep, TimesOutStep
<1>7. ASSUME NEW r \in net, ServerChecks(r) \/ ServerCommits(r) \/ ServerFails(r) PROVE IInv'
    BY <1>7, ServerChecksStep, ServerCommitsStep, ServerFailsStep
<1>8. ASSUME NEW u \in Users \union {NoUser}, LogsIn(u) PROVE IInv'
    BY <1>8, LogsInStep
<1>9. ASSUME NEW m \in Modes, EventChanges(m) PROVE IInv'
    BY <1>9, EventChangesStep
<1>10. ASSUME NEW u \in Users, SessionOpens(u) \/ SessionCloses(u) PROVE IInv'
    BY <1>10, SessionOpensStep, SessionClosesStep
<1>11. CASE UNCHANGED vars
    <2>1. WorldInv' /\ UNCHANGED <<faults, storeVars, localVars, pageVars, serverVars, net>>
        BY <1>11 DEF IInv, WorldInv, vars, worldVars
    <2> QED
        BY <2>1, WorldStep
<1> QED
    BY <1>1, <1>2, <1>3, <1>4, <1>5, <1>6, <1>7, <1>8, <1>9, <1>10, <1>11 DEF Next

LEMMA Invariance == Spec => []IInv
BY InitIInv, StepIInv, PTL DEF Spec

(* Type correctness; with it, that no entry is tried more often than       *)
(* MAX_AUTOMATIC_ATTEMPTS and once more for every crash that interrupted   *)
(* it (attemptSendEntry, recoverInterruptedSendingRecords).                *)
THEOREM TypeCorrect == Spec => []TypeOK
<1>1. IInv => TypeOK
    <2> SUFFICES ASSUME IInv PROVE TypeOK
        OBVIOUS
    <2>1. \A k \in Keys : \A i \in 1..Len(orders[k]) : orders[k][i] \in Order
        BY DEF IInv, ServerInv
    <2>2. \A r \in net : r.key \in Keys /\ r.from \in Procs \union {Nobody}
        BY DEF IInv, NetInv, Requests
    <2> QED
        BY <2>1, <2>2 DEF IInv, StoreInv, LocalInv, LocalTypes, Labels, PageInv, WorldInv,
                          ServerInv, TypeOK
<1> QED
    BY <1>1, Invariance, PTL

(* What the queue shows as confirmed is exactly one order of the server,   *)
(* whatever is lost, answered late or sent twice (attemptSendEntry,        *)
(* discardOfflineOrder, resolveIdempotentOrder).                           *)
THEOREM ConfirmedHasItsOrder == Spec => []ConfirmedIsOrdered
<1>1. IInv => ConfirmedIsOrdered
    BY DEF IInv, ConfirmedInv, ServerInv, ConfirmedIsOrdered
<1> QED
    BY <1>1, Invariance, PTL

(***************************************************************************)
(* The queue implements BasketFate.                                        *)
(***************************************************************************)

LEMMA FateStays ==
    ASSUME \A k \in Keys : fate'[k] = fate[k]
    PROVE  [Fate!Next]_fate
BY DEF fate

(* The fate of one basket changes.                                         *)
LEMMA FateMoves ==
    ASSUME NEW k \in Keys, \A j \in Keys \ {k} : fate'[j] = fate[j],
           \/ fate[k] \in {"new", "discarded"} /\ fate'[k] = "held"
           \/ fate[k] # "ordered" /\ fate'[k] = "ordered"
           \/ fate[k] = "held" /\ fate'[k] = "discarded"
    PROVE  Fate!Next
<1>1. fate' = [fate EXCEPT ![k] = fate'[k]]
    BY DEF fate
<1> QED
    BY <1>1 DEF Fate!Next, Fate!Hold, Fate!Order, Fate!Discard

LEMMA FateKept ==
    ASSUME orders' = orders, audited' = audited,
           \A k \in Keys : orders[k] # <<>> \/ (entry'[k].state = "ABSENT" <=> entry[k].state = "ABSENT")
    PROVE  [Fate!Next]_fate
<1>1. \A k \in Keys : fate'[k] = fate[k]
    BY DEF fate
<1> QED
    BY <1>1, FateStays

LEMMA FateOfWritten ==
    ASSUME IInv, orders' = orders, audited' = audited, NEW k \in Keys, NEW e, Put(k, e),
           e.state # "ABSENT"
    PROVE  [Fate!Next]_fate
<1>1. entry'[k] = e /\ \A j \in Keys \ {k} : entry'[j] = entry[j]
    BY DEF Put, IInv, StoreInv
<1>2. CASE orders[k] # <<>> \/ entry[k].state # "ABSENT"
    BY <1>1, <1>2, FateKept
<1>3. CASE orders[k] = <<>> /\ entry[k].state = "ABSENT"
    <2>1. \A j \in Keys \ {k} : fate'[j] = fate[j]
        BY <1>1 DEF fate
    <2>2. fate[k] \in {"new", "discarded"} /\ fate'[k] = "held"
        BY <1>1, <1>3 DEF fate
    <2> QED
        BY <2>1, <2>2, FateMoves
<1> QED
    BY <1>2, <1>3

LEMMA AttemptsFate ==
    ASSUME IInv, NEW p, NEW k \in Keys, NEW e \in Entry, Attempts(p, k, e),
           UNCHANGED serverVars
    PROVE  [Fate!Next]_fate
<1>1. PICK s : s = [e EXCEPT !.state = "SENDING", !.attempt = @ + 1, !.due = FALSE]
    OBVIOUS
<1>2. Put(k, s) /\ s.state = "SENDING"
    BY <1>1 DEF Attempts, Entry
<1> QED
    BY <1>2, FateOfWritten DEF serverVars

LEMMA EndsFate ==
    ASSUME IInv, NEW p \in Procs, pc[p] = "sending", NEW a \in Answers, Ends(p, a),
           UNCHANGED serverVars
    PROVE  [Fate!Next]_fate
<1>1. orders' = orders /\ audited' = audited /\ cur[p] \in Keys
      /\ Fits(copy[p][cur[p]], faults) /\ faults \in Nat
    BY SerialFaults DEF serverVars, IInv, LocalInv, LocalOK
<1>2. CASE p = Till
    <2>1. PICK e : e = Captured
        OBVIOUS
    <2>2. e.state = "LOCAL_PENDING"
        BY <2>1, CapturedFits
    <2>3. entry' = entry \/ Put(cur[Till], e)
        BY <1>2, <2>1 DEF Ends, SubmitEnds
    <2> QED
        BY <1>1, <1>2, <2>2, <2>3, FateOfWritten, FateKept
<1>3. CASE p # Till
    <2>1. PICK e : e = Settled(copy[p][cur[p]], a)
        OBVIOUS
    <2>2. e.state # "ABSENT"
        BY <1>1, <2>1, SettledFits
    <2>3. Put(cur[p], e)
        BY <1>3, <2>1 DEF Ends, SendEnds
    <2> QED
        BY <1>1, <2>2, <2>3, FateOfWritten
<1> QED
    BY <1>2, <1>3

(* The loop of a tab.                                                      *)
LEMMA SyncFate ==
    ASSUME IInv, NEW t \in Tabs, SyncStarts(t) \/ SyncReads(t) \/ SyncStep(t)
    PROVE  [Fate!Next]_fate
<1>1. orders' = orders /\ audited' = audited /\ UNCHANGED serverVars
    BY DEF SyncStarts, SyncReads, SyncStep, serverVars
<1>2. CASE SyncStarts(t)
    <2>1. ASSUME NEW k \in Keys
          PROVE  entry'[k].state = "ABSENT" <=> entry[k].state = "ABSENT"
        <3>1. entry[k] \in Entry
            BY DEF IInv, StoreInv
        <3> QED
            BY <1>2, <3>1 DEF SyncStarts, Recovered, Entry
    <2> QED
        BY <1>1, <2>1, FateKept
<1>3. CASE SyncReads(t)
    <2>1. PICK old \in SUBSET {k \in Keys : entry[k].state = "CONFIRMED"} : entry' = Cleaned(old)
        BY <1>3 DEF SyncReads
    <2>2. \A k \in Keys : orders[k] # <<>> \/ entry'[k] = entry[k]
        BY <2>1 DEF Cleaned, IInv, ConfirmedInv
    <2> QED
        BY <1>1, <2>2, FateKept
<1>4. CASE SyncStep(t)
    <2>1. PICK k : k = NextDue(t)
        OBVIOUS
    <2>2. PICK e : e = copy[t][k]
        OBVIOUS
    <2>3. t \in Procs /\ k \in Keys /\ e \in Entry
        BY <1>4, <2>1, <2>2, NextDueRemains DEF SyncStep, Procs, IInv, LocalInv, LocalTypes, LocalOK
    <2>4. PICK c : c = [e EXCEPT !.state = "CONFLICT"]
        OBVIOUS
    <2>5. c.state = "CONFLICT"
        BY <2>3, <2>4 DEF Entry
    <2>6. Attempts(t, k, e) \/ Put(k, c) \/ entry' = entry
        BY <1>4, <2>1, <2>2, <2>3, <2>4, CheckResults DEF SyncStep
    <2> QED
        BY <1>1, <2>3, <2>5, <2>6, AttemptsFate, FateOfWritten, FateKept
<1> QED
    BY <1>2, <1>3, <1>4

(* The panel: an entry is deleted after the audit log says so, and what it *)
(* says is of an entry that was there.                                     *)
LEMMA HandFate ==
    ASSUME IInv, RetryChecks \/ DiscardLooksUp \/ DiscardIsAudited \/ DiscardDeletes
    PROVE  [Fate!Next]_fate
<1>1. PICK k : k = cur[Hand]
    OBVIOUS
<1>2. /\ pc[Hand] \in {"retry", "lookup", "discard", "delete"} /\ Hand \in Procs
      /\ orders' = orders
    BY DEF RetryChecks, DiscardLooksUp, DiscardIsAudited, DiscardDeletes, serverVars, Procs
<1>3. k \in Keys /\ copy[Hand][k] \in Entry /\ entry \in [Keys -> Entry]
    BY <1>1, <1>2 DEF IInv, LocalInv, LocalTypes, LocalOK, StoreInv
<1>4. CASE RetryChecks
    <2>1. PICK e : e = [copy[Hand][k] EXCEPT !.attempt = 0, !.due = TRUE]
        OBVIOUS
    <2>2. PICK ctx : ctx = [Context EXCEPT !.user = seen[Hand].user]
        OBVIOUS
    <2>3. e \in Entry
        <3>1. 0 \in 0..(MAX_AUTOMATIC_ATTEMPTS + MaxFaults)
            BY BoundsAreNumbers
        <3> QED
            BY <1>3, <2>1, <3>1 DEF Entry
    <2>4. PICK c : c = [e EXCEPT !.state = "CONFLICT"]
        OBVIOUS
    <2>5. c.state = "CONFLICT" /\ audited' = audited /\ UNCHANGED serverVars
        BY <1>4, <2>3, <2>4 DEF Entry, RetryChecks, serverVars
    <2>6. Attempts(Hand, k, e) \/ Put(k, c) \/ entry' = entry
        BY <1>1, <1>4, <2>1, <2>2, <2>3, <2>4, CheckResults DEF RetryChecks
    <2> QED
        BY <1>2, <1>3, <2>3, <2>5, <2>6, AttemptsFate, FateOfWritten, FateKept
<1>5. CASE DiscardLooksUp
    <2>1. PICK e : e = [copy[Hand][k] EXCEPT !.state = "CONFIRMED"]
        OBVIOUS
    <2>2. e.state = "CONFIRMED" /\ audited' = audited
        BY <1>3, <1>5, <2>1 DEF Entry, DiscardLooksUp, serverVars
    <2>3. Put(k, e) \/ entry' = entry
        BY <1>1, <1>5, <2>1 DEF DiscardLooksUp
    <2> QED
        BY <1>2, <1>3, <2>2, <2>3, FateOfWritten, FateKept
<1>6. CASE DiscardIsAudited
    <2>1. entry' = entry /\ audited' = audited \union {k} /\ orders[k] = <<>>
          /\ pc[Hand] = "discard"
        BY <1>1, <1>6 DEF DiscardIsAudited
    <2>2. entry[k].state # "ABSENT"
        BY <1>1, <2>1 DEF IInv, DiscardInv
    <2>3. \A j \in Keys : fate'[j] = fate[j]
        BY <1>2, <2>1, <2>2 DEF fate
    <2> QED
        BY <2>3, FateStays
<1>7. CASE DiscardDeletes
    <2>1. k \in audited /\ entry' = [entry EXCEPT ![k] = NoEntry] /\ audited' = audited
        BY <1>1, <1>7 DEF DiscardDeletes, IInv, DiscardInv, Put, serverVars
    <2>2. entry'[k].state = "ABSENT" /\ \A j \in Keys \ {k} : entry'[j] = entry[j]
        BY <1>3, <2>1 DEF NoEntry
    <2>3. CASE orders[k] # <<>> \/ entry[k].state = "ABSENT"
        BY <1>2, <2>1, <2>2, <2>3, FateKept
    <2>4. CASE orders[k] = <<>> /\ entry[k].state # "ABSENT"
        <3>1. fate[k] = "held" /\ fate'[k] = "discarded"
            BY <1>2, <1>3, <2>1, <2>2, <2>4 DEF fate
        <3>2. \A j \in Keys \ {k} : fate'[j] = fate[j]
            BY <1>2, <2>1, <2>2 DEF fate
        <3> QED
            BY <1>3, <3>1, <3>2, FateMoves
    <2> QED
        BY <2>3, <2>4
<1> QED
    BY <1>4, <1>5, <1>6, <1>7

(* A request is answered; it may make an order, for whatever happened to   *)
(* the entry since.                                                        *)
LEMMA ServerFate ==
    ASSUME IInv, NEW r \in net, ServerChecks(r) \/ ServerCommits(r) \/ ServerFails(r)
    PROVE  [Fate!Next]_fate
<1>1. entry' = entry /\ audited' = audited /\ r.key \in Keys
    BY DEF ServerChecks, ServerCommits, ServerFails, storeVars, serverVars, IInv, NetInv, Requests
<1>2. CASE orders' = orders
    BY <1>1, <1>2, FateKept
<1>3. CASE /\ KeyIsFree(r.key)
           /\ orders' = [orders EXCEPT ![r.key] = Append(@, Booked(r))]
    <2>1. orders[r.key] = <<>> /\ orders \in [Keys -> Seq(Order)]
        BY <1>3 DEF KeyIsFree, IInv, ServerInv
    <2>2. orders'[r.key] # <<>> /\ \A j \in Keys \ {r.key} : orders'[j] = orders[j]
        BY <1>1, <1>3, <2>1
    <2>3. \A j \in Keys \ {r.key} : fate'[j] = fate[j]
        BY <1>1, <2>2 DEF fate
    <2>4. fate[r.key] # "ordered" /\ fate'[r.key] = "ordered"
        BY <1>1, <2>1, <2>2 DEF fate
    <2> QED
        BY <1>1, <2>3, <2>4, FateMoves
<1> QED
    BY <1>2, <1>3 DEF ServerChecks, ServerCommits, ServerFails, serverVars

LEMMA FateInit == Init => Fate!Init
<1> SUFFICES ASSUME Init PROVE \A k \in Keys : fate[k] \in {"new", "held"}
    BY DEF fate, Fate!Init
<1> QED
    BY DEF Init, fate

LEMMA FateStep == IInv /\ [Next]_vars => [Fate!Next]_fate
<1> SUFFICES ASSUME IInv, [Next]_vars PROVE [Fate!Next]_fate
    OBVIOUS
<1> DEFINE Untouched == entry' = entry /\ orders' = orders /\ audited' = audited
<1>1. CASE Upgrade
    <2>1. ASSUME NEW k \in Keys
          PROVE  entry'[k].state = "ABSENT" <=> entry[k].state = "ABSENT"
        BY <1>1 DEF Upgrade, NoEntry
    <2> QED
        BY <1>1, <2>1, FateKept DEF Upgrade, serverVars
<1>2. ASSUME NEW k \in Keys, BecomesDue(k) \/ Adopt(k) PROVE [Fate!Next]_fate
    <2>1. PICK e : e = [entry[k] EXCEPT !.due = TRUE]
        OBVIOUS
    <2>2. PICK a : a = Adopted(entry[k])
        OBVIOUS
    <2>3. entry[k] \in Entry
        BY DEF IInv, StoreInv
    <2>4. e.state = entry[k].state /\ a.state = "LOCAL_PENDING"
        BY <2>1, <2>2, <2>3 DEF Entry, Adopted
    <2>5. (Put(k, e) /\ entry[k].state # "ABSENT") \/ Put(k, a)
        BY <1>2, <2>1, <2>2 DEF BecomesDue, Adopt
    <2>6. orders' = orders /\ audited' = audited
        BY <1>2 DEF BecomesDue, Adopt, serverVars
    <2> QED
        BY <2>4, <2>5, <2>6, FateOfWritten
<1>3. ASSUME NEW k \in Keys, Submits(k) \/ RetryStarts(k) \/ DiscardStarts(k) PROVE Untouched
    BY <1>3 DEF Submits, RetryStarts, DiscardStarts, Asks, serverVars
<1>4. ASSUME NEW t \in Tabs, SyncFails(t) \/ Crash(t) PROVE Untouched
    BY <1>4 DEF SyncFails, Crash, serverVars
<1>5. ASSUME NEW t \in Tabs, SyncStarts(t) \/ SyncReads(t) \/ SyncStep(t) PROVE [Fate!Next]_fate
    BY <1>5, SyncFate
<1>6. CASE HandFails \/ ClearsCart
    BY <1>6, FateKept DEF HandFails, ClearsCart, storeVars, serverVars
<1>7. CASE RetryChecks \/ DiscardLooksUp \/ DiscardIsAudited \/ DiscardDeletes
    BY <1>7, HandFate
<1>8. ASSUME NEW p \in Procs, Receives(p) \/ TimesOut(p) PROVE [Fate!Next]_fate
    <2>1. PICK a \in Answers : Ends(p, a)
        BY <1>8 DEF Receives, TimesOut, Answers, IInv, NetInv, RequestOK
    <2> QED
        BY <1>8, <2>1, EndsFate DEF Receives, TimesOut
<1>9. ASSUME NEW r \in net, ServerChecks(r) \/ ServerCommits(r) \/ ServerFails(r)
      PROVE  [Fate!Next]_fate
    BY <1>9, ServerFate
<1>10. ASSUME NEW u \in Users \union {NoUser}, LogsIn(u) PROVE Untouched
    BY <1>10 DEF LogsIn, storeVars, serverVars
<1>11. ASSUME NEW m \in Modes, EventChanges(m) PROVE Untouched
    BY <1>11 DEF EventChanges, storeVars, serverVars
<1>12. ASSUME NEW u \in Users, SessionOpens(u) \/ SessionCloses(u) PROVE Untouched
    BY <1>12 DEF SessionOpens, SessionCloses, storeVars, serverVars
<1>13. CASE UNCHANGED vars
    BY <1>13, FateKept DEF vars, storeVars, serverVars
<1>14. Untouched => [Fate!Next]_fate
    BY FateKept
<1> HIDE DEF Untouched
<1> QED
    BY <1>1, <1>2, <1>3, <1>4, <1>5, <1>6, <1>7, <1>8, <1>9, <1>10, <1>11, <1>12, <1>13, <1>14
    DEF Next

(* The queue implements what is promised of every basket: one that was     *)
(* held back is ordered or, after an entry in the audit log, discarded; it *)
(* is never just gone, and an order is for good (attemptSendEntry,         *)
(* discardOfflineOrder, cleanupConfirmedOfflineOrders, recovery after a crash).         *)
THEOREM QueueKeepsFates == Spec => FateOfBaskets
<1>1. Init => Fate!Init
    BY FateInit
<1>2. IInv /\ [Next]_vars => [Fate!Next]_fate
    BY FateStep
<1> QED
    BY <1>1, <1>2, Invariance, PTL DEF Spec, FateOfBaskets, Fate!Spec
=============================================================================
