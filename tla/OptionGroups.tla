---------------------------- MODULE OptionGroups ----------------------------
(* The option groups of one product: the administrators' form, the request *)
(* that saves it, the rows it leaves behind, and the two ways a till makes *)
(* a price of them (the waiter's dialog and the tiles of the quick sale).  *)
(*                                                                         *)
(* Names are left out: every group and every option is taken to have a     *)
(* distinct one.  An amount typed is a number of cents.                    *)
EXTENDS Integers, Sequences, FiniteSets, SequencesExt

CONSTANTS
    Admins,
    InitialGroups,      \* rows of the product to start from
    InitialPrice,       \* price of the product without its options
    Amounts,            \* cents an administrator types
    MAX_GROUPS, MAX_OPTIONS,
    MaxEdits, MaxSaves  \* bounds on what the administrators do

VARIABLES
    saved,      \* the product: its price, and the rows ProductOptionGroup
                \* with their ProductOptions, sorted
    open,       \* administrators whose dialog is open
    form,       \* the product in it
    reply,      \* what the last save told the administrator
    edits, saves

groupVars == <<saved, open, form, reply, edits, saves>>

NoId    == << >>
NoLimit == 0
NoProduct == [price |-> 0, groups |-> << >>]

OptionRow == [id : Seq(Nat), price : Int, active : BOOLEAN]
OptionForm == [id : Seq(Nat), cents : Nat, negative : BOOLEAN, active : BOOLEAN]

GroupOf(options) ==
    [id : Seq(Nat), type : {"SINGLE", "MULTIPLE"}, required : BOOLEAN,
     min : Nat, max : Nat, mode : {"ABSOLUTE", "SURCHARGE"}, tiles : BOOLEAN,
     options : Seq(options)]

Active(options) == {j \in DOMAIN options : options[j].active}
Count(g) == Cardinality(Active(g.options))
Larger(m, n) == IF m > n THEN m ELSE n
Lesser(m, n) == IF m < n THEN m ELSE n

----------------------------------------------------------------------------
(* The form.                                                               *)

(* loadOptionGroupsFromProduct                                             *)
LoadedGroups(rows) ==
    [i \in DOMAIN rows |->
        [rows[i] EXCEPT
            !.max = IF rows[i].type = "SINGLE" THEN 1 ELSE @,
            !.options = [j \in DOMAIN @ |->
                [id |-> @[j].id, negative |-> @[j].price < 0, active |-> @[j].active,
                 cents |-> IF @[j].price < 0 THEN -@[j].price ELSE @[j].price]]]]

Loaded(p) == [p EXCEPT !.groups = LoadedGroups(p.groups)]

Open(a) ==
    /\ a \notin open
    /\ open' = open \union {a}
    /\ form' = [form EXCEPT ![a] = Loaded(saved)]
    /\ reply' = [reply EXCEPT ![a] = "none"]
    /\ UNCHANGED <<saved, edits, saves>>

Close(a) ==
    /\ a \in open
    /\ open' = open \ {a}
    /\ form' = [form EXCEPT ![a] = NoProduct]
    /\ UNCHANGED <<saved, reply, edits, saves>>

(* An administrator's form becomes f.                                      *)
Becomes(a, f) ==
    /\ edits < MaxEdits
    /\ f # form[a]
    /\ form' = [form EXCEPT ![a] = f]
    /\ reply' = [reply EXCEPT ![a] = "none"]
    /\ edits' = edits + 1
    /\ UNCHANGED <<saved, open, saves>>

SetPrice(a, cents) == Becomes(a, [form[a] EXCEPT !.price = cents])

Edits(a, groups) == Becomes(a, [form[a] EXCEPT !.groups = groups])

CanBeAbsoluteOrQuickSale(g) == g.required /\ g.type = "SINGLE"

(* clampGroupToConstraints: what every change of a group's own fields ends *)
(* with; a change of its options does not.                                 *)
Clamped(g) ==
    LET n    == Count(g)
        low  == IF ~g.required THEN 0 ELSE Larger(1, g.min)
        min  == IF g.required /\ n > 0 THEN Lesser(low, n) ELSE low
        high == IF n > 0 THEN Lesser(Larger(g.max, low), n) ELSE Larger(g.max, low)
    IN IF g.type = "SINGLE"
       THEN [g EXCEPT !.min = IF g.required THEN 1 ELSE 0, !.max = 1,
                      !.mode = IF g.required THEN @ ELSE "SURCHARGE",
                      !.tiles = @ /\ g.required]
       ELSE [g EXCEPT !.min = min, !.max = IF @ = NoLimit THEN NoLimit ELSE Larger(high, min),
                      !.mode = "SURCHARGE", !.tiles = FALSE]

UpdateGroup(a, i, g) == Edits(a, [form[a].groups EXCEPT ![i] = Clamped(g)])

SetRequired(a, i, value) == UpdateGroup(a, i, [form[a].groups[i] EXCEPT !.required = value])

SetSelectionType(a, i, type) == UpdateGroup(a, i, [form[a].groups[i] EXCEPT !.type = type])

SetMinSelect(a, i, typed) ==
    LET g   == form[a].groups[i]
        min == IF Count(g) > 0 THEN Lesser(Larger(1, typed), Count(g)) ELSE Larger(1, typed)
    IN /\ g.type = "MULTIPLE" /\ g.required
       /\ UpdateGroup(a, i, [g EXCEPT !.min = min,
                                      !.max = IF @ = NoLimit THEN @ ELSE Larger(@, min)])

SetMaxSelect(a, i, typed) ==
    LET g   == form[a].groups[i]
        low == IF g.required THEN g.min ELSE 1
        val == Larger(low, typed)
    IN /\ g.type = "MULTIPLE"
       /\ UpdateGroup(a, i, [g EXCEPT !.max =
              IF typed = NoLimit THEN NoLimit
              ELSE IF g.max = NoLimit THEN Larger(1, low)
              ELSE IF Count(g) > 0 THEN Lesser(val, Count(g)) ELSE val])

(* setGroupPriceMode: at most one group of the form sets the final price.  *)
SetGroupPriceMode(a, i, mode) ==
    /\ CanBeAbsoluteOrQuickSale(form[a].groups[i])
    /\ Edits(a, [k \in DOMAIN form[a].groups |->
           IF k = i THEN [form[a].groups[k] EXCEPT !.mode = mode]
           ELSE IF mode = "ABSOLUTE" THEN [form[a].groups[k] EXCEPT !.mode = "SURCHARGE"]
           ELSE form[a].groups[k]])

SetGroupQuickSaleTiles(a, i, value) ==
    /\ CanBeAbsoluteOrQuickSale(form[a].groups[i])
    /\ \/ form[a].groups[i].mode = "ABSOLUTE"
       \/ \A k \in DOMAIN form[a].groups : form[a].groups[k].mode # "ABSOLUTE"
    /\ Edits(a, [k \in DOMAIN form[a].groups |->
           IF k = i THEN [form[a].groups[k] EXCEPT !.tiles = value]
           ELSE IF value THEN [form[a].groups[k] EXCEPT !.tiles = FALSE]
           ELSE form[a].groups[k]])

Swapped(s, i) == [s EXCEPT ![i] = s[i + 1], ![i + 1] = s[i]]

MoveGroup(a, i) == i < Len(form[a].groups) /\ Edits(a, Swapped(form[a].groups, i))

RemoveGroup(a, i) == Edits(a, RemoveAt(form[a].groups, i))

NewOptionGroup ==
    [id |-> NoId, type |-> "SINGLE", required |-> TRUE, min |-> 1, max |-> 1,
     mode |-> "SURCHARGE", tiles |-> FALSE, options |-> << >>]

AddGroup(a) ==
    /\ Len(form[a].groups) < MAX_GROUPS
    /\ Edits(a, Append(form[a].groups, NewOptionGroup))

EditsOptions(a, i, options) == Edits(a, [form[a].groups EXCEPT ![i].options = options])

AddOption(a, i) ==
    /\ Len(form[a].groups[i].options) < MAX_OPTIONS
    /\ EditsOptions(a, i, Append(form[a].groups[i].options,
           [id |-> NoId, cents |-> 0, negative |-> FALSE, active |-> TRUE]))

UpdateOption(a, i, j, option) ==
    EditsOptions(a, i, [form[a].groups[i].options EXCEPT ![j] = option])

Reactivate(a, i, j) == UpdateOption(a, i, j, [form[a].groups[i].options[j] EXCEPT !.active = TRUE])

SetSign(a, i, j, negative) ==
    /\ form[a].groups[i].mode = "SURCHARGE"
    /\ UpdateOption(a, i, j, [form[a].groups[i].options[j] EXCEPT !.negative = negative])

SetCents(a, i, j, cents) == UpdateOption(a, i, j, [form[a].groups[i].options[j] EXCEPT !.cents = cents])

MoveOption(a, i, j) ==
    /\ j < Len(form[a].groups[i].options)
    /\ EditsOptions(a, i, Swapped(form[a].groups[i].options, j))

ConfirmRemoveOption(a, i, j) == EditsOptions(a, i, RemoveAt(form[a].groups[i].options, j))

----------------------------------------------------------------------------
(* Saving.                                                                 *)

(* min and max of the two number fields, which the browser checks before   *)
(* it submits the form.                                                    *)
WithinLimits(g) ==
    LET most == Larger(1, Count(g))
    IN g.type = "MULTIPLE" =>
         /\ g.required => /\ 1 <= g.min
                          /\ g.min <= IF g.max = NoLimit THEN most ELSE g.max
         /\ g.max # NoLimit => (IF g.required THEN g.min ELSE 1) <= g.max /\ g.max <= most

(* handleSaveProductModal: what it checks before it sends anything.        *)
Complete(groups) ==
    \A i \in DOMAIN groups : WithinLimits(groups[i]) /\ groups[i].options # << >>

(* Mutant: every option is sent as active.                                 *)
OptionPayload_Active(g, o) ==
    [id |-> o.id, active |-> TRUE,
     price |-> IF g.mode = "SURCHARGE" /\ o.negative THEN -o.cents ELSE o.cents]

OptionPayload(g, o) ==
    [id |-> o.id, active |-> o.active,
     price |-> IF g.mode = "SURCHARGE" /\ o.negative THEN -o.cents ELSE o.cents]

(* buildOptionGroupsPayload                                                *)
Payload(groups) ==
    [i \in DOMAIN groups |->
        LET g   == groups[i]
            min == IF ~g.required THEN 0 ELSE IF g.type = "SINGLE" THEN 1 ELSE Larger(1, g.min)
            max == IF g.type = "SINGLE" THEN 1
                   ELSE IF g.max >= Larger(1, min) THEN g.max ELSE NoLimit
        IN [g EXCEPT !.min = min, !.max = max,
                     !.options = [j \in DOMAIN @ |-> OptionPayload(g, @[j])]]]

AtMostOne(p, P(_)) == \A i, k \in DOMAIN p : P(p[i]) /\ P(p[k]) => i = k
IsAbsolute(g) == g.mode = "ABSOLUTE"
HasTiles(g) == g.tiles

ValidGroup(g) ==
    /\ Len(g.options) <= MAX_OPTIONS
    /\ g.max # NoLimit => g.min <= g.max /\ g.max <= Count(g)
    /\ g.type = "SINGLE" => g.max = 1 /\ g.min <= 1
    /\ Count(g) > 0
    /\ IsAbsolute(g) => /\ g.type = "SINGLE" /\ g.min >= 1
                        /\ \A j \in DOMAIN g.options : g.options[j].price >= 0
    /\ HasTiles(g) => g.type = "SINGLE" /\ g.min >= 1

(* One group sets the final price, one has tiles, and if both exist they   *)
(* are the same group.                                                     *)
OnePriceGroup(p) ==
    /\ AtMostOne(p, IsAbsolute)
    /\ AtMostOne(p, HasTiles)
    /\ \A i, k \in DOMAIN p : IsAbsolute(p[i]) /\ HasTiles(p[k]) => IsAbsolute(p[k])

(* validateOptionGroupsPayload                                             *)
Valid(p) ==
    /\ Len(p) <= MAX_GROUPS
    /\ \A i \in DOMAIN p : ValidGroup(p[i])
    /\ OnePriceGroup(p)

Ids(s) == {s[i].id : i \in DOMAIN s} \ {NoId}
RowOf(id) == saved.groups[CHOOSE i \in DOMAIN saved.groups : saved.groups[i].id = id]

(* Ids in the request belong to the product, and options to their group.   *)
OwnIds(p) ==
    /\ Ids(p) \subseteq Ids(saved.groups)
    /\ \A i \in DOMAIN p :
         Ids(p[i].options) \subseteq IF p[i].id = NoId THEN {} ELSE Ids(RowOf(p[i].id).options)

(* Mutant: groups keep their mode and their tiles until they are written.  *)
Neutral_Keeps(g) == g

Neutral(g) == [g EXCEPT !.mode = "SURCHARGE", !.tiles = FALSE]

(* The rows when the first k groups are written: the groups the request    *)
(* does not name are deleted, the ones still to be written are neutral.    *)
(* The two partial unique indexes are checked after every statement.       *)
RowsAt(p, k) ==
    LET there == {i \in DOMAIN p : i <= k \/ p[i].id # NoId}
    IN [i \in there |-> IF i <= k THEN p[i] ELSE Neutral(RowOf(p[i].id))]

UniqueThroughout(p) ==
    \A k \in 0..Len(p) : AtMostOne(RowsAt(p, k), IsAbsolute) /\ AtMostOne(RowsAt(p, k), HasTiles)

NewGroupId(i) == <<saves + 1, i>>

(* Groups and options of the request come to have the ids of their rows.   *)
WrittenOption(i, j, o) == [o EXCEPT !.id = IF @ = NoId THEN <<saves + 1, i, j>> ELSE @]

Written(p) ==
    [i \in DOMAIN p |->
        [p[i] EXCEPT
            !.id = IF @ = NoId THEN NewGroupId(i) ELSE @,
            !.required = p[i].min >= 1,
            !.options = [j \in DOMAIN @ |-> WrittenOption(i, j, @[j])]]]

(* updateProduct: one transaction, which starts with the row of the        *)
(* product and so waits for the one before it.  The answer may get lost:   *)
(* then the dialog stays open.                                             *)
Save(a, answered) ==
    LET p == Payload(form[a].groups)
        fine == Valid(p) /\ OwnIds(p)
        done == fine /\ UniqueThroughout(p)
    IN /\ a \in open /\ Complete(form[a].groups)
       /\ saves < MaxSaves
       /\ saved' = IF done THEN [price |-> form[a].price, groups |-> Written(p)] ELSE saved
       /\ open' = IF done /\ answered THEN open \ {a} ELSE open
       /\ form' = IF done /\ answered THEN [form EXCEPT ![a] = NoProduct] ELSE form
       /\ reply' = [reply EXCEPT ![a] = IF ~answered THEN "unknown"
                                        ELSE IF done THEN "saved"
                                        ELSE IF fine THEN "database error" ELSE "refused"]
       /\ saves' = saves + 1
       /\ UNCHANGED edits

----------------------------------------------------------------------------
(* What a till makes of the groups.                                        *)

(* The active options: what a till is given of the groups.                 *)
Answers(rows) ==
    UNION {{rows[i].options[j].id : j \in Active(rows[i].options)} : i \in DOMAIN rows}

GroupIx(rows, id) == CHOOSE i \in DOMAIN rows : id \in Ids(rows[i].options)
Chosen(rows, sel, i) == {id \in sel : GroupIx(rows, id) = i}

PriceOf(rows, id) ==
    LET options == rows[GroupIx(rows, id)].options
    IN options[CHOOSE j \in DOMAIN options : options[j].id = id].price

SumOf(rows, sel) == MapThenSumSet(LAMBDA id : PriceOf(rows, id), sel)

AbsoluteIn(rows, sel) == {id \in sel : IsAbsolute(rows[GroupIx(rows, id)])}

Refused == [ok |-> FALSE, price |-> 0]

(* Mutant: surcharges alone make the price.                                *)
Priced_NoAbsolute(p, sel) == p.price + SumOf(p.groups, sel)

Priced(p, sel) ==
    LET absolute == AbsoluteIn(p.groups, sel)
        base == IF absolute = {} THEN p.price ELSE PriceOf(p.groups, CHOOSE id \in absolute : TRUE)
    IN base + SumOf(p.groups, sel \ absolute)

(* resolveOrderItemPricing                                                 *)
Charged(p, sel) ==
    IF /\ sel \subseteq Answers(p.groups)
       /\ \A i \in DOMAIN p.groups :
            LET g == p.groups[i]
                n == Cardinality(Chosen(p.groups, sel, i))
            IN n >= g.min /\ (g.max # NoLimit => n <= g.max)
       /\ Priced(p, sel) >= 0
    THEN [ok |-> TRUE, price |-> Priced(p, sel)]
    ELSE Refused

(* ProductOptionsModal: what toggleOption can reach and the main button    *)
(* accepts.                                                                *)
Selectable(rows, sel) ==
    \A i \in DOMAIN rows :
        LET n == Cardinality(Chosen(rows, sel, i))
        IN /\ rows[i].type = "SINGLE" => n <= 1
           /\ rows[i].type = "MULTIPLE" /\ rows[i].max # NoLimit => n <= rows[i].max
           /\ n >= rows[i].min

(* buildCartLine                                                           *)
CartPrice(p, sel) ==
    LET absolute == AbsoluteIn(p.groups, sel)
    IN SumOf(p.groups, sel \ absolute)
       + IF absolute = {} THEN p.price ELSE SumOf(p.groups, absolute)

FirstAnswer(g) == g.options[CHOOSE j \in Active(g.options) :
                               \A k \in Active(g.options) : j <= k].id

(* deriveQuickSaleTiles: one tile for every answer of the group with tiles,*)
(* or one for the product; the other required groups must be free of       *)
(* charge, and their first answer is taken.                                *)
Tiles(p) ==
    LET rows     == p.groups
        tiled    == {i \in DOMAIN rows : HasTiles(rows[i])}
        others   == {i \in DOMAIN rows \ tiled : rows[i].required}
        blocked  == \E id \in Answers(rows) : GroupIx(rows, id) \in others /\ PriceOf(rows, id) # 0
        defaults == {FirstAnswer(rows[i]) : i \in {k \in others : Count(rows[k]) > 0}}
    IN IF blocked THEN {}
       ELSE IF tiled = {} THEN {[key |-> NoId, answers |-> defaults, price |-> p.price]}
       ELSE {[key |-> id, answers |-> defaults \union {id},
              price |-> PriceOf(rows, id)
                        + IF IsAbsolute(rows[GroupIx(rows, id)]) THEN 0 ELSE p.price] :
                id \in {x \in Answers(rows) : GroupIx(rows, x) \in tiled}}

----------------------------------------------------------------------------
(* A row as saveOptionGroups has written it, before the first step here.   *)
StoredBefore(g) ==
    /\ ValidGroup(g)
    /\ g.required <=> g.min >= 1
    /\ g.min <= Count(g)
    /\ g.id # NoId /\ g.id[1] = 0
    /\ \A j \in DOMAIN g.options : g.options[j].id # NoId

ASSUME InitialAssumption ==
    /\ InitialPrice \in Nat
    /\ InitialGroups \subseteq Seq(GroupOf(OptionRow))
    /\ \A groups \in InitialGroups :
         /\ \A i \in DOMAIN groups : StoredBefore(groups[i])
         /\ \A i, k \in DOMAIN groups : groups[i].id = groups[k].id => i = k
         /\ OnePriceGroup(groups)

ASSUME NumbersAssumption ==
    /\ Amounts \subseteq Nat
    /\ MAX_GROUPS \in Nat /\ MAX_OPTIONS \in Nat /\ MaxEdits \in Nat /\ MaxSaves \in Nat

GroupInit ==
    /\ \E groups \in InitialGroups : saved = [price |-> InitialPrice, groups |-> groups]
    /\ open = {}
    /\ form = [a \in Admins |-> NoProduct]
    /\ reply = [a \in Admins |-> "none"]
    /\ edits = 0
    /\ saves = 0

EditOption(a, i, j) ==
    \/ Reactivate(a, i, j)
    \/ \E negative \in BOOLEAN : SetSign(a, i, j, negative)
    \/ \E cents \in Amounts : SetCents(a, i, j, cents)
    \/ MoveOption(a, i, j)
    \/ ConfirmRemoveOption(a, i, j)

EditGroup(a, i) ==
    \/ \E value \in BOOLEAN : SetRequired(a, i, value) \/ SetGroupQuickSaleTiles(a, i, value)
    \/ \E type \in {"SINGLE", "MULTIPLE"} : SetSelectionType(a, i, type)
    \/ \E typed \in 0..MAX_OPTIONS : SetMinSelect(a, i, typed) \/ SetMaxSelect(a, i, typed)
    \/ \E mode \in {"ABSOLUTE", "SURCHARGE"} : SetGroupPriceMode(a, i, mode)
    \/ MoveGroup(a, i)
    \/ RemoveGroup(a, i)
    \/ AddOption(a, i)
    \/ \E j \in DOMAIN form[a].groups[i].options : EditOption(a, i, j)

Edit(a) ==
    /\ a \in open
    /\ \/ \E cents \in Amounts : SetPrice(a, cents)
       \/ AddGroup(a)
       \/ \E i \in DOMAIN form[a].groups : EditGroup(a, i)

Administer ==
    \E a \in Admins : \/ Open(a) \/ Close(a) \/ Edit(a)
                      \/ \E answered \in BOOLEAN : Save(a, answered)

GroupSpec == GroupInit /\ [][Administer]_groupVars

----------------------------------------------------------------------------
(* Rows and forms are well formed, and ids are never given twice.          *)
GroupTypeOK ==
    /\ saved \in [price : Nat, groups : Seq(GroupOf(OptionRow))]
    /\ open \subseteq Admins
    /\ \A a \in Admins : form[a] \in [price : Nat, groups : Seq(GroupOf(OptionForm))]
    /\ reply \in [Admins -> {"none", "saved", "refused", "database error", "unknown"}]
    /\ Cardinality(Ids(saved.groups)) = Len(saved.groups)

(* saveOptionGroups neutralises the kept rows before it writes them, so    *)
(* that no order of writing runs into the two unique indexes: an           *)
(* administrator is never shown a raw database error.                      *)
NoRawDatabaseError == \A a \in Admins : reply[a] # "database error"

(* Every group saved can be answered: nothing the form lets through asks   *)
(* for more answers than the group has, although validateOptionGroups-     *)
(* Payload does not compare minSelect with them.                           *)
Answerable == \A i \in DOMAIN saved.groups : saved.groups[i].min <= Count(saved.groups[i])

(* Saving a form as it was loaded changes nothing, whatever is stored: the *)
(* form, the payload and the rows are translated into one another without  *)
(* loss, an inactive option and a negative surcharge included.             *)
SavingAgainIsHarmless ==
    [][\A a \in open : form[a] = Loaded(saved) /\ reply'[a] = "saved" => saved' = saved]_groupVars

(* A waiter is shown the price the server charges: whatever the dialog     *)
(* lets through is accepted at the price in the cart, or would be negative.*)
WaiterPriceIsCharged ==
    \A sel \in SUBSET Answers(saved.groups) :
        Selectable(saved.groups, sel) =>
            LET c == Charged(saved, sel)
            IN IF c.ok THEN c.price = CartPrice(saved, sel) ELSE CartPrice(saved, sel) < 0

(* The server accepts every sale a tile stands for (quickSaleTiles.ts).    *)
TileIsAccepted == \A t \in Tiles(saved) : Charged(saved, t.answers).ok

(* A sale costs what its tile shows.                                       *)
TilePriceIsCharged ==
    \A t \in Tiles(saved) : Charged(saved, t.answers) \in {Refused, [ok |-> TRUE, price |-> t.price]}
=============================================================================
