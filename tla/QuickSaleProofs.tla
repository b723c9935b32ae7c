-------------------------- MODULE QuickSaleProofs --------------------------
(* Proofs about the option groups of a product and about the two tills     *)
(* that sell by tiles: no save runs into the unique indexes, saving again  *)
(* changes nothing, every group can be answered, and a waiter is shown the *)
(* price the server charges; a sale shown as booked is booked as asked, and*)
(* no customer is charged twice.                                           *)
EXTENDS QuickSale, FiniteSetTheorems, SequenceTheorems, TLAPS

RowGroup == GroupOf(OptionRow)
FormGroup == GroupOf(OptionForm)
Replies == {"none", "saved", "refused", "database error", "unknown"}

GroupTypes ==
    /\ saved \in [price : Nat, groups : Seq(RowGroup)]
    /\ open \subseteq Admins
    /\ form \in [Admins -> [price : Nat, groups : Seq(FormGroup)]]
    /\ reply \in [Admins -> Replies]
    /\ edits \in Nat /\ saves \in Nat

(* Ids other than NoId are given once, the ones of save n begin with n.    *)
Distinct(groups) ==
    \A i, k \in DOMAIN groups : groups[i].id = groups[k].id /\ groups[i].id # NoId => i = k

GivenBy(groups, n) == \A i \in DOMAIN groups : groups[i].id # NoId => groups[i].id[1] <= n

(* A row as it is stored: what the validation has let through.             *)
Stored(g) ==
    /\ ValidGroup(g)
    /\ g.required <=> g.min >= 1
    /\ g.min <= Count(g)
    /\ g.id # NoId
    /\ \A j \in DOMAIN g.options : g.options[j].id # NoId

GoodRows(groups, n) ==
    /\ groups \in Seq(RowGroup)
    /\ Distinct(groups) /\ GivenBy(groups, n)
    /\ \A i \in DOMAIN groups : Stored(groups[i])

GoodForm(groups, n) ==
    /\ groups \in Seq(FormGroup)
    /\ Distinct(groups) /\ GivenBy(groups, n)

(* An administrator whose dialog is open has not been told "saved".        *)
RepliesFit == \A a \in Admins : /\ reply[a] # "database error"
                                /\ a \in open => reply[a] # "saved"

(* The inductive invariant of GroupSpec.                                   *)
GroupInv ==
    /\ GroupTypes
    /\ GoodRows(saved.groups, saves)
    /\ \A a \in Admins : GoodForm(form[a].groups, saves)
    /\ RepliesFit

----------------------------------------------------------------------------
(* Sequences and records.                                                  *)

LEMMA FunctionIsSeq ==
    ASSUME NEW S, NEW n \in Nat, NEW f \in [1..n -> S]
    PROVE  f \in Seq(S) /\ Len(f) = n
<1>1. f \in Seq(S)
    BY SeqDef
<1> QED
    BY <1>1, LenProperties

LEMMA SeqFacts ==
    ASSUME NEW S, NEW s \in Seq(S)
    PROVE  /\ Len(s) \in Nat /\ DOMAIN s = 1..Len(s) /\ s \in [1..Len(s) -> S]
           /\ \A i \in DOMAIN s : s[i] \in S
BY LenProperties

(* How many answers of a group are active is a number.                     *)
LEMMA ActiveFinite ==
    ASSUME NEW S, NEW s \in Seq(S)
    PROVE  IsFiniteSet(Active(s)) /\ Cardinality(Active(s)) \in Nat
<1>1. Len(s) \in Nat /\ DOMAIN s = 1..Len(s)
    BY SeqFacts
<1>2. IsFiniteSet(1..Len(s))
    BY <1>1, FS_Interval
<1>3. Active(s) \in SUBSET (1..Len(s))
    BY <1>1 DEF Active
<1>4. IsFiniteSet(Active(s))
    BY <1>2, <1>3, FS_Subset
<1> QED
    BY <1>4, FS_CardinalityType

LEMMA GroupFields ==
    ASSUME NEW S, NEW g \in GroupOf(S)
    PROVE  /\ g.id \in Seq(Nat) /\ g.type \in {"SINGLE", "MULTIPLE"} /\ g.required \in BOOLEAN
           /\ g.min \in Nat /\ g.max \in Nat /\ g.mode \in {"ABSOLUTE", "SURCHARGE"}
           /\ g.tiles \in BOOLEAN /\ g.options \in Seq(S)
           /\ Count(g) \in Nat
<1>1. g.options \in Seq(S)
    BY DEF GroupOf
<1>2. Count(g) \in Nat
    BY <1>1, ActiveFinite DEF Count
<1> QED
    BY <1>1, <1>2 DEF GroupOf

LEMMA LargerType ==
    ASSUME NEW m \in Nat, NEW n \in Nat
    PROVE  Larger(m, n) \in Nat /\ Lesser(m, n) \in Nat
BY DEF Larger, Lesser

----------------------------------------------------------------------------
(* The form.                                                               *)

LEMMA ClampedType ==
    ASSUME NEW g \in FormGroup
    PROVE  Clamped(g) \in FormGroup /\ Clamped(g).id = g.id
<1> DEFINE n == Count(g)
           low == IF ~g.required THEN 0 ELSE Larger(1, g.min)
           min == IF g.required /\ n > 0 THEN Lesser(low, n) ELSE low
           high == IF n > 0 THEN Lesser(Larger(g.max, low), n) ELSE Larger(g.max, low)
           max == IF g.max = NoLimit THEN NoLimit ELSE Larger(high, min)
<1>0. g \in GroupOf(OptionForm)
    BY DEF FormGroup
<1>1. g.min \in Nat /\ g.max \in Nat /\ n \in Nat
    BY GroupFields DEF FormGroup
<1>2. low \in Nat
    BY <1>1, LargerType
<1> HIDE DEF n, low
<1>3. min \in Nat /\ high \in Nat
    BY <1>1, <1>2, LargerType
<1> HIDE DEF min, high
<1>4. max \in Nat
    BY <1>1, <1>3, LargerType DEF NoLimit
<1> HIDE DEF max
<1>5. CASE g.type = "SINGLE"
    <2>1. Clamped(g) = [g EXCEPT !.min = IF g.required THEN 1 ELSE 0, !.max = 1,
                                 !.mode = IF g.required THEN @ ELSE "SURCHARGE",
                                 !.tiles = @ /\ g.required]
        BY <1>5 DEF Clamped
    <2>2. PICK tiles : tiles = (g.tiles /\ g.required)
        OBVIOUS
    <2>3. PICK mode : mode = IF g.required THEN g.mode ELSE "SURCHARGE"
        OBVIOUS
    <2>4. PICK least : least = IF g.required THEN 1 ELSE 0
        OBVIOUS
    <2>5. tiles \in BOOLEAN /\ least \in Nat /\ mode \in {"ABSOLUTE", "SURCHARGE"}
        BY <2>2, <2>3, <2>4, GroupFields DEF FormGroup
    <2>6. Clamped(g) = [g EXCEPT !.min = least, !.max = 1, !.mode = mode, !.tiles = tiles]
        BY <2>1, <2>2, <2>3, <2>4, Zenon
    <2>7. /\ [g EXCEPT !.min = least, !.max = 1, !.mode = mode, !.tiles = tiles] \in GroupOf(OptionForm)
          /\ [g EXCEPT !.min = least, !.max = 1, !.mode = mode, !.tiles = tiles].id = g.id
        BY <1>0, <2>5 DEF GroupOf
    <2> QED
        BY <2>6, <2>7, Zenon DEF FormGroup
<1>6. CASE g.type # "SINGLE"
    <2>1. Clamped(g) = [g EXCEPT !.min = min, !.max = max, !.mode = "SURCHARGE", !.tiles = FALSE]
        BY <1>6 DEF Clamped, max, min, high, low, n
    <2>2. /\ [g EXCEPT !.min = min, !.max = max, !.mode = "SURCHARGE", !.tiles = FALSE]
                \in GroupOf(OptionForm)
          /\ [g EXCEPT !.min = min, !.max = max, !.mode = "SURCHARGE", !.tiles = FALSE].id = g.id
        BY <1>0, <1>3, <1>4 DEF GroupOf
    <2> QED
        BY <2>1, <2>2, Zenon DEF FormGroup
<1> QED
    BY <1>5, <1>6

(* The groups of a form after a change that leaves every group in place.   *)
LEMMA SameIds ==
    ASSUME NEW f, NEW n \in Nat, GoodForm(f, n), NEW h \in Seq(FormGroup),
           Len(h) = Len(f), \A i \in DOMAIN f : h[i].id = f[i].id
    PROVE  GoodForm(h, n)
<1>1. DOMAIN h = DOMAIN f
    BY SeqFacts DEF GoodForm
<1> QED
    BY <1>1 DEF GoodForm, Distinct, GivenBy

LEMMA OneGroupChanged ==
    ASSUME NEW f, NEW n \in Nat, GoodForm(f, n), NEW i \in DOMAIN f,
           NEW g \in FormGroup, g.id = f[i].id
    PROVE  GoodForm([f EXCEPT ![i] = g], n)
<1>1. f \in Seq(FormGroup) /\ i \in 1..Len(f)
    BY SeqFacts DEF GoodForm
<1>2. /\ [f EXCEPT ![i] = g] \in Seq(FormGroup)
      /\ Len([f EXCEPT ![i] = g]) = Len(f)
      /\ \A k \in 1..Len(f) : [f EXCEPT ![i] = g][k] = IF k = i THEN g ELSE f[k]
    BY <1>1, ExceptSeq
<1>3. \A k \in DOMAIN f : [f EXCEPT ![i] = g][k].id = f[k].id
    BY <1>1, <1>2, SeqFacts
<1> QED
    BY <1>2, <1>3, SameIds

LEMMA OptionsChanged ==
    ASSUME NEW f, NEW n \in Nat, GoodForm(f, n), NEW i \in DOMAIN f, NEW options \in Seq(OptionForm)
    PROVE  GoodForm([f EXCEPT ![i].options = options], n)
<1>1. f[i] \in FormGroup
    BY SeqFacts DEF GoodForm
<1>2. [f[i] EXCEPT !.options = options] \in FormGroup /\ [f[i] EXCEPT !.options = options].id = f[i].id
    BY <1>1 DEF FormGroup, GroupOf
<1>3. [f EXCEPT ![i].options = options] = [f EXCEPT ![i] = [f[i] EXCEPT !.options = options]]
    OBVIOUS
<1> QED
    BY <1>2, <1>3, OneGroupChanged

LEMMA SwappedSeq ==
    ASSUME NEW S, NEW s \in Seq(S), NEW i \in DOMAIN s, i < Len(s)
    PROVE  /\ Swapped(s, i) \in Seq(S) /\ Len(Swapped(s, i)) = Len(s)
           /\ \A k \in DOMAIN s :
                 Swapped(s, i)[k] = IF k = i THEN s[i + 1] ELSE IF k = i + 1 THEN s[i] ELSE s[k]
<1>1. /\ Len(s) \in Nat /\ DOMAIN s = 1..Len(s) /\ s \in [1..Len(s) -> S]
      /\ i \in 1..Len(s) /\ i + 1 \in 1..Len(s)
    BY SeqFacts
<1>2. Swapped(s, i) \in [1..Len(s) -> S]
    BY <1>1 DEF Swapped
<1>3. \A k \in DOMAIN s :
         Swapped(s, i)[k] = IF k = i THEN s[i + 1] ELSE IF k = i + 1 THEN s[i] ELSE s[k]
    BY <1>1 DEF Swapped
<1> QED
    BY <1>1, <1>2, <1>3, FunctionIsSeq

LEMMA RemovedSeq ==
    ASSUME NEW S, NEW s \in Seq(S), NEW i \in DOMAIN s
    PROVE  /\ RemoveAt(s, i) \in Seq(S) /\ Len(RemoveAt(s, i)) = Len(s) - 1
           /\ \A k \in 1..(Len(s) - 1) : RemoveAt(s, i)[k] = IF k < i THEN s[k] ELSE s[k + 1]
<1>1. Len(s) \in Nat /\ i \in 1..Len(s)
    BY SeqFacts
<1>2. /\ SubSeq(s, 1, i - 1) \in Seq(S) /\ Len(SubSeq(s, 1, i - 1)) = i - 1
      /\ \A k \in 1..(i - 1) : SubSeq(s, 1, i - 1)[k] = s[k]
    BY <1>1
<1>3. /\ SubSeq(s, i + 1, Len(s)) \in Seq(S) /\ Len(SubSeq(s, i + 1, Len(s))) = Len(s) - i
      /\ \A k \in 1..(Len(s) - i) : SubSeq(s, i + 1, Len(s))[k] = s[i + k]
    BY <1>1
<1> DEFINE front == SubSeq(s, 1, i - 1)
           back == SubSeq(s, i + 1, Len(s))
<1> HIDE DEF front, back
<1>4. RemoveAt(s, i) = front \o back
    BY DEF RemoveAt, front, back
<1>5. /\ front \in Seq(S) /\ back \in Seq(S) /\ Len(front) = i - 1 /\ Len(back) = Len(s) - i
    BY <1>2, <1>3 DEF front, back
<1>6. /\ front \o back \in Seq(S) /\ Len(front \o back) = Len(s) - 1
      /\ \A k \in 1..(Len(s) - 1) : (front \o back)[k] = IF k <= i - 1 THEN front[k] ELSE back[k - (i - 1)]
    BY <1>1, <1>5, ConcatProperties
<1>7. ASSUME NEW k \in 1..(Len(s) - 1)
      PROVE  (front \o back)[k] = IF k < i THEN s[k] ELSE s[k + 1]
    <2>1. CASE k < i
        <3>1. k \in 1..(i - 1) /\ k <= i - 1
            BY <1>1, <2>1
        <3> QED
            BY <1>2, <1>6, <2>1, <3>1 DEF front
    <2>2. CASE ~(k < i)
        <3>1. k - (i - 1) \in 1..(Len(s) - i) /\ ~(k <= i - 1) /\ i + (k - (i - 1)) = k + 1
            BY <1>1, <2>2
        <3>2. back[k - (i - 1)] = s[k + 1]
            BY <1>3, <3>1 DEF back
        <3> QED
            BY <1>6, <2>2, <3>1, <3>2
    <2> QED
        BY <2>1, <2>2
<1> QED
    BY <1>4, <1>6, <1>7

LEMMA GroupsMoved ==
    ASSUME NEW f, NEW n \in Nat, GoodForm(f, n), NEW i \in DOMAIN f, i < Len(f)
    PROVE  GoodForm(Swapped(f, i), n)
<1>1. f \in Seq(FormGroup) /\ Len(f) \in Nat /\ DOMAIN f = 1..Len(f)
    BY SeqFacts DEF GoodForm
<1>2. /\ Swapped(f, i) \in Seq(FormGroup) /\ Len(Swapped(f, i)) = Len(f)
      /\ \A k \in DOMAIN f :
            Swapped(f, i)[k] = IF k = i THEN f[i + 1] ELSE IF k = i + 1 THEN f[i] ELSE f[k]
    BY <1>1, SwappedSeq
<1>3. DOMAIN Swapped(f, i) = DOMAIN f
    BY <1>1, <1>2, SeqFacts
<1> QED
    BY <1>1, <1>2, <1>3 DEF GoodForm, Distinct, GivenBy

LEMMA GroupRemoved ==
    ASSUME NEW f, NEW n \in Nat, GoodForm(f, n), NEW i \in DOMAIN f
    PROVE  GoodForm(RemoveAt(f, i), n)
<1>1. f \in Seq(FormGroup) /\ Len(f) \in Nat /\ DOMAIN f = 1..Len(f)
    BY SeqFacts DEF GoodForm
<1>2. /\ RemoveAt(f, i) \in Seq(FormGroup) /\ Len(RemoveAt(f, i)) = Len(f) - 1
      /\ \A k \in 1..(Len(f) - 1) : RemoveAt(f, i)[k] = IF k < i THEN f[k] ELSE f[k + 1]
    BY <1>1, RemovedSeq
<1>3. DOMAIN RemoveAt(f, i) = 1..(Len(f) - 1) /\ i \in 1..Len(f)
    BY <1>1, <1>2, SeqFacts
<1> DEFINE from(k) == IF k < i THEN k ELSE k + 1
<1>4. \A k \in 1..(Len(f) - 1) : from(k) \in 1..Len(f) /\ RemoveAt(f, i)[k] = f[from(k)]
    BY <1>1, <1>2, <1>3
<1>5. \A k, m \in 1..(Len(f) - 1) : from(k) = from(m) => k = m
    BY <1>1, <1>3
<1> HIDE DEF from
<1>6. Distinct(RemoveAt(f, i))
    BY <1>1, <1>3, <1>4, <1>5 DEF GoodForm, Distinct
<1>7. GivenBy(RemoveAt(f, i), n)
    BY <1>1, <1>3, <1>4 DEF GoodForm, GivenBy
<1> QED
    BY <1>2, <1>6, <1>7 DEF GoodForm

LEMMA GroupAdded ==
    ASSUME NEW f, NEW n \in Nat, GoodForm(f, n)
    PROVE  GoodForm(Append(f, NewOptionGroup), n)
<1>1. f \in Seq(FormGroup) /\ Len(f) \in Nat /\ DOMAIN f = 1..Len(f)
    BY SeqFacts DEF GoodForm
<1>2. NewOptionGroup \in FormGroup /\ NewOptionGroup.id = NoId
    BY EmptySeq DEF NewOptionGroup, FormGroup, GroupOf, NoId
<1>3. /\ Append(f, NewOptionGroup) \in Seq(FormGroup)
      /\ DOMAIN Append(f, NewOptionGroup) = 1..(Len(f) + 1)
      /\ \A k \in 1..Len(f) : Append(f, NewOptionGroup)[k] = f[k]
      /\ Append(f, NewOptionGroup)[Len(f) + 1] = NewOptionGroup
    BY <1>1, <1>2
<1> QED
    BY <1>1, <1>2, <1>3 DEF GoodForm, Distinct, GivenBy

----------------------------------------------------------------------------
(* The steps of an administrator keep GroupInv: the form.                  *)

LEMMA BecomesKeeps ==
    ASSUME GroupInv, NEW a \in Admins, NEW f \in [price : Nat, groups : Seq(FormGroup)],
           GoodForm(f.groups, saves), Becomes(a, f)
    PROVE  GroupInv'
<1>1. /\ form' = [form EXCEPT ![a] = f] /\ reply' = [reply EXCEPT ![a] = "none"]
      /\ edits' = edits + 1 /\ UNCHANGED <<saved, open, saves>>
    BY DEF Becomes
<1>2. GroupTypes'
    <2>1. form' \in [Admins -> [price : Nat, groups : Seq(FormGroup)]]
        BY <1>1 DEF GroupInv, GroupTypes
    <2>2. reply' \in [Admins -> Replies]
        BY <1>1 DEF GroupInv, GroupTypes, Replies
    <2>3. edits' \in Nat
        BY <1>1 DEF GroupInv, GroupTypes
    <2> QED
        BY <1>1, <2>1, <2>2, <2>3 DEF GroupInv, GroupTypes
<1>3. RepliesFit'
    BY <1>1 DEF GroupInv, GroupTypes, RepliesFit
<1>4. \A b \in Admins : GoodForm(form'[b].groups, saves)
    BY <1>1 DEF GroupInv, GroupTypes
<1> QED
    BY <1>1, <1>2, <1>3, <1>4 DEF GroupInv

LEMMA EditsKeep ==
    ASSUME GroupInv, NEW a \in Admins, NEW groups, GoodForm(groups, saves), Edits(a, groups)
    PROVE  GroupInv'
<1>1. groups \in Seq(FormGroup) /\ form[a] \in [price : Nat, groups : Seq(FormGroup)]
    BY DEF GroupInv, GroupTypes, GoodForm
<1>2. PICK f : f = [form[a] EXCEPT !.groups = groups]
    OBVIOUS
<1>3. f \in [price : Nat, groups : Seq(FormGroup)] /\ f.groups = groups
    BY <1>1, <1>2
<1> QED
    BY <1>2, <1>3, BecomesKeeps DEF Edits

(* A group of a form, and its answers.                                     *)
LEMMA FormFacts ==
    ASSUME GroupInv, NEW a \in Admins, NEW i \in DOMAIN form[a].groups
    PROVE  /\ saves \in Nat
           /\ GoodForm(form[a].groups, saves)
           /\ form[a].groups[i] \in FormGroup
           /\ form[a].groups[i].options \in Seq(OptionForm)
<1>1. GoodForm(form[a].groups, saves) /\ saves \in Nat
    BY DEF GroupInv, GroupTypes
<1>2. form[a].groups[i] \in FormGroup
    BY <1>1, SeqFacts DEF GoodForm
<1> QED
    BY <1>1, <1>2, GroupFields DEF FormGroup

LEMMA UpdateGroupKeeps ==
    ASSUME GroupInv, NEW a \in Admins, NEW i \in DOMAIN form[a].groups,
           NEW g \in FormGroup, g.id = form[a].groups[i].id, UpdateGroup(a, i, g)
    PROVE  GroupInv'
<1>1. Clamped(g) \in FormGroup /\ Clamped(g).id = form[a].groups[i].id
    BY ClampedType
<1>2. GoodForm([form[a].groups EXCEPT ![i] = Clamped(g)], saves)
    BY <1>1, FormFacts, OneGroupChanged
<1> QED
    BY <1>2, EditsKeep DEF UpdateGroup

LEMMA SetRequiredKeeps ==
    ASSUME GroupInv, NEW a \in Admins, NEW i \in DOMAIN form[a].groups,
           NEW value \in BOOLEAN, SetRequired(a, i, value)
    PROVE  GroupInv'
<1>1. PICK g : g = [form[a].groups[i] EXCEPT !.required = value]
    OBVIOUS
<1>2. PICK g0 : g0 = form[a].groups[i]
    OBVIOUS
<1>3. g0 \in FormGroup
    BY <1>2, FormFacts
<1>4. g \in FormGroup /\ g.id = g0.id
    BY <1>1, <1>2, <1>3 DEF FormGroup, GroupOf
<1> QED
    BY <1>1, <1>2, <1>4, UpdateGroupKeeps DEF SetRequired

LEMMA SetSelectionTypeKeeps ==
    ASSUME GroupInv, NEW a \in Admins, NEW i \in DOMAIN form[a].groups,
           NEW type \in {"SINGLE", "MULTIPLE"}, SetSelectionType(a, i, type)
    PROVE  GroupInv'
<1>1. PICK g : g = [form[a].groups[i] EXCEPT !.type = type]
    OBVIOUS
<1>2. PICK g0 : g0 = form[a].groups[i]
    OBVIOUS
<1>3. g0 \in FormGroup
    BY <1>2, FormFacts
<1>4. g \in FormGroup /\ g.id = g0.id
    BY <1>1, <1>2, <1>3 DEF FormGroup, GroupOf
<1> QED
    BY <1>1, <1>2, <1>4, UpdateGroupKeeps DEF SetSelectionType

LEMMA SetMinSelectKeeps ==
    ASSUME GroupInv, NEW a \in Admins, NEW i \in DOMAIN form[a].groups,
           NEW typed \in Nat, SetMinSelect(a, i, typed)
    PROVE  GroupInv'
<1>1. PICK g : g = form[a].groups[i]
    OBVIOUS
<1>2. g \in FormGroup /\ g.max \in Nat /\ Count(g) \in Nat
    BY <1>1, FormFacts, GroupFields DEF FormGroup
<1>3. PICK min : min = IF Count(g) > 0 THEN Lesser(Larger(1, typed), Count(g)) ELSE Larger(1, typed)
    OBVIOUS
<1>4. min \in Nat
    BY <1>2, <1>3, LargerType
<1>5. PICK max : max = IF g.max = NoLimit THEN g.max ELSE Larger(g.max, min)
    OBVIOUS
<1>6. max \in Nat
    BY <1>2, <1>4, <1>5, LargerType
<1>7. PICK h : h = [g EXCEPT !.min = min, !.max = max]
    OBVIOUS
<1>8. h \in FormGroup /\ h.id = g.id
    BY <1>2, <1>4, <1>6, <1>7 DEF FormGroup, GroupOf
<1>9. UpdateGroup(a, i, h)
    BY <1>1, <1>3, <1>5, <1>7 DEF SetMinSelect
<1> QED
    BY <1>1, <1>8, <1>9, UpdateGroupKeeps

LEMMA SetMaxSelectKeeps ==
    ASSUME GroupInv, NEW a \in Admins, NEW i \in DOMAIN form[a].groups,
           NEW typed \in Nat, SetMaxSelect(a, i, typed)
    PROVE  GroupInv'
<1>1. PICK g : g = form[a].groups[i]
    OBVIOUS
<1>2. g \in FormGroup /\ g.min \in Nat /\ Count(g) \in Nat
    BY <1>1, FormFacts, GroupFields DEF FormGroup
<1>3. PICK low : low = IF g.required THEN g.min ELSE 1
    OBVIOUS
<1>4. PICK val : val = Larger(low, typed)
    OBVIOUS
<1>5. low \in Nat /\ val \in Nat
    BY <1>2, <1>3, <1>4, LargerType
<1>6. PICK max : max = IF typed = NoLimit THEN NoLimit
                       ELSE IF g.max = NoLimit THEN Larger(1, low)
                       ELSE IF Count(g) > 0 THEN Lesser(val, Count(g)) ELSE val
    OBVIOUS
<1>7. max \in Nat
    BY <1>2, <1>5, <1>6, LargerType DEF NoLimit
<1>8. PICK h : h = [g EXCEPT !.max = max]
    OBVIOUS
<1>9. h \in FormGroup /\ h.id = g.id
    BY <1>2, <1>7, <1>8 DEF FormGroup, GroupOf
<1>10. UpdateGroup(a, i, h)
    BY <1>1, <1>3, <1>4, <1>6, <1>8 DEF SetMaxSelect
<1> QED
    BY <1>1, <1>9, <1>10, UpdateGroupKeeps

(* A control that writes a field of every group of a form.                 *)
LEMMA EveryGroupKeeps ==
    ASSUME GroupInv, NEW a \in Admins, NEW h, DOMAIN h = DOMAIN form[a].groups,
           h \in [DOMAIN form[a].groups -> FormGroup],
           \A k \in DOMAIN form[a].groups : h[k].id = form[a].groups[k].id,
           Edits(a, h)
    PROVE  GroupInv'
<1>1. GoodForm(form[a].groups, saves) /\ saves \in Nat
    BY DEF GroupInv, GroupTypes
<1>2. Len(form[a].groups) \in Nat /\ DOMAIN form[a].groups = 1..Len(form[a].groups)
    BY <1>1, SeqFacts DEF GoodForm
<1>3. h \in Seq(FormGroup) /\ Len(h) = Len(form[a].groups)
    BY <1>2, FunctionIsSeq
<1>4. GoodForm(h, saves)
    BY <1>1, <1>3, SameIds
<1> QED
    BY <1>4, EditsKeep

LEMMA SetGroupPriceModeKeeps ==
    ASSUME GroupInv, NEW a \in Admins, NEW i \in DOMAIN form[a].groups,
           NEW mode \in {"ABSOLUTE", "SURCHARGE"}, SetGroupPriceMode(a, i, mode)
    PROVE  GroupInv'
<1> DEFINE f == form[a].groups
<1>1. PICK h : h = [k \in DOMAIN f |->
           IF k = i THEN [f[k] EXCEPT !.mode = mode]
           ELSE IF mode = "ABSOLUTE" THEN [f[k] EXCEPT !.mode = "SURCHARGE"] ELSE f[k]]
    OBVIOUS
<1>2. \A k \in DOMAIN f : f[k] \in FormGroup
    BY FormFacts
<1> HIDE DEF f
<1>3. ASSUME NEW k \in DOMAIN f
      PROVE  h[k] \in FormGroup /\ h[k].id = f[k].id
    <2>1. /\ [f[k] EXCEPT !.mode = mode] \in FormGroup
          /\ [f[k] EXCEPT !.mode = mode].id = f[k].id
          /\ [f[k] EXCEPT !.mode = "SURCHARGE"] \in FormGroup
          /\ [f[k] EXCEPT !.mode = "SURCHARGE"].id = f[k].id
        BY <1>2 DEF FormGroup, GroupOf
    <2> QED
        BY <1>1, <1>2, <2>1
<1>4. DOMAIN h = DOMAIN f /\ h \in [DOMAIN f -> FormGroup]
    BY <1>1, <1>3
<1>5. Edits(a, h)
    BY <1>1 DEF SetGroupPriceMode, f
<1> QED
    BY <1>3, <1>4, <1>5, EveryGroupKeeps DEF f

LEMMA SetGroupQuickSaleTilesKeeps ==
    ASSUME GroupInv, NEW a \in Admins, NEW i \in DOMAIN form[a].groups,
           NEW value \in BOOLEAN, SetGroupQuickSaleTiles(a, i, value)
    PROVE  GroupInv'
<1> DEFINE f == form[a].groups
<1>1. PICK h : h = [k \in DOMAIN f |->
           IF k = i THEN [f[k] EXCEPT !.tiles = value]
           ELSE IF value THEN [f[k] EXCEPT !.tiles = FALSE] ELSE f[k]]
    OBVIOUS
<1>2. \A k \in DOMAIN f : f[k] \in FormGroup
    BY FormFacts
<1> HIDE DEF f
<1>3. ASSUME NEW k \in DOMAIN f
      PROVE  h[k] \in FormGroup /\ h[k].id = f[k].id
    <2>1. /\ [f[k] EXCEPT !.tiles = value] \in FormGroup
          /\ [f[k] EXCEPT !.tiles = value].id = f[k].id
          /\ [f[k] EXCEPT !.tiles = FALSE] \in FormGroup
          /\ [f[k] EXCEPT !.tiles = FALSE].id = f[k].id
        BY <1>2 DEF FormGroup, GroupOf
    <2> QED
        BY <1>1, <1>2, <2>1
<1>4. DOMAIN h = DOMAIN f /\ h \in [DOMAIN f -> FormGroup]
    BY <1>1, <1>3
<1>5. Edits(a, h)
    BY <1>1 DEF SetGroupQuickSaleTiles, f
<1> QED
    BY <1>3, <1>4, <1>5, EveryGroupKeeps DEF f

LEMMA EditsOptionsKeep ==
    ASSUME GroupInv, NEW a \in Admins, NEW i \in DOMAIN form[a].groups,
           NEW options \in Seq(OptionForm), EditsOptions(a, i, options)
    PROVE  GroupInv'
<1>1. GoodForm([form[a].groups EXCEPT ![i].options = options], saves)
    BY FormFacts, OptionsChanged
<1> QED
    BY <1>1, EditsKeep DEF EditsOptions

LEMMA UpdateOptionKeeps ==
    ASSUME GroupInv, NEW a \in Admins, NEW i \in DOMAIN form[a].groups,
           NEW j \in DOMAIN form[a].groups[i].options, NEW option \in OptionForm,
           UpdateOption(a, i, j, option)
    PROVE  GroupInv'
<1>1. PICK options : options = form[a].groups[i].options
    OBVIOUS
<1>2. options \in Seq(OptionForm) /\ j \in 1..Len(options)
    BY <1>1, FormFacts, SeqFacts
<1>3. [options EXCEPT ![j] = option] \in Seq(OptionForm)
    BY <1>2, ExceptSeq
<1> QED
    BY <1>1, <1>3, EditsOptionsKeep DEF UpdateOption

LEMMA EditOptionKeeps ==
    ASSUME GroupInv, NEW a \in Admins, NEW i \in DOMAIN form[a].groups,
           NEW j \in DOMAIN form[a].groups[i].options, EditOption(a, i, j)
    PROVE  GroupInv'
<1>1. PICK options : options = form[a].groups[i].options
    OBVIOUS
<1>2. options \in Seq(OptionForm) /\ j \in DOMAIN options /\ options[j] \in OptionForm
    BY <1>1, FormFacts, SeqFacts
<1>3. CASE Reactivate(a, i, j)
    <2>1. [options[j] EXCEPT !.active = TRUE] \in OptionForm
        BY <1>2 DEF OptionForm
    <2> QED
        BY <1>1, <1>3, <2>1, UpdateOptionKeeps DEF Reactivate
<1>4. ASSUME NEW negative \in BOOLEAN, SetSign(a, i, j, negative)
      PROVE  GroupInv'
    <2>1. [options[j] EXCEPT !.negative = negative] \in OptionForm
        BY <1>2 DEF OptionForm
    <2> QED
        BY <1>1, <1>4, <2>1, UpdateOptionKeeps DEF SetSign
<1>5. ASSUME NEW cents \in Amounts, SetCents(a, i, j, cents)
      PROVE  GroupInv'
    <2>1. cents \in Nat
        BY NumbersAssumption
    <2>2. [options[j] EXCEPT !.cents = cents] \in OptionForm
        BY <1>2, <2>1 DEF OptionForm
    <2> QED
        BY <1>1, <1>5, <2>2, UpdateOptionKeeps DEF SetCents
<1>6. CASE MoveOption(a, i, j)
    <2>1. Swapped(options, j) \in Seq(OptionForm)
        BY <1>1, <1>2, <1>6, SwappedSeq DEF MoveOption
    <2> QED
        BY <1>1, <1>6, <2>1, EditsOptionsKeep DEF MoveOption
<1>7. CASE ConfirmRemoveOption(a, i, j)
    <2>1. RemoveAt(options, j) \in Seq(OptionForm)
        BY <1>2, RemovedSeq
    <2> QED
        BY <1>1, <1>7, <2>1, EditsOptionsKeep DEF ConfirmRemoveOption
<1> QED
    BY <1>3, <1>4, <1>5, <1>6, <1>7 DEF EditOption

LEMMA AddOptionKeeps ==
    ASSUME GroupInv, NEW a \in Admins, NEW i \in DOMAIN form[a].groups, AddOption(a, i)
    PROVE  GroupInv'
<1>1. PICK options : options = form[a].groups[i].options
    OBVIOUS
<1>2. PICK option : option = [id |-> NoId, cents |-> 0, negative |-> FALSE, active |-> TRUE]
    OBVIOUS
<1>3. options \in Seq(OptionForm) /\ option \in OptionForm
    BY <1>1, <1>2, FormFacts, EmptySeq DEF OptionForm, NoId
<1>4. Append(options, option) \in Seq(OptionForm)
    BY <1>3
<1> QED
    BY <1>1, <1>2, <1>4, EditsOptionsKeep DEF AddOption

LEMMA EditGroupKeeps ==
    ASSUME GroupInv, NEW a \in Admins, NEW i \in DOMAIN form[a].groups, EditGroup(a, i)
    PROVE  GroupInv'
<1>1. ASSUME NEW typed \in 0..MAX_OPTIONS, SetMinSelect(a, i, typed) \/ SetMaxSelect(a, i, typed)
      PROVE  GroupInv'
    <2>1. typed \in Nat
        BY NumbersAssumption
    <2> QED
        BY <1>1, <2>1, SetMinSelectKeeps, SetMaxSelectKeeps
<1>2. CASE MoveGroup(a, i)
    BY <1>2, FormFacts, GroupsMoved, EditsKeep DEF MoveGroup
<1>3. CASE RemoveGroup(a, i)
    BY <1>3, FormFacts, GroupRemoved, EditsKeep DEF RemoveGroup
<1>4. ASSUME NEW value \in BOOLEAN, SetRequired(a, i, value) \/ SetGroupQuickSaleTiles(a, i, value)
      PROVE  GroupInv'
    BY <1>4, SetRequiredKeeps, SetGroupQuickSaleTilesKeeps
<1>5. ASSUME NEW type \in {"SINGLE", "MULTIPLE"}, SetSelectionType(a, i, type)
      PROVE  GroupInv'
    BY <1>5, SetSelectionTypeKeeps
<1>6. ASSUME NEW mode \in {"ABSOLUTE", "SURCHARGE"}, SetGroupPriceMode(a, i, mode)
      PROVE  GroupInv'
    BY <1>6, SetGroupPriceModeKeeps
<1>7. CASE AddOption(a, i)
    BY <1>7, AddOptionKeeps
<1>8. ASSUME NEW j \in DOMAIN form[a].groups[i].options, EditOption(a, i, j)
      PROVE  GroupInv'
    BY <1>8, EditOptionKeeps
<1> QED
    BY <1>1, <1>2, <1>3, <1>4, <1>5, <1>6, <1>7, <1>8 DEF EditGroup

LEMMA EditKeeps ==
    ASSUME GroupInv, NEW a \in Admins, Edit(a)
    PROVE  GroupInv'
<1>1. GoodForm(form[a].groups, saves) /\ saves \in Nat
    BY DEF GroupInv, GroupTypes
<1>2. ASSUME NEW cents \in Amounts, SetPrice(a, cents)
      PROVE  GroupInv'
    <2>1. PICK f : f = [form[a] EXCEPT !.price = cents]
        OBVIOUS
    <2>2. cents \in Nat /\ form[a] \in [price : Nat, groups : Seq(FormGroup)]
        BY NumbersAssumption DEF GroupInv, GroupTypes
    <2>3. f \in [price : Nat, groups : Seq(FormGroup)] /\ f.groups = form[a].groups
        BY <2>1, <2>2
    <2> QED
        BY <1>1, <1>2, <2>1, <2>3, BecomesKeeps DEF SetPrice
<1>3. CASE AddGroup(a)
    BY <1>1, <1>3, GroupAdded, EditsKeep DEF AddGroup
<1> QED
    BY <1>2, <1>3, EditGroupKeeps DEF Edit

----------------------------------------------------------------------------
(* Opening and closing the dialog.                                         *)

LEMMA LoadedType ==
    ASSUME NEW rows \in Seq(RowGroup)
    PROVE  /\ LoadedGroups(rows) \in Seq(FormGroup) /\ Len(LoadedGroups(rows)) = Len(rows)
           /\ DOMAIN LoadedGroups(rows) = DOMAIN rows
           /\ \A i \in DOMAIN rows : LoadedGroups(rows)[i].id = rows[i].id
<1> DEFINE option(i, j) ==
               [id |-> rows[i].options[j].id, negative |-> rows[i].options[j].price < 0,
                active |-> rows[i].options[j].active,
                cents |-> IF rows[i].options[j].price < 0 THEN -rows[i].options[j].price
                          ELSE rows[i].options[j].price]
           options(i) == [j \in DOMAIN rows[i].options |-> option(i, j)]
           max(i) == IF rows[i].type = "SINGLE" THEN 1 ELSE rows[i].max
           group(i) == [rows[i] EXCEPT !.max = max(i), !.options = options(i)]
<1>1. LoadedGroups(rows) = [i \in DOMAIN rows |-> group(i)]
    BY DEF LoadedGroups
<1>2. ASSUME NEW i \in DOMAIN rows
      PROVE  group(i) \in FormGroup /\ group(i).id = rows[i].id
    <2>1. rows[i] \in RowGroup /\ rows[i].options \in Seq(OptionRow) /\ rows[i].max \in Nat
        BY SeqFacts, GroupFields DEF RowGroup
    <2>2. ASSUME NEW j \in DOMAIN rows[i].options
          PROVE  option(i, j) \in OptionForm
        <3>1. PICK o : o = rows[i].options[j]
            OBVIOUS
        <3>2. o \in OptionRow
            BY <2>1, <3>1, SeqFacts
        <3>3. PICK cents : cents = IF o.price < 0 THEN -o.price ELSE o.price
            OBVIOUS
        <3>4. cents \in Nat
            BY <3>2, <3>3 DEF OptionRow
        <3>5. PICK negative : negative = (o.price < 0)
            OBVIOUS
        <3>6. negative \in BOOLEAN /\ o.id \in Seq(Nat) /\ o.active \in BOOLEAN
            BY <3>2, <3>5 DEF OptionRow
        <3>7. [id |-> o.id, negative |-> negative, active |-> o.active, cents |-> cents] \in OptionForm
            BY <3>4, <3>6 DEF OptionForm
        <3> QED
            BY <3>1, <3>3, <3>5, <3>7, Zenon
    <2> HIDE DEF option
    <2>3. Len(rows[i].options) \in Nat /\ DOMAIN rows[i].options = 1..Len(rows[i].options)
        BY <2>1, SeqFacts
    <2>4. options(i) \in [1..Len(rows[i].options) -> OptionForm]
        BY <2>2, <2>3
    <2>5. options(i) \in Seq(OptionForm)
        BY <2>3, <2>4, FunctionIsSeq
    <2>6. max(i) \in Nat
        BY <2>1
    <2> HIDE DEF options, max
    <2> QED
        BY <2>1, <2>5, <2>6 DEF RowGroup, FormGroup, GroupOf
<1> HIDE DEF group
<1>3. Len(rows) \in Nat /\ DOMAIN rows = 1..Len(rows)
    BY SeqFacts
<1>4. LoadedGroups(rows) \in [1..Len(rows) -> FormGroup]
    BY <1>1, <1>2, <1>3
<1> QED
    BY <1>1, <1>2, <1>3, <1>4, FunctionIsSeq

LEMMA OpenKeeps ==
    ASSUME GroupInv, NEW a \in Admins, Open(a)
    PROVE  GroupInv'
<1>1. saved \in [price : Nat, groups : Seq(RowGroup)] /\ GoodRows(saved.groups, saves)
    BY DEF GroupInv, GroupTypes
<1>2. PICK f : f = Loaded(saved)
    OBVIOUS
<1>3. f \in [price : Nat, groups : Seq(FormGroup)] /\ f.groups = LoadedGroups(saved.groups)
    BY <1>1, <1>2, LoadedType DEF Loaded
<1>4. GoodForm(LoadedGroups(saved.groups), saves)
    BY <1>1, LoadedType DEF GoodRows, GoodForm, Distinct, GivenBy
<1>5. /\ open' = open \union {a} /\ form' = [form EXCEPT ![a] = f]
      /\ reply' = [reply EXCEPT ![a] = "none"] /\ UNCHANGED <<saved, edits, saves>>
    BY <1>2 DEF Open
<1>6. form' \in [Admins -> [price : Nat, groups : Seq(FormGroup)]] /\ open' \subseteq Admins
    BY <1>3, <1>5 DEF GroupInv, GroupTypes
<1>7. reply' \in [Admins -> Replies]
    BY <1>5 DEF GroupInv, GroupTypes, Replies
<1>8. GroupTypes'
    BY <1>5, <1>6, <1>7 DEF GroupInv, GroupTypes
<1>9. RepliesFit'
    BY <1>5 DEF GroupInv, GroupTypes, RepliesFit
<1>10. \A b \in Admins : GoodForm(form'[b].groups, saves)
    BY <1>3, <1>4, <1>5 DEF GroupInv, GroupTypes
<1> QED
    BY <1>5, <1>8, <1>9, <1>10 DEF GroupInv

LEMMA NoProductFits ==
    ASSUME NEW n \in Nat
    PROVE  NoProduct \in [price : Nat, groups : Seq(FormGroup)] /\ GoodForm(NoProduct.groups, n)
<1>1. << >> \in Seq(FormGroup) /\ Len(<< >>) = 0 /\ DOMAIN << >> = {}
    BY EmptySeq, SeqFacts
<1> QED
    BY <1>1 DEF NoProduct, GoodForm, Distinct, GivenBy

LEMMA CloseKeeps ==
    ASSUME GroupInv, NEW a \in Admins, Close(a)
    PROVE  GroupInv'
<1>1. /\ open' = open \ {a} /\ form' = [form EXCEPT ![a] = NoProduct]
      /\ UNCHANGED <<saved, reply, edits, saves>>
    BY DEF Close
<1>2. saves \in Nat
    BY DEF GroupInv, GroupTypes
<1>3. form' \in [Admins -> [price : Nat, groups : Seq(FormGroup)]] /\ open' \subseteq Admins
    BY <1>1, <1>2, NoProductFits DEF GroupInv, GroupTypes
<1>4. GroupTypes'
    BY <1>1, <1>3 DEF GroupInv, GroupTypes
<1>5. RepliesFit'
    BY <1>1 DEF GroupInv, RepliesFit
<1>6. \A b \in Admins : GoodForm(form'[b].groups, saves)
    BY <1>1, <1>2, NoProductFits DEF GroupInv, GroupTypes
<1> QED
    BY <1>1, <1>4, <1>5, <1>6 DEF GroupInv

----------------------------------------------------------------------------
(* Saving.                                                                 *)

(* What becomes of minSelect and maxSelect on the way to the server.       *)
PayloadMin(g) == IF ~g.required THEN 0 ELSE IF g.type = "SINGLE" THEN 1 ELSE Larger(1, g.min)
PayloadMax(g) ==
    IF g.type = "SINGLE" THEN 1
    ELSE IF g.max >= Larger(1, PayloadMin(g)) THEN g.max ELSE NoLimit

PayloadOptions(g) == [j \in DOMAIN g.options |-> OptionPayload(g, g.options[j])]

LEMMA PayloadIs ==
    ASSUME NEW f
    PROVE  Payload(f) = [i \in DOMAIN f |->
               [f[i] EXCEPT !.min = PayloadMin(f[i]), !.max = PayloadMax(f[i]),
                            !.options = PayloadOptions(f[i])]]
BY DEF Payload, PayloadMin, PayloadMax, PayloadOptions

LEMMA PayloadNumbers ==
    ASSUME NEW g \in FormGroup
    PROVE  PayloadMin(g) \in Nat /\ PayloadMax(g) \in Nat
<1>1. g.min \in Nat /\ g.max \in Nat
    BY GroupFields DEF FormGroup
<1>2. PayloadMin(g) \in Nat
    BY <1>1, LargerType DEF PayloadMin
<1> QED
    BY <1>1, <1>2 DEF PayloadMax, NoLimit

LEMMA PayloadOptionsType ==
    ASSUME NEW g \in FormGroup
    PROVE  /\ PayloadOptions(g) \in Seq(OptionRow) /\ Len(PayloadOptions(g)) = Len(g.options)
           /\ DOMAIN PayloadOptions(g) = DOMAIN g.options
           /\ \A j \in DOMAIN g.options : /\ PayloadOptions(g)[j].id = g.options[j].id
                                          /\ PayloadOptions(g)[j].active = g.options[j].active
<1>1. /\ g.options \in Seq(OptionForm) /\ Len(g.options) \in Nat
      /\ DOMAIN g.options = 1..Len(g.options)
      /\ \A j \in DOMAIN g.options : g.options[j] \in OptionForm
    BY GroupFields, SeqFacts DEF FormGroup
<1>2. ASSUME NEW o \in OptionForm
      PROVE  /\ OptionPayload(g, o) \in OptionRow
             /\ OptionPayload(g, o).id = o.id /\ OptionPayload(g, o).active = o.active
    <2>1. PICK price : price = IF g.mode = "SURCHARGE" /\ o.negative THEN -o.cents ELSE o.cents
        OBVIOUS
    <2>2. price \in Int
        BY <2>1 DEF OptionForm
    <2>3. OptionPayload(g, o) = [id |-> o.id, active |-> o.active, price |-> price]
        BY <2>1 DEF OptionPayload
    <2> QED
        BY <2>2, <2>3 DEF OptionForm, OptionRow
<1>3. PayloadOptions(g) \in [1..Len(g.options) -> OptionRow]
    BY <1>1, <1>2 DEF PayloadOptions
<1> QED
    BY <1>1, <1>2, <1>3, FunctionIsSeq DEF PayloadOptions

LEMMA PayloadGroup ==
    ASSUME NEW f \in Seq(FormGroup), NEW i \in DOMAIN f
    PROVE  /\ Payload(f)[i] \in RowGroup
           /\ Payload(f)[i].id = f[i].id /\ Payload(f)[i].type = f[i].type
           /\ Payload(f)[i].required = f[i].required
           /\ Payload(f)[i].mode = f[i].mode /\ Payload(f)[i].tiles = f[i].tiles
           /\ Payload(f)[i].min = PayloadMin(f[i]) /\ Payload(f)[i].max = PayloadMax(f[i])
           /\ Payload(f)[i].options = PayloadOptions(f[i])
           /\ Count(Payload(f)[i]) = Count(f[i])
<1>1. PICK g : g = f[i]
    OBVIOUS
<1>2. g \in FormGroup
    BY <1>1, SeqFacts
<1>3. PICK min, max, options : min = PayloadMin(g) /\ max = PayloadMax(g) /\ options = PayloadOptions(g)
    OBVIOUS
<1>4. min \in Nat /\ max \in Nat /\ options \in Seq(OptionRow)
    BY <1>2, <1>3, PayloadNumbers, PayloadOptionsType
<1>5. PICK h : h = [g EXCEPT !.min = min, !.max = max, !.options = options]
    OBVIOUS
<1>6. h \in RowGroup
    BY <1>2, <1>4, <1>5 DEF FormGroup, RowGroup, GroupOf
<1>7. /\ h.id = g.id /\ h.type = g.type /\ h.required = g.required /\ h.mode = g.mode
      /\ h.tiles = g.tiles /\ h.min = min /\ h.max = max /\ h.options = options
    BY <1>2, <1>5 DEF FormGroup, GroupOf
<1>8. Active(options) = Active(g.options)
    BY <1>2, <1>3, PayloadOptionsType DEF Active
<1>9. Payload(f)[i] = h
    BY <1>1, <1>3, <1>5, PayloadIs
<1> QED
    BY <1>1, <1>3, <1>6, <1>7, <1>8, <1>9 DEF Count

LEMMA PayloadType ==
    ASSUME NEW f \in Seq(FormGroup)
    PROVE  /\ Payload(f) \in Seq(RowGroup) /\ Len(Payload(f)) = Len(f)
           /\ DOMAIN Payload(f) = DOMAIN f
<1>1. Len(f) \in Nat /\ DOMAIN f = 1..Len(f)
    BY SeqFacts
<1>2. DOMAIN Payload(f) = DOMAIN f
    BY PayloadIs
<1>3. Payload(f) \in [1..Len(f) -> RowGroup]
    <2>1. \A i \in 1..Len(f) : Payload(f)[i] \in RowGroup
        BY <1>1, PayloadGroup
    <2>2. Payload(f) = [i \in 1..Len(f) |-> Payload(f)[i]]
        BY <1>1, PayloadIs
    <2> QED
        BY <2>1, <2>2
<1> QED
    BY <1>1, <1>2, <1>3, FunctionIsSeq

(* What the browser checks and what the server checks together make a      *)
(* group answerable.                                                       *)
LEMMA PayloadAnswerable ==
    ASSUME NEW f \in Seq(FormGroup), NEW i \in DOMAIN f, WithinLimits(f[i]),
           ValidGroup(Payload(f)[i])
    PROVE  Payload(f)[i].min <= Count(Payload(f)[i])
<1>1. PICK g : g = f[i]
    OBVIOUS
<1>2. /\ g \in FormGroup /\ g.min \in Nat /\ g.max \in Nat /\ Count(g) \in Nat
      /\ g.type \in {"SINGLE", "MULTIPLE"}
    BY <1>1, SeqFacts, GroupFields DEF FormGroup
<1>3. Payload(f)[i].min = PayloadMin(g) /\ Count(Payload(f)[i]) = Count(g)
    BY <1>1, PayloadGroup
<1>4. Count(g) > 0
    BY <1>3 DEF ValidGroup
<1>5. PayloadMin(g) <= Count(g)
    BY <1>1, <1>2, <1>4 DEF WithinLimits, PayloadMin, Larger, NoLimit
<1> QED
    BY <1>3, <1>5

LEMMA RowOfType ==
    ASSUME saved.groups \in Seq(RowGroup), NEW id \in Ids(saved.groups)
    PROVE  RowOf(id) \in RowGroup /\ RowOf(id).id = id
<1>1. \E i \in DOMAIN saved.groups : saved.groups[i].id = id
    BY DEF Ids
<1>2. PICK i \in DOMAIN saved.groups : saved.groups[i].id = id /\ RowOf(id) = saved.groups[i]
    BY <1>1 DEF RowOf
<1> QED
    BY <1>2, SeqFacts

(* Neither index is violated after any of the statements of a save.        *)
LEMMA ValidIsUnique ==
    ASSUME saved.groups \in Seq(RowGroup), NEW p \in Seq(RowGroup), Valid(p), OwnIds(p)
    PROVE  UniqueThroughout(p)
<1> SUFFICES ASSUME NEW k \in 0..Len(p)
             PROVE  AtMostOne(RowsAt(p, k), IsAbsolute) /\ AtMostOne(RowsAt(p, k), HasTiles)
    BY DEF UniqueThroughout
<1>1. Len(p) \in Nat /\ DOMAIN p = 1..Len(p)
    BY SeqFacts
<1>2. PICK rows : rows = RowsAt(p, k)
    OBVIOUS
<1>3. DOMAIN rows \subseteq DOMAIN p
    BY <1>2 DEF RowsAt
<1>4. ASSUME NEW i \in DOMAIN rows, IsAbsolute(rows[i]) \/ HasTiles(rows[i])
      PROVE  rows[i] = p[i]
    <2>1. SUFFICES ASSUME ~(i <= k)
                   PROVE  FALSE
        BY <1>2 DEF RowsAt
    <2>2. p[i].id # NoId /\ rows[i] = Neutral(RowOf(p[i].id))
        BY <1>2, <2>1 DEF RowsAt
    <2>3. p[i].id \in Ids(saved.groups)
        BY <1>3, <2>2 DEF OwnIds, Ids
    <2>4. RowOf(p[i].id) \in RowGroup
        BY <2>3, RowOfType
    <2>5. PICK g : g = RowOf(p[i].id)
        OBVIOUS
    <2>6. rows[i] = [g EXCEPT !.mode = "SURCHARGE", !.tiles = FALSE]
        BY <2>2, <2>5 DEF Neutral
    <2>7. rows[i].mode = "SURCHARGE" /\ rows[i].tiles = FALSE
        BY <2>4, <2>5, <2>6 DEF RowGroup, GroupOf
    <2> QED
        BY <1>4, <2>7 DEF IsAbsolute, HasTiles
<1>5. AtMostOne(p, IsAbsolute) /\ AtMostOne(p, HasTiles)
    BY DEF Valid, OnePriceGroup
<1>6. AtMostOne(rows, IsAbsolute)
    <2>1. SUFFICES ASSUME NEW i \in DOMAIN rows, NEW m \in DOMAIN rows,
                          IsAbsolute(rows[i]), IsAbsolute(rows[m])
                   PROVE  i = m
        BY DEF AtMostOne
    <2>2. IsAbsolute(p[i]) /\ IsAbsolute(p[m]) /\ i \in DOMAIN p /\ m \in DOMAIN p
        BY <1>3, <1>4, <2>1
    <2> QED
        BY <1>5, <2>2 DEF AtMostOne
<1>7. AtMostOne(rows, HasTiles)
    <2>1. SUFFICES ASSUME NEW i \in DOMAIN rows, NEW m \in DOMAIN rows,
                          HasTiles(rows[i]), HasTiles(rows[m])
                   PROVE  i = m
        BY DEF AtMostOne
    <2>2. HasTiles(p[i]) /\ HasTiles(p[m]) /\ i \in DOMAIN p /\ m \in DOMAIN p
        BY <1>3, <1>4, <2>1
    <2> QED
        BY <1>5, <2>2 DEF AtMostOne
<1> QED
    BY <1>2, <1>6, <1>7

(* The rows a save leaves behind.                                          *)
RowId(p, i) == IF p[i].id = NoId THEN NewGroupId(i) ELSE p[i].id

OptionId(p, i, j) ==
    IF p[i].options[j].id = NoId THEN <<saves + 1, i, j>> ELSE p[i].options[j].id

WrittenOptions(p, i) ==
    [j \in DOMAIN p[i].options |-> [p[i].options[j] EXCEPT !.id = OptionId(p, i, j)]]

LEMMA WrittenIs ==
    ASSUME NEW p
    PROVE  Written(p) = [i \in DOMAIN p |->
               [p[i] EXCEPT !.id = RowId(p, i), !.required = p[i].min >= 1,
                            !.options = WrittenOptions(p, i)]]
BY DEF Written, WrittenOption, RowId, OptionId, WrittenOptions

LEMMA WrittenOptionsType ==
    ASSUME saves \in Nat, NEW p \in Seq(RowGroup), NEW i \in DOMAIN p
    PROVE  /\ WrittenOptions(p, i) \in Seq(OptionRow)
           /\ Len(WrittenOptions(p, i)) = Len(p[i].options)
           /\ DOMAIN WrittenOptions(p, i) = DOMAIN p[i].options
           /\ \A j \in DOMAIN p[i].options :
                 /\ WrittenOptions(p, i)[j].id # NoId
                 /\ WrittenOptions(p, i)[j].price = p[i].options[j].price
                 /\ WrittenOptions(p, i)[j].active = p[i].options[j].active
<1>1. PICK options : options = p[i].options
    OBVIOUS
<1>2. i \in Nat /\ p[i] \in RowGroup
    BY SeqFacts
<1>3. /\ options \in Seq(OptionRow) /\ Len(options) \in Nat /\ DOMAIN options = 1..Len(options)
      /\ \A j \in DOMAIN options : options[j] \in OptionRow
    BY <1>1, <1>2, GroupFields, SeqFacts DEF RowGroup
<1>4. ASSUME NEW j \in DOMAIN options
      PROVE  /\ [options[j] EXCEPT !.id = OptionId(p, i, j)] \in OptionRow
             /\ [options[j] EXCEPT !.id = OptionId(p, i, j)].id # NoId
             /\ [options[j] EXCEPT !.id = OptionId(p, i, j)].price = options[j].price
             /\ [options[j] EXCEPT !.id = OptionId(p, i, j)].active = options[j].active
    <2>1. PICK o : o = options[j]
        OBVIOUS
    <2>2. o \in OptionRow /\ o.id \in Seq(Nat) /\ j \in Nat
        BY <1>3, <2>1 DEF OptionRow
    <2>3. <<saves + 1, i, j>> \in Seq(Nat) /\ <<saves + 1, i, j>> # << >>
        BY <1>2, <2>2
    <2>4. PICK id : id = OptionId(p, i, j)
        OBVIOUS
    <2>5. id \in Seq(Nat) /\ id # NoId
        BY <1>1, <2>1, <2>2, <2>3, <2>4 DEF OptionId, NoId
    <2>6. /\ [o EXCEPT !.id = id] \in OptionRow /\ [o EXCEPT !.id = id].id = id
          /\ [o EXCEPT !.id = id].price = o.price /\ [o EXCEPT !.id = id].active = o.active
        BY <2>2, <2>5 DEF OptionRow
    <2> QED
        BY <2>1, <2>4, <2>5, <2>6
<1>5. WrittenOptions(p, i) = [j \in DOMAIN options |-> [options[j] EXCEPT !.id = OptionId(p, i, j)]]
    BY <1>1 DEF WrittenOptions
<1>6. WrittenOptions(p, i) \in [1..Len(options) -> OptionRow]
    BY <1>3, <1>4, <1>5
<1> QED
    BY <1>1, <1>3, <1>4, <1>5, <1>6, FunctionIsSeq

LEMMA WrittenGroup ==
    ASSUME saves \in Nat, NEW p \in Seq(RowGroup), NEW i \in DOMAIN p
    PROVE  /\ Written(p)[i] \in RowGroup
           /\ Written(p)[i].id = RowId(p, i) /\ RowId(p, i) # NoId
           /\ p[i].id = NoId => RowId(p, i)[1] = saves + 1 /\ RowId(p, i)[2] = i
           /\ Written(p)[i].type = p[i].type /\ Written(p)[i].min = p[i].min
           /\ Written(p)[i].max = p[i].max /\ Written(p)[i].mode = p[i].mode
           /\ Written(p)[i].tiles = p[i].tiles
           /\ Written(p)[i].required <=> p[i].min >= 1
           /\ Written(p)[i].options = WrittenOptions(p, i)
           /\ Count(Written(p)[i]) = Count(p[i])
<1>1. PICK g : g = p[i]
    OBVIOUS
<1>2. i \in Nat /\ g \in RowGroup /\ g.id \in Seq(Nat) /\ g.min \in Nat
    BY <1>1, SeqFacts, GroupFields DEF RowGroup
<1>3. PICK id, required, options :
         id = RowId(p, i) /\ required = (p[i].min >= 1) /\ options = WrittenOptions(p, i)
    OBVIOUS
<1>4. /\ <<saves + 1, i>> \in Seq(Nat) /\ <<saves + 1, i>> # << >>
      /\ <<saves + 1, i>>[1] = saves + 1 /\ <<saves + 1, i>>[2] = i
    BY <1>2
<1>5. /\ id \in Seq(Nat) /\ id # NoId
      /\ g.id = NoId => id[1] = saves + 1 /\ id[2] = i
    BY <1>1, <1>2, <1>3, <1>4 DEF RowId, NewGroupId, NoId
<1>6. required \in BOOLEAN /\ options \in Seq(OptionRow)
    BY <1>2, <1>3, WrittenOptionsType
<1>7. PICK h : h = [g EXCEPT !.id = id, !.required = required, !.options = options]
    OBVIOUS
<1>8. h \in RowGroup
    BY <1>2, <1>5, <1>6, <1>7 DEF RowGroup, GroupOf
<1>9. /\ h.id = id /\ h.type = g.type /\ h.required = required /\ h.mode = g.mode
      /\ h.tiles = g.tiles /\ h.min = g.min /\ h.max = g.max /\ h.options = options
    BY <1>2, <1>7 DEF RowGroup, GroupOf
<1>10. Active(options) = Active(g.options)
    BY <1>1, <1>3, WrittenOptionsType DEF Active
<1>11. Written(p)[i] = h
    BY <1>1, <1>3, <1>7, WrittenIs
<1>12. Written(p)[i].required <=> p[i].min >= 1
    BY <1>3, <1>9, <1>11
<1>13. Count(h) = Count(g)
    BY <1>9, <1>10 DEF Count
<1> QED
    BY <1>1, <1>3, <1>5, <1>8, <1>9, <1>11, <1>12, <1>13

LEMMA WrittenType ==
    ASSUME saves \in Nat, NEW p \in Seq(RowGroup)
    PROVE  /\ Written(p) \in Seq(RowGroup) /\ Len(Written(p)) = Len(p)
           /\ DOMAIN Written(p) = DOMAIN p
<1>1. Len(p) \in Nat /\ DOMAIN p = 1..Len(p)
    BY SeqFacts
<1>2. DOMAIN Written(p) = DOMAIN p
    BY WrittenIs
<1>3. Written(p) \in [1..Len(p) -> RowGroup]
    <2>1. \A i \in 1..Len(p) : Written(p)[i] \in RowGroup
        BY <1>1, WrittenGroup
    <2>2. Written(p) = [i \in 1..Len(p) |-> Written(p)[i]]
        BY <1>1, WrittenIs
    <2> QED
        BY <2>1, <2>2
<1> QED
    BY <1>1, <1>2, <1>3, FunctionIsSeq

LEMMA WrittenStored ==
    ASSUME saves \in Nat, NEW p \in Seq(RowGroup), NEW i \in DOMAIN p,
           ValidGroup(p[i]), p[i].min <= Count(p[i])
    PROVE  Stored(Written(p)[i])
<1>1. PICK g, h : g = p[i] /\ h = Written(p)[i]
    OBVIOUS
<1>2. /\ h.type = g.type /\ h.min = g.min /\ h.max = g.max /\ h.mode = g.mode
      /\ h.tiles = g.tiles /\ (h.required <=> g.min >= 1) /\ Count(h) = Count(g)
      /\ h.options = WrittenOptions(p, i) /\ h.id # NoId
    BY <1>1, WrittenGroup
<1>3. /\ Len(h.options) = Len(g.options) /\ DOMAIN h.options = DOMAIN g.options
      /\ \A j \in DOMAIN g.options : /\ h.options[j].id # NoId
                                     /\ h.options[j].price = g.options[j].price
    BY <1>1, <1>2, WrittenOptionsType
<1>4. ValidGroup(h)
    BY <1>1, <1>2, <1>3 DEF ValidGroup, IsAbsolute, HasTiles
<1> QED
    BY <1>1, <1>2, <1>3, <1>4 DEF Stored

LEMMA WrittenDistinct ==
    ASSUME saves \in Nat, NEW p \in Seq(RowGroup), Distinct(p), GivenBy(p, saves)
    PROVE  Distinct(Written(p)) /\ GivenBy(Written(p), saves + 1)
<1>1. DOMAIN Written(p) = DOMAIN p
    BY WrittenType
<1>2. ASSUME NEW i \in DOMAIN p
      PROVE  /\ Written(p)[i].id = RowId(p, i)
             /\ p[i].id # NoId => RowId(p, i) = p[i].id /\ RowId(p, i)[1] \in Nat /\ RowId(p, i)[1] <= saves
             /\ p[i].id = NoId => RowId(p, i)[1] = saves + 1 /\ RowId(p, i)[2] = i
    <2>1. CASE p[i].id = NoId
        BY <2>1, WrittenGroup
    <2>2. CASE p[i].id # NoId
        <3>1. p[i].id \in Seq(Nat)
            BY SeqFacts, GroupFields DEF RowGroup
        <3>2. Len(p[i].id) \in Nat \ {0}
            BY <2>2, <3>1, EmptySeq DEF NoId
        <3>3. p[i].id[1] \in Nat
            BY <3>1, <3>2, ElementOfSeq
        <3> QED
            BY <2>2, <3>3, WrittenGroup DEF RowId, GivenBy
    <2> QED
        BY <2>1, <2>2
<1>3. GivenBy(Written(p), saves + 1)
    BY <1>1, <1>2 DEF GivenBy
<1>4. Distinct(Written(p))
    <2>1. SUFFICES ASSUME NEW i \in DOMAIN p, NEW k \in DOMAIN p, RowId(p, i) = RowId(p, k)
                   PROVE  i = k
        BY <1>1, <1>2 DEF Distinct
    <2>2. CASE p[i].id = NoId /\ p[k].id = NoId
        BY <1>2, <2>1, <2>2
    <2>3. CASE p[i].id # NoId /\ p[k].id # NoId
        BY <1>2, <2>1, <2>3 DEF Distinct
    <2>4. CASE (p[i].id = NoId) # (p[k].id = NoId)
        <3>1. RowId(p, i)[1] # RowId(p, k)[1]
            BY <1>2, <2>4
        <3> QED
            BY <2>1, <3>1
    <2> QED
        BY <2>2, <2>3, <2>4
<1> QED
    BY <1>3, <1>4

LEMMA GivenLater ==
    ASSUME NEW S, NEW groups \in Seq(GroupOf(S)), NEW n \in Nat, GivenBy(groups, n)
    PROVE  GivenBy(groups, n + 1)
<1> SUFFICES ASSUME NEW i \in DOMAIN groups, groups[i].id # NoId
             PROVE  groups[i].id[1] <= n + 1
    BY DEF GivenBy
<1>1. groups[i].id \in Seq(Nat)
    BY SeqFacts, GroupFields
<1>2. Len(groups[i].id) \in Nat \ {0}
    BY <1>1, EmptySeq DEF NoId
<1>3. groups[i].id[1] \in Nat
    BY <1>1, <1>2, ElementOfSeq
<1>4. groups[i].id[1] <= n
    BY DEF GivenBy
<1> QED
    BY <1>3, <1>4

(* What a save that is carried out leaves behind.                          *)
LEMMA SavedRows ==
    ASSUME GroupInv, NEW a \in Admins, Complete(form[a].groups),
           Valid(Payload(form[a].groups))
    PROVE  GoodRows(Written(Payload(form[a].groups)), saves + 1)
<1>1. PICK f, p : f = form[a].groups /\ p = Payload(f)
    OBVIOUS
<1>2. f \in Seq(FormGroup) /\ Distinct(f) /\ GivenBy(f, saves) /\ saves \in Nat
    BY <1>1 DEF GroupInv, GroupTypes, GoodForm
<1>3. p \in Seq(RowGroup) /\ DOMAIN p = DOMAIN f
    BY <1>1, <1>2, PayloadType
<1>4. \A i \in DOMAIN f : p[i].id = f[i].id
    BY <1>1, <1>2, PayloadGroup
<1>5. Distinct(p) /\ GivenBy(p, saves)
    BY <1>2, <1>3, <1>4 DEF Distinct, GivenBy
<1>6. Written(p) \in Seq(RowGroup) /\ DOMAIN Written(p) = DOMAIN p
    BY <1>2, <1>3, WrittenType
<1>7. Distinct(Written(p)) /\ GivenBy(Written(p), saves + 1)
    BY <1>2, <1>3, <1>5, WrittenDistinct
<1>8. ASSUME NEW i \in DOMAIN p
      PROVE  Stored(Written(p)[i])
    <2>1. ValidGroup(p[i]) /\ WithinLimits(f[i])
        BY <1>1, <1>3 DEF Valid, Complete
    <2>2. p[i].min <= Count(p[i])
        BY <1>1, <1>2, <1>3, <2>1, PayloadAnswerable
    <2> QED
        BY <1>2, <1>3, <2>1, <2>2, WrittenStored
<1> QED
    BY <1>1, <1>6, <1>7, <1>8 DEF GoodRows

(* Whatever passes the checks is written: the database has no objection.   *)
LEMMA SaveIs ==
    ASSUME GroupInv, NEW a \in Admins, NEW answered \in BOOLEAN, Save(a, answered)
    PROVE  LET p == Payload(form[a].groups)
               fine == Valid(p) /\ OwnIds(p)
           IN /\ saved' = IF fine THEN [price |-> form[a].price, groups |-> Written(p)] ELSE saved
              /\ open' = IF fine /\ answered THEN open \ {a} ELSE open
              /\ form' = IF fine /\ answered THEN [form EXCEPT ![a] = NoProduct] ELSE form
              /\ reply' = [reply EXCEPT ![a] = IF ~answered THEN "unknown"
                                               ELSE IF fine THEN "saved" ELSE "refused"]
<1>1. /\ form[a].groups \in Seq(FormGroup) /\ saved.groups \in Seq(RowGroup)
    BY DEF GroupInv, GroupTypes
<1>2. Payload(form[a].groups) \in Seq(RowGroup)
    BY <1>1, PayloadType
<1>3. Valid(Payload(form[a].groups)) /\ OwnIds(Payload(form[a].groups))
         => UniqueThroughout(Payload(form[a].groups))
    BY <1>1, <1>2, ValidIsUnique
<1> QED
    BY <1>3, Zenon DEF Save

LEMMA SaveKeeps ==
    ASSUME GroupInv, NEW a \in Admins, NEW answered \in BOOLEAN, Save(a, answered)
    PROVE  GroupInv'
<1>1. PICK p : p = Payload(form[a].groups)
    OBVIOUS
<1>2. PICK fine \in BOOLEAN : fine <=> Valid(p) /\ OwnIds(p)
    OBVIOUS
<1>3. /\ saved' = IF fine THEN [price |-> form[a].price, groups |-> Written(p)] ELSE saved
      /\ open' = IF fine /\ answered THEN open \ {a} ELSE open
      /\ form' = IF fine /\ answered THEN [form EXCEPT ![a] = NoProduct] ELSE form
      /\ reply' = [reply EXCEPT ![a] = IF ~answered THEN "unknown"
                                       ELSE IF fine THEN "saved" ELSE "refused"]
    BY <1>1, <1>2, SaveIs, Zenon
<1>4. /\ saves' = saves + 1 /\ edits' = edits /\ a \in open /\ Complete(form[a].groups)
    BY DEF Save
<1>5. /\ saved \in [price : Nat, groups : Seq(RowGroup)] /\ GoodRows(saved.groups, saves)
      /\ form[a] \in [price : Nat, groups : Seq(FormGroup)] /\ saves \in Nat /\ edits \in Nat
    BY DEF GroupInv, GroupTypes
<1>6. saved' \in [price : Nat, groups : Seq(RowGroup)] /\ GoodRows(saved'.groups, saves + 1)
    <2>1. CASE fine
        <3>1. GoodRows(Written(p), saves + 1)
            BY <1>1, <1>2, <1>4, <2>1, SavedRows
        <3>2. saved' = [price |-> form[a].price, groups |-> Written(p)]
            BY <1>3, <2>1
        <3> QED
            BY <1>5, <3>1, <3>2 DEF GoodRows
    <2>2. CASE ~fine
        <3>1. saved.groups \in Seq(GroupOf(OptionRow))
            BY <1>5 DEF GoodRows, RowGroup
        <3>2. GivenBy(saved.groups, saves + 1)
            BY <1>5, <3>1, GivenLater DEF GoodRows
        <3> QED
            BY <1>3, <1>5, <2>2, <3>2 DEF GoodRows
    <2> QED
        BY <2>1, <2>2
<1>7. ASSUME NEW b \in Admins
      PROVE  form'[b] \in [price : Nat, groups : Seq(FormGroup)] /\ GoodForm(form'[b].groups, saves + 1)
    <2>1. form[b] \in [price : Nat, groups : Seq(FormGroup)] /\ GoodForm(form[b].groups, saves)
        BY DEF GroupInv, GroupTypes
    <2>2. form[b].groups \in Seq(GroupOf(OptionForm))
        BY <2>1 DEF FormGroup
    <2>3. GoodForm(form[b].groups, saves + 1)
        BY <1>5, <2>1, <2>2, GivenLater DEF GoodForm
    <2>4. form'[b] = form[b] \/ form'[b] = NoProduct
        BY <1>3 DEF GroupInv, GroupTypes
    <2>5. saves + 1 \in Nat
        BY <1>5
    <2> QED
        BY <2>1, <2>3, <2>4, <2>5, NoProductFits
<1>8. form' \in [Admins -> [price : Nat, groups : Seq(FormGroup)]]
    <2>1. form' = [b \in Admins |-> form'[b]]
        BY <1>3 DEF GroupInv, GroupTypes
    <2> QED
        BY <1>7, <2>1
<1>9. reply' \in [Admins -> Replies] /\ open' \subseteq Admins
    BY <1>3 DEF GroupInv, GroupTypes, Replies
<1>10. GroupTypes'
    BY <1>4, <1>5, <1>6, <1>8, <1>9 DEF GroupTypes
<1>11. RepliesFit'
    BY <1>3 DEF GroupInv, GroupTypes, RepliesFit
<1> QED
    BY <1>4, <1>6, <1>7, <1>10, <1>11 DEF GroupInv

LEMMA AdministerKeeps ==
    ASSUME GroupInv, Administer
    PROVE  GroupInv'
<1>1. PICK a \in Admins : \/ Open(a) \/ Close(a) \/ Edit(a)
                          \/ \E answered \in BOOLEAN : Save(a, answered)
    BY DEF Administer
<1>2. CASE Open(a)
    BY <1>2, OpenKeeps
<1>3. CASE Close(a)
    BY <1>3, CloseKeeps
<1>4. CASE Edit(a)
    BY <1>4, EditKeeps
<1>5. ASSUME NEW answered \in BOOLEAN, Save(a, answered)
      PROVE  GroupInv'
    BY <1>5, SaveKeeps
<1> QED
    BY <1>1, <1>2, <1>3, <1>4, <1>5

LEMMA GroupInitHolds ==
    ASSUME GroupInit
    PROVE  GroupInv
<1>1. PICK groups \in InitialGroups : saved = [price |-> InitialPrice, groups |-> groups]
    BY DEF GroupInit
<1>2. /\ open = {} /\ form = [a \in Admins |-> NoProduct] /\ reply = [a \in Admins |-> "none"]
      /\ edits = 0 /\ saves = 0
    BY DEF GroupInit
<1>3. /\ InitialPrice \in Nat /\ groups \in Seq(RowGroup)
      /\ \A i \in DOMAIN groups : StoredBefore(groups[i])
      /\ \A i, k \in DOMAIN groups : groups[i].id = groups[k].id => i = k
    BY InitialAssumption DEF RowGroup
<1>4. GoodRows(groups, 0)
    BY <1>3 DEF GoodRows, Distinct, GivenBy, Stored, StoredBefore
<1>5. GroupTypes
    BY <1>1, <1>2, <1>3, NoProductFits DEF GroupTypes, Replies
<1>6. RepliesFit
    BY <1>2 DEF RepliesFit
<1> QED
    BY <1>1, <1>2, <1>4, <1>5, <1>6, NoProductFits DEF GroupInv

LEMMA GroupsUntouched ==
    ASSUME GroupInv, UNCHANGED groupVars
    PROVE  GroupInv'
<1>1. UNCHANGED <<saved, open, form, reply, edits, saves>>
    BY DEF groupVars
<1>2. GroupTypes' /\ RepliesFit'
    BY <1>1 DEF GroupInv, GroupTypes, RepliesFit
<1> QED
    BY <1>1, <1>2 DEF GroupInv

LEMMA GroupInvariant == GroupSpec => []GroupInv
<1>1. GroupInit => GroupInv
    BY GroupInitHolds
<1>2. GroupInv /\ [Administer]_groupVars => GroupInv'
    BY AdministerKeeps, GroupsUntouched
<1> QED
    BY <1>1, <1>2, PTL DEF GroupSpec

----------------------------------------------------------------------------
(* What the invariant of the groups says.                                  *)

LEMMA IdsCounted ==
    ASSUME GroupInv
    PROVE  Cardinality(Ids(saved.groups)) = Len(saved.groups)
<1> DEFINE rows == saved.groups
           id == [i \in 1..Len(rows) |-> rows[i].id]
<1>1. /\ Len(rows) \in Nat /\ DOMAIN rows = 1..Len(rows)
      /\ \A i \in DOMAIN rows : rows[i].id # NoId
      /\ \A i, k \in DOMAIN rows : rows[i].id = rows[k].id => i = k
    BY SeqFacts DEF GroupInv, GoodRows, Distinct, Stored
<1>2. id \in Bijection(1..Len(rows), Ids(rows))
    BY <1>1 DEF Ids, Bijection, Injection, IsInjective, Surjection
<1> HIDE DEF id
<1>3. ExistsBijection(1..Len(rows), Ids(rows))
    BY <1>2 DEF ExistsBijection
<1>4. IsFiniteSet(1..Len(rows)) /\ Cardinality(1..Len(rows)) = Len(rows)
    <2>1. PICK n : n = Len(rows)
        OBVIOUS
    <2>2. n \in Nat /\ n \in Int /\ 1 \in Int
        BY <1>1, <2>1
    <2>3. IsFiniteSet(1..n) /\ Cardinality(1..n) = IF 1 > n THEN 0 ELSE n - 1 + 1
        BY <2>2, FS_Interval
    <2> QED
        BY <2>1, <2>2, <2>3
<1> QED
    BY <1>3, <1>4, FS_Bijection

LEMMA GroupInvImplies ==
    ASSUME GroupInv
    PROVE  GroupTypeOK /\ NoRawDatabaseError /\ Answerable
<1>1. GroupTypeOK
    BY IdsCounted DEF GroupInv, GroupTypes, GroupTypeOK, RowGroup, FormGroup, Replies
<1>2. NoRawDatabaseError
    BY DEF GroupInv, RepliesFit, NoRawDatabaseError
<1>3. Answerable
    BY DEF GroupInv, GoodRows, Stored, Answerable
<1> QED
    BY <1>1, <1>2, <1>3

(* A stored row goes into the form and back without a change.              *)
LEMMA OptionRoundTrip ==
    ASSUME NEW g \in RowGroup, Stored(g), NEW h \in FormGroup, h.mode = g.mode,
           NEW j \in DOMAIN g.options,
           NEW o, o = [id |-> g.options[j].id, negative |-> g.options[j].price < 0,
                       active |-> g.options[j].active,
                       cents |-> IF g.options[j].price < 0 THEN -g.options[j].price
                                 ELSE g.options[j].price]
    PROVE  OptionPayload(h, o) = g.options[j]
<1>1. PICK r : r = g.options[j]
    OBVIOUS
<1>2. r \in OptionRow /\ g.mode \in {"ABSOLUTE", "SURCHARGE"}
    BY <1>1, SeqFacts, GroupFields DEF RowGroup
<1>3. g.mode # "SURCHARGE" => r.price >= 0
    BY <1>1, <1>2 DEF Stored, ValidGroup, IsAbsolute
<1>4. o.id = r.id /\ o.active = r.active /\ (o.negative <=> r.price < 0)
    BY <1>1
<1>5. o.cents = IF r.price < 0 THEN -r.price ELSE r.price
    BY <1>1
<1>6. PICK price : price = IF h.mode = "SURCHARGE" /\ o.negative THEN -o.cents ELSE o.cents
    OBVIOUS
<1>7. r.price \in Int
    BY <1>2 DEF OptionRow
<1>8. price = r.price
    BY <1>2, <1>3, <1>4, <1>5, <1>6, <1>7
<1>9. OptionPayload(h, o) = [id |-> r.id, active |-> r.active, price |-> r.price]
    BY <1>4, <1>6, <1>8 DEF OptionPayload
<1> QED
    BY <1>1, <1>2, <1>9 DEF OptionRow

LEMMA NumbersRoundTrip ==
    ASSUME NEW g \in RowGroup, Stored(g), NEW h \in FormGroup,
           h.type = g.type, h.required = g.required, h.min = g.min,
           h.max = IF g.type = "SINGLE" THEN 1 ELSE g.max
    PROVE  PayloadMin(h) = g.min /\ PayloadMax(h) = g.max
<1>1. g.min \in Nat /\ g.max \in Nat /\ g.type \in {"SINGLE", "MULTIPLE"} /\ g.required \in BOOLEAN
    BY GroupFields DEF RowGroup
<1>2. /\ g.max # NoLimit => g.min <= g.max
      /\ g.type = "SINGLE" => g.max = 1 /\ g.min <= 1
      /\ g.required <=> g.min >= 1
    BY DEF Stored, ValidGroup
<1>3. PayloadMin(h) = g.min
    BY <1>1, <1>2 DEF PayloadMin, Larger
<1>4. PayloadMax(h) = g.max
    BY <1>1, <1>2, <1>3 DEF PayloadMax, Larger, NoLimit
<1> QED
    BY <1>3, <1>4

LEMMA RowsRoundTrip ==
    ASSUME saves \in Nat, NEW rows \in Seq(RowGroup), \A i \in DOMAIN rows : Stored(rows[i])
    PROVE  Written(Payload(LoadedGroups(rows))) = rows
<1>1. PICK f, p : f = LoadedGroups(rows) /\ p = Payload(f)
    OBVIOUS
<1>2. /\ f \in Seq(FormGroup) /\ Len(f) = Len(rows) /\ DOMAIN f = DOMAIN rows
      /\ p \in Seq(RowGroup) /\ Len(p) = Len(f) /\ DOMAIN p = DOMAIN f
    BY <1>1, LoadedType, PayloadType
<1>3. Written(p) \in Seq(RowGroup) /\ Len(Written(p)) = Len(p)
    BY <1>2, WrittenType
<1>4. ASSUME NEW i \in DOMAIN rows
      PROVE  Written(p)[i] = rows[i]
    <2>1. PICK g, h, w : g = rows[i] /\ h = f[i] /\ w = Written(p)[i]
        OBVIOUS
    <2>2. g \in RowGroup /\ h \in FormGroup /\ w \in RowGroup /\ Stored(g)
        BY <1>2, <1>3, <2>1, SeqFacts
    <2>3. PICK max, options :
              /\ max = IF g.type = "SINGLE" THEN 1 ELSE g.max
              /\ options = [j \in DOMAIN g.options |->
                     [id |-> g.options[j].id, negative |-> g.options[j].price < 0,
                      active |-> g.options[j].active,
                      cents |-> IF g.options[j].price < 0 THEN -g.options[j].price
                                ELSE g.options[j].price]]
        OBVIOUS
    <2>4. h = [g EXCEPT !.max = max, !.options = options]
        BY <1>1, <2>1, <2>3 DEF LoadedGroups
    <2>5. /\ h.id = g.id /\ h.type = g.type /\ h.required = g.required /\ h.min = g.min
          /\ h.mode = g.mode /\ h.tiles = g.tiles /\ h.max = max /\ h.options = options
        BY <2>2, <2>4 DEF RowGroup, GroupOf
    <2>6. PayloadMin(h) = g.min /\ PayloadMax(h) = g.max
        BY <2>2, <2>3, <2>5, NumbersRoundTrip
    <2>7. /\ p[i].id = g.id /\ p[i].type = g.type /\ p[i].mode = g.mode /\ p[i].tiles = g.tiles
          /\ p[i].min = g.min /\ p[i].max = g.max /\ p[i].options = PayloadOptions(h)
        BY <1>1, <1>2, <2>1, <2>5, <2>6, PayloadGroup
    <2>8. /\ g.options \in Seq(OptionRow)
          /\ DOMAIN g.options = 1..Len(g.options) /\ Len(g.options) \in Nat
          /\ g.options \in [1..Len(g.options) -> OptionRow]
          /\ \A j \in DOMAIN g.options : g.options[j].id # NoId
        BY <2>2, GroupFields, SeqFacts DEF RowGroup, Stored
    <2>9. PayloadOptions(h) = g.options
        <3>1. DOMAIN options = DOMAIN g.options
            BY <2>3
        <3>2. \A j \in DOMAIN g.options : OptionPayload(h, options[j]) = g.options[j]
            BY <2>2, <2>3, <2>5, OptionRoundTrip
        <3>3. PayloadOptions(h) = [j \in DOMAIN g.options |-> g.options[j]]
            BY <2>5, <3>1, <3>2 DEF PayloadOptions
        <3> QED
            BY <2>8, <3>3
    <2>10. WrittenOptions(p, i) = g.options
        <3>1. \A j \in DOMAIN g.options : OptionId(p, i, j) = g.options[j].id
            BY <2>7, <2>8, <2>9 DEF OptionId
        <3>2. \A j \in DOMAIN g.options : [g.options[j] EXCEPT !.id = g.options[j].id] = g.options[j]
            BY <2>8 DEF OptionRow
        <3>3. WrittenOptions(p, i) = [j \in DOMAIN g.options |-> g.options[j]]
            BY <2>7, <2>9, <3>1, <3>2 DEF WrittenOptions
        <3> QED
            BY <2>8, <3>3
    <2>11. g.id # NoId /\ (g.required <=> g.min >= 1)
        BY <2>2 DEF Stored
    <2>12. /\ w.id = RowId(p, i) /\ w.type = g.type /\ w.min = g.min /\ w.max = g.max
           /\ w.mode = g.mode /\ w.tiles = g.tiles /\ (w.required <=> g.min >= 1)
           /\ w.options = g.options
        BY <1>2, <2>1, <2>7, <2>10, WrittenGroup
    <2>13. w.id = g.id
        BY <2>7, <2>11, <2>12 DEF RowId
    <2>14. w.required \in BOOLEAN /\ g.required \in BOOLEAN
        BY <2>2, GroupFields DEF RowGroup
    <2>15. w.required = g.required
        BY <2>11, <2>12, <2>14
    <2>16. ASSUME NEW x \in RowGroup
           PROVE  x = [id |-> x.id, type |-> x.type, required |-> x.required, min |-> x.min,
                       max |-> x.max, mode |-> x.mode, tiles |-> x.tiles, options |-> x.options]
        BY DEF RowGroup, GroupOf
    <2>17. w = g
        BY <2>2, <2>12, <2>13, <2>15, <2>16
    <2> QED
        BY <2>1, <2>17
<1>5. \A i \in 1..Len(Written(p)) : Written(p)[i] = rows[i]
    BY <1>2, <1>3, <1>4, SeqFacts
<1> QED
    BY <1>1, <1>2, <1>3, <1>5, SeqEqual

LEMMA AgainIsHarmless ==
    ASSUME GroupInv, [Administer]_groupVars, NEW a \in open,
           form[a] = Loaded(saved), reply'[a] = "saved"
    PROVE  saved' = saved
<1>1. a \in Admins /\ reply \in [Admins -> Replies] /\ reply[a] # "saved"
    BY DEF GroupInv, GroupTypes, RepliesFit
<1>2. CASE UNCHANGED groupVars
    BY <1>2 DEF groupVars
<1>3. ASSUME NEW b \in Admins, Open(b) \/ Close(b)
      PROVE  saved' = saved
    BY <1>3 DEF Open, Close
<1>4. ASSUME NEW b \in Admins, Edit(b)
      PROVE  saved' = saved
    <2>1. ASSUME NEW i \in DOMAIN form[b].groups, NEW j, EditOption(b, i, j)
          PROVE  saved' = saved
        BY <2>1 DEF EditOption, Reactivate, SetSign, SetCents, MoveOption,
                    ConfirmRemoveOption, UpdateOption, EditsOptions, Edits, Becomes
    <2>2. ASSUME NEW i \in DOMAIN form[b].groups, EditGroup(b, i)
          PROVE  saved' = saved
        <3>1. ASSUME NEW g, UpdateGroup(b, i, g)
              PROVE  saved' = saved
            BY <3>1 DEF UpdateGroup, Edits, Becomes
        <3>2. ASSUME NEW typed, SetMinSelect(b, i, typed) \/ SetMaxSelect(b, i, typed)
              PROVE  saved' = saved
            BY <3>1, <3>2 DEF SetMinSelect, SetMaxSelect
        <3>3. ASSUME NEW value, SetRequired(b, i, value) \/ SetSelectionType(b, i, value)
              PROVE  saved' = saved
            BY <3>1, <3>3 DEF SetRequired, SetSelectionType
        <3>4. ASSUME NEW value, SetGroupPriceMode(b, i, value) \/ SetGroupQuickSaleTiles(b, i, value)
              PROVE  saved' = saved
            BY <3>4 DEF SetGroupPriceMode, SetGroupQuickSaleTiles, Edits, Becomes
        <3>5. CASE MoveGroup(b, i) \/ RemoveGroup(b, i) \/ AddOption(b, i)
            BY <3>5 DEF MoveGroup, RemoveGroup, AddOption, EditsOptions, Edits, Becomes
        <3> QED
            BY <2>1, <2>2, <3>2, <3>3, <3>4, <3>5 DEF EditGroup
    <2>3. CASE AddGroup(b) \/ \E cents \in Amounts : SetPrice(b, cents)
        BY <2>3 DEF AddGroup, SetPrice, Edits, Becomes
    <2> QED
        BY <1>4, <2>2, <2>3 DEF Edit
<1>5. ASSUME NEW b \in Admins, NEW answered \in BOOLEAN, Save(b, answered)
      PROVE  saved' = saved
    <2>1. PICK p : p = Payload(form[b].groups)
        OBVIOUS
    <2>2. PICK fine \in BOOLEAN : fine <=> Valid(p) /\ OwnIds(p)
        OBVIOUS
    <2>3. /\ saved' = IF fine THEN [price |-> form[b].price, groups |-> Written(p)] ELSE saved
          /\ reply' = [reply EXCEPT ![b] = IF ~answered THEN "unknown"
                                           ELSE IF fine THEN "saved" ELSE "refused"]
        BY <1>5, <2>1, <2>2, SaveIs, Zenon
    <2>4. b = a /\ fine
        BY <1>1, <2>3
    <2>5. /\ saves \in Nat /\ saved \in [price : Nat, groups : Seq(RowGroup)]
          /\ \A i \in DOMAIN saved.groups : Stored(saved.groups[i])
        BY DEF GroupInv, GroupTypes, GoodRows
    <2>6. form[a].price = saved.price /\ form[a].groups = LoadedGroups(saved.groups)
        BY <2>5 DEF Loaded
    <2>7. Written(p) = saved.groups
        BY <2>1, <2>4, <2>5, <2>6, RowsRoundTrip
    <2>8. saved' = [price |-> saved.price, groups |-> saved.groups]
        BY <2>3, <2>4, <2>6, <2>7
    <2> QED
        BY <2>5, <2>8
<1> QED
    BY <1>2, <1>3, <1>4, <1>5 DEF Administer

(* Rows and forms keep their types, and ids are never given twice.         *)
THEOREM GroupTypeCorrect == GroupSpec => []GroupTypeOK
<1>1. GroupInv => GroupTypeOK
    BY GroupInvImplies
<1> QED
    BY <1>1, GroupInvariant, PTL

(* saveOptionGroups never runs into the two partial unique indexes: what   *)
(* validateOptionGroupsPayload lets through is written, however many       *)
(* administrators save forms they loaded at different times.               *)
THEOREM NoDatabaseError == GroupSpec => []NoRawDatabaseError
<1>1. GroupInv => NoRawDatabaseError
    BY GroupInvImplies
<1> QED
    BY <1>1, GroupInvariant, PTL

(* Every group saved through the form can be answered.                     *)
THEOREM AlwaysAnswerable == GroupSpec => []Answerable
<1>1. GroupInv => Answerable
    BY GroupInvImplies
<1> QED
    BY <1>1, GroupInvariant, PTL

(* Saving a form as it was loaded changes nothing of what is stored.       *)
THEOREM SavingHarmless == GroupSpec => SavingAgainIsHarmless
<1>1. GroupInv /\ [Administer]_groupVars
         => [\A a \in open : form[a] = Loaded(saved) /\ reply'[a] = "saved" => saved' = saved]_groupVars
    BY AgainIsHarmless
<1> QED
    BY <1>1, GroupInvariant, PTL DEF GroupSpec, SavingAgainIsHarmless

----------------------------------------------------------------------------
(* Sums over a finite set, as in CashDeskProofs: the community module sums *)
(* by a recursive function over the subsets of the set; that there is one, *)
(* and what it yields, follows from smallest counterexamples.              *)

Pick(S) == CHOOSE x \in S : TRUE

(* The table of the sums of w over the subsets of S.                       *)
IsTable(w, S, f) ==
    f = [s \in SUBSET S |-> IF s = {} THEN 0 ELSE w[Pick(s)] + f[s \ {Pick(s)}]]

SumOver(w, S) == (CHOOSE f : IsTable(w, S, f))[S]

LEMMA PickIn == \A S : S # {} => Pick(S) \in S
BY DEF Pick

(* A set of finite sets has a smallest member.                             *)
LEMMA SmallestMember ==
    ASSUME NEW S, IsFiniteSet(S), NEW B \in SUBSET SUBSET S, B # {}
    PROVE  \E m \in B : \A s \in B : s \subseteq m => s = m
<1>1. IsWellFoundedOn(StrictSubsetOrdering(S), SUBSET S)
    BY FS_StrictSubsetOrderingWellFounded, FS_FiniteSubsetsOfFinite
<1>2. PICK m \in B : \A s \in B : ~(<<s, m>> \in StrictSubsetOrdering(S))
    BY <1>1, WFMin
<1> QED
    BY <1>2 DEF StrictSubsetOrdering

(* Two tables agree where both are defined.                                *)
LEMMA TablesAgree ==
    ASSUME NEW S, IsFiniteSet(S), NEW w, NEW T \in SUBSET S, NEW U \in SUBSET S,
           NEW f, NEW g, IsTable(w, T, f), IsTable(w, U, g)
    PROVE  \A s \in SUBSET (T \cap U) : f[s] = g[s]
<1> DEFINE B == {s \in SUBSET (T \cap U) : f[s] # g[s]}
<1> SUFFICES ASSUME B # {} PROVE FALSE
    OBVIOUS
<1>1. PICK m \in B : \A s \in B : s \subseteq m => s = m
    <2>1. B \in SUBSET SUBSET S
        OBVIOUS
    <2> HIDE DEF B
    <2> QED
        BY <2>1, SmallestMember
<1>2. m # {}
    BY <1>1 DEF IsTable
<1>3. Pick(m) \in m
    BY <1>2, PickIn
<1>4. m \ {Pick(m)} \in SUBSET (T \cap U) /\ m \ {Pick(m)} \notin B
    BY <1>1, <1>3
<1>5. f[m \ {Pick(m)}] = g[m \ {Pick(m)}]
    BY <1>4
<1>6. f[m] = w[Pick(m)] + f[m \ {Pick(m)}] /\ g[m] = w[Pick(m)] + g[m \ {Pick(m)}]
    BY <1>1, <1>2 DEF IsTable
<1> QED
    BY <1>1, <1>5, <1>6

(* Every finite set has a table of its sums: the one of a smallest set     *)
(* without would be made of those of its subsets.                          *)
LEMMA TableExists ==
    ASSUME NEW S, IsFiniteSet(S), NEW w
    PROVE  \A T \in SUBSET S : \E f : IsTable(w, T, f)
<1> DEFINE B == {T \in SUBSET S : ~ \E f : IsTable(w, T, f)}
           table(T) == CHOOSE f : IsTable(w, T, f)
           val(T) == table(T)[T]
<1> SUFFICES ASSUME B # {} PROVE FALSE
    OBVIOUS
<1>1. PICK m \in B : \A s \in B : s \subseteq m => s = m
    <2>1. B \in SUBSET SUBSET S
        OBVIOUS
    <2> HIDE DEF B
    <2> QED
        BY <2>1, SmallestMember
<1>2. \A s \in SUBSET m : s # m => IsTable(w, s, table(s))
    BY <1>1
<1> HIDE DEF table
<1>3. ASSUME NEW s \in SUBSET m, s # m
      PROVE  val(s) = IF s = {} THEN 0 ELSE w[Pick(s)] + val(s \ {Pick(s)})
    <2>1. IsTable(w, s, table(s))
        BY <1>2, <1>3
    <2>2. CASE s = {}
        BY <2>1, <2>2 DEF IsTable
    <2>3. CASE s # {}
        <3> DEFINE r == s \ {Pick(s)}
        <3>1. Pick(s) \in s
            BY <2>3, PickIn
        <3>2. IsTable(w, r, table(r))
            BY <1>2, <3>1
        <3>3. s \in SUBSET S /\ r \in SUBSET S /\ r \in SUBSET (s \cap r)
            BY <1>1
        <3>4. table(s)[s] = w[Pick(s)] + table(s)[r]
            BY <2>1, <2>3 DEF IsTable
        <3> HIDE DEF r
        <3>5. table(s)[r] = table(r)[r]
            BY <2>1, <3>2, <3>3, TablesAgree
        <3> QED
            BY <2>3, <3>4, <3>5 DEF r
    <2> QED
        BY <2>2, <2>3
<1> HIDE DEF val
<1> DEFINE rest == val(m \ {Pick(m)})
           h == [s \in SUBSET m |-> IF s # m THEN val(s) ELSE IF m = {} THEN 0 ELSE w[Pick(m)] + rest]
<1>4. IsTable(w, m, h)
    <2>1. ASSUME NEW s \in SUBSET m
          PROVE  h[s] = IF s = {} THEN 0 ELSE w[Pick(s)] + h[s \ {Pick(s)}]
        <3>1. s # {} => s \ {Pick(s)} # m /\ s \ {Pick(s)} \in SUBSET m
            BY PickIn
        <3>2. s # {} => h[s \ {Pick(s)}] = val(s \ {Pick(s)})
            BY <3>1
        <3>3. CASE s = m
            BY <3>2, <3>3
        <3>4. CASE s # m
            BY <1>3, <3>2, <3>4
        <3> QED
            BY <3>3, <3>4
    <2>2. h = [s \in SUBSET m |-> h[s]]
        OBVIOUS
    <2> HIDE DEF h
    <2> QED
        BY <2>1, <2>2 DEF IsTable
<1> QED
    BY <1>1, <1>4

(* The sum of integers is an integer, that of one is it.                   *)
LEMMA SumInt ==
    ASSUME NEW S, IsFiniteSet(S), NEW w, \A x \in S : w[x] \in Int
    PROVE  /\ SumOver(w, S) \in Int
           /\ S = {} => SumOver(w, S) = 0
           /\ \A x : S = {x} => SumOver(w, S) = w[x]
<1> DEFINE f == CHOOSE g : IsTable(w, S, g)
           B == {T \in SUBSET S : f[T] \notin Int}
<1>1. IsTable(w, S, f)
    BY TableExists
<1> HIDE DEF f
<1>2. \A T \in SUBSET S : f[T] = IF T = {} THEN 0 ELSE w[Pick(T)] + f[T \ {Pick(T)}]
    BY <1>1 DEF IsTable
<1>3. ASSUME B # {} PROVE FALSE
    <2>1. PICK m \in B : \A s \in B : s \subseteq m => s = m
        <3>1. B \in SUBSET SUBSET S
            OBVIOUS
        <3> HIDE DEF B
        <3> QED
            BY <1>3, <3>1, SmallestMember
    <2>2. m \in SUBSET S /\ f[m] \notin Int
        BY <2>1
    <2>3. f[m] = IF m = {} THEN 0 ELSE w[Pick(m)] + f[m \ {Pick(m)}]
        BY <1>2, <2>2
    <2>4. m # {} /\ Pick(m) \in m
        BY <2>2, <2>3, PickIn
    <2>5. w[Pick(m)] \in Int
        BY <2>2, <2>4
    <2>6. f[m \ {Pick(m)}] \in Int
        BY <2>1, <2>2, <2>4
    <2> QED
        BY <2>2, <2>3, <2>4, <2>5, <2>6
<1>4. f[S] \in Int
    BY <1>3
<1>5. S = {} => f[S] = 0
    BY <1>2
<1>6. ASSUME NEW x, S = {x} PROVE f[S] = w[x]
    <2>1. Pick(S) = x /\ S \ {Pick(S)} = {}
        BY <1>6, PickIn
    <2>2. f[S] = w[x] + f[{}] /\ f[{}] = 0
        BY <1>2, <1>6, <2>1
    <2> QED
        BY <1>6, <2>2
<1>7. SumOver(w, S) = f[S]
    BY DEF SumOver, f
<1> QED
    BY <1>4, <1>5, <1>6, <1>7

----------------------------------------------------------------------------
(* The price of a selection.                                               *)

PricesOf(rows, sel) == [id \in sel |-> PriceOf(rows, id)]

LEMMA SumIsSum ==
    ASSUME NEW rows, NEW sel
    PROVE  SumOf(rows, sel) = SumOver(PricesOf(rows, sel), sel)
<1> DEFINE Entry(f, s) == IF s = {} THEN 0
                          ELSE PriceOf(rows, Pick(s)) + f[s \ {Pick(s)}]
<1>1. SumOf(rows, sel) = (CHOOSE f : f = [s \in SUBSET sel |-> Entry(f, s)])[sel]
    BY DEF SumOf, MapThenSumSet, MapThenFoldSet, Pick
<1>2. \A s \in SUBSET sel : s # {} => PricesOf(rows, sel)[Pick(s)] = PriceOf(rows, Pick(s))
    BY PickIn DEF PricesOf
<1>3. \A f : [s \in SUBSET sel |-> Entry(f, s)]
           = [s \in SUBSET sel |->
                 IF s = {} THEN 0 ELSE PricesOf(rows, sel)[Pick(s)] + f[s \ {Pick(s)}]]
    BY <1>2
<1>4. \A f : (f = [s \in SUBSET sel |-> Entry(f, s)]) <=> IsTable(PricesOf(rows, sel), sel, f)
    BY <1>3 DEF IsTable
<1>5. (CHOOSE f : f = [s \in SUBSET sel |-> Entry(f, s)])
      = (CHOOSE f : IsTable(PricesOf(rows, sel), sel, f))
    BY <1>4
<1> QED
    BY <1>1, <1>5 DEF SumOver

(* The rows a till is given.                                               *)
SoldRows(rows) ==
    /\ rows \in Seq(RowGroup)
    /\ \A i \in DOMAIN rows : Stored(rows[i])
    /\ AtMostOne(rows, IsAbsolute)

(* An answer belongs to a group of the product, and has a price.           *)
LEMMA AnswerFacts ==
    ASSUME NEW rows, SoldRows(rows), NEW id \in Answers(rows)
    PROVE  GroupIx(rows, id) \in DOMAIN rows /\ PriceOf(rows, id) \in Int
<1>1. PICK k \in DOMAIN rows : \E j \in Active(rows[k].options) : id = rows[k].options[j].id
    BY DEF Answers
<1>2. id \in Ids(rows[k].options)
    BY <1>1 DEF SoldRows, Stored, Active, Ids
<1>3. GroupIx(rows, id) \in DOMAIN rows /\ id \in Ids(rows[GroupIx(rows, id)].options)
    BY <1>2 DEF GroupIx
<1>4. PICK options : options = rows[GroupIx(rows, id)].options
    OBVIOUS
<1>5. rows[GroupIx(rows, id)] \in RowGroup
    BY <1>3, SeqFacts DEF SoldRows
<1>6. options \in Seq(OptionRow)
    BY <1>4, <1>5, GroupFields DEF RowGroup
<1>7. \E n \in DOMAIN options : options[n].id = id
    BY <1>3, <1>4 DEF Ids
<1>8. PICK n \in DOMAIN options : PriceOf(rows, id) = options[n].price
    BY <1>4, <1>7 DEF PriceOf
<1>9. options[n] \in OptionRow
    BY <1>6, SeqFacts
<1> QED
    BY <1>3, <1>8, <1>9 DEF OptionRow

LEMMA ImageFinite ==
    ASSUME NEW S, IsFiniteSet(S), NEW f, DOMAIN f = S
    PROVE  IsFiniteSet({f[x] : x \in S})
<1> DEFINE T == {f[x] : x \in S}
           g == [x \in S |-> f[x]]
<1>1. g \in Surjection(S, T)
    BY DEF Surjection
<1> HIDE DEF g, T
<1>2. IsFiniteSet(T)
    BY <1>1, FS_Surjection
<1> QED
    BY <1>2 DEF T

LEMMA AnswersFinite ==
    ASSUME NEW rows, SoldRows(rows)
    PROVE  IsFiniteSet(Answers(rows))
<1> DEFINE ids(i) == [j \in Active(rows[i].options) |-> rows[i].options[j].id]
           given == [i \in DOMAIN rows |-> {ids(i)[j] : j \in Active(rows[i].options)}]
           all == {given[i] : i \in DOMAIN rows}
<1>1. Len(rows) \in Nat /\ DOMAIN rows = 1..Len(rows)
    BY SeqFacts DEF SoldRows
<1>2. IsFiniteSet(DOMAIN rows)
    BY <1>1, FS_Interval
<1>3. ASSUME NEW i \in DOMAIN rows
      PROVE  IsFiniteSet({ids(i)[j] : j \in Active(rows[i].options)})
    <2>1. rows[i] \in RowGroup
        BY SeqFacts DEF SoldRows
    <2>2. IsFiniteSet(Active(rows[i].options))
        BY <2>1, GroupFields, ActiveFinite DEF RowGroup
    <2>3. DOMAIN ids(i) = Active(rows[i].options)
        OBVIOUS
    <2> HIDE DEF ids
    <2> QED
        BY <2>2, <2>3, ImageFinite
<1>4. \A s \in all : IsFiniteSet(s)
    BY <1>3
<1>5. Answers(rows) = UNION all
    BY DEF Answers
<1>6. DOMAIN given = DOMAIN rows
    OBVIOUS
<1> HIDE DEF given
<1>7. IsFiniteSet(all)
    BY <1>2, <1>6, ImageFinite
<1> HIDE DEF all
<1> QED
    BY <1>4, <1>5, <1>7, FS_UNION

LEMMA SumOfType ==
    ASSUME NEW rows, SoldRows(rows), NEW sel \in SUBSET Answers(rows)
    PROVE  /\ SumOf(rows, sel) \in Int
           /\ \A id : sel = {id} => SumOf(rows, sel) = PriceOf(rows, id)
<1>1. IsFiniteSet(sel)
    BY AnswersFinite, FS_Subset
<1>2. PICK w : w = PricesOf(rows, sel)
    OBVIOUS
<1>3. \A id \in sel : w[id] = PriceOf(rows, id) /\ w[id] \in Int
    BY <1>2, AnswerFacts DEF PricesOf
<1>4. SumOver(w, sel) \in Int /\ \A id : sel = {id} => SumOver(w, sel) = w[id]
    BY <1>1, <1>3, SumInt
<1>5. SumOf(rows, sel) = SumOver(w, sel)
    BY <1>2, SumIsSum
<1> QED
    BY <1>3, <1>4, <1>5

(* Of the answers a waiter can select, at most one is absolute.            *)
LEMMA OneAbsolute ==
    ASSUME NEW rows, SoldRows(rows), NEW sel \in SUBSET Answers(rows), Selectable(rows, sel),
           NEW x \in AbsoluteIn(rows, sel)
    PROVE  AbsoluteIn(rows, sel) = {x}
<1> SUFFICES ASSUME NEW y \in AbsoluteIn(rows, sel), y # x
             PROVE  FALSE
    OBVIOUS
<1>1. PICK i : i = GroupIx(rows, x)
    OBVIOUS
<1>2. /\ x \in sel /\ y \in sel /\ i \in DOMAIN rows /\ GroupIx(rows, y) \in DOMAIN rows
      /\ IsAbsolute(rows[i]) /\ IsAbsolute(rows[GroupIx(rows, y)])
    BY <1>1, AnswerFacts DEF AbsoluteIn
<1>3. GroupIx(rows, y) = i
    BY <1>2 DEF SoldRows, AtMostOne
<1>4. rows[i].type = "SINGLE"
    BY <1>2 DEF SoldRows, Stored, ValidGroup
<1>5. Cardinality(Chosen(rows, sel, i)) <= 1
    BY <1>2, <1>4 DEF Selectable
<1>6. {x, y} \subseteq Chosen(rows, sel, i)
    BY <1>1, <1>2, <1>3 DEF Chosen
<1>7. IsFiniteSet(Chosen(rows, sel, i))
    <2>1. Chosen(rows, sel, i) \subseteq Answers(rows)
        BY DEF Chosen
    <2> QED
        BY <2>1, AnswersFinite, FS_Subset
<1>8. IsFiniteSet({x, y}) /\ Cardinality({x, y}) <= Cardinality(Chosen(rows, sel, i))
    BY <1>6, <1>7, FS_Subset
<1>9. Cardinality({x, y}) = 2
    <2>1. IsFiniteSet({x}) /\ Cardinality({x}) = 1
        BY FS_Singleton
    <2>2. Cardinality({x} \union {y}) = Cardinality({x}) + 1
        BY <2>1, FS_AddElement
    <2>3. {x} \union {y} = {x, y}
        OBVIOUS
    <2> QED
        BY <2>1, <2>2, <2>3
<1>10. Cardinality(Chosen(rows, sel, i)) \in Nat
    BY <1>7, FS_CardinalityType
<1> QED
    BY <1>5, <1>8, <1>9, <1>10

(* The server and the cart come to the same price.                         *)
LEMMA SamePrice ==
    ASSUME NEW p, p.price \in Int, SoldRows(p.groups),
           NEW sel \in SUBSET Answers(p.groups), Selectable(p.groups, sel)
    PROVE  Priced(p, sel) = CartPrice(p, sel) /\ Priced(p, sel) \in Int
<1>1. PICK rows, absolute : rows = p.groups /\ absolute = AbsoluteIn(rows, sel)
    OBVIOUS
<1>2. absolute \subseteq sel /\ sel \ absolute \in SUBSET Answers(rows)
    BY <1>1 DEF AbsoluteIn
<1>3. SumOf(rows, sel \ absolute) \in Int
    BY <1>1, <1>2, SumOfType
<1>4. CASE absolute = {}
    BY <1>1, <1>3, <1>4 DEF Priced, CartPrice
<1>5. CASE absolute # {}
    <2>1. PICK x \in absolute : absolute = {x}
        BY <1>1, <1>5, OneAbsolute
    <2>2. (CHOOSE id \in absolute : TRUE) = x
        BY <2>1
    <2>3. x \in Answers(rows) /\ PriceOf(rows, x) \in Int
        BY <1>1, <1>2, AnswerFacts
    <2>4. SumOf(rows, absolute) = PriceOf(rows, x)
        BY <1>1, <2>1, <2>3, SumOfType
    <2>5. Priced(p, sel) = PriceOf(rows, x) + SumOf(rows, sel \ absolute)
        BY <1>1, <1>5, <2>2 DEF Priced
    <2>6. CartPrice(p, sel) = SumOf(rows, sel \ absolute) + SumOf(rows, absolute)
        BY <1>1, <1>5 DEF CartPrice
    <2> QED
        BY <1>3, <2>3, <2>4, <2>5, <2>6
<1> QED
    BY <1>4, <1>5

(* What the dialog lets through, the server finds within the bounds of     *)
(* every group.                                                            *)
LEMMA WithinBounds ==
    ASSUME NEW rows, SoldRows(rows), NEW sel \in SUBSET Answers(rows), Selectable(rows, sel),
           NEW i \in DOMAIN rows
    PROVE  LET n == Cardinality(Chosen(rows, sel, i))
           IN n >= rows[i].min /\ (rows[i].max # NoLimit => n <= rows[i].max)
<1>1. rows[i] \in RowGroup /\ ValidGroup(rows[i])
    BY SeqFacts DEF SoldRows, Stored
<1>2. rows[i].type \in {"SINGLE", "MULTIPLE"}
    BY <1>1, GroupFields DEF RowGroup
<1> QED
    BY <1>1, <1>2 DEF Selectable, ValidGroup

LEMMA WaiterPrice ==
    ASSUME saved.price \in Nat, SoldRows(saved.groups)
    PROVE  WaiterPriceIsCharged
<1> SUFFICES ASSUME NEW sel \in SUBSET Answers(saved.groups), Selectable(saved.groups, sel)
             PROVE  LET c == Charged(saved, sel)
                    IN IF c.ok THEN c.price = CartPrice(saved, sel) ELSE CartPrice(saved, sel) < 0
    BY DEF WaiterPriceIsCharged
<1>1. Priced(saved, sel) = CartPrice(saved, sel) /\ Priced(saved, sel) \in Int
    BY SamePrice
<1>2. \A i \in DOMAIN saved.groups :
         LET g == saved.groups[i]
             n == Cardinality(Chosen(saved.groups, sel, i))
         IN n >= g.min /\ (g.max # NoLimit => n <= g.max)
    BY WithinBounds
<1>3. Charged(saved, sel) = IF Priced(saved, sel) >= 0
                            THEN [ok |-> TRUE, price |-> Priced(saved, sel)] ELSE Refused
    BY <1>2 DEF Charged
<1> QED
    BY <1>1, <1>3 DEF Refused

(* At most one group of the product sets the final price.                  *)
OneAbsoluteSaved == AtMostOne(saved.groups, IsAbsolute)

LEMMA SaveKeepsOne ==
    ASSUME GroupInv, OneAbsoluteSaved, NEW a \in Admins, NEW answered \in BOOLEAN,
           Save(a, answered)
    PROVE  OneAbsoluteSaved'
<1>1. PICK p : p = Payload(form[a].groups)
    OBVIOUS
<1>2. saved' = saved \/ (Valid(p) /\ saved' = [price |-> form[a].price, groups |-> Written(p)])
    BY <1>1, SaveIs
<1>3. form[a].groups \in Seq(FormGroup) /\ saves \in Nat
    BY DEF GroupInv, GroupTypes
<1>4. p \in Seq(RowGroup)
    BY <1>1, <1>3, PayloadType
<1>5. CASE saved' = saved
    BY <1>5 DEF OneAbsoluteSaved, AtMostOne
<1>6. CASE Valid(p) /\ saved' = [price |-> form[a].price, groups |-> Written(p)]
    <2>1. AtMostOne(p, IsAbsolute)
        BY <1>6 DEF Valid, OnePriceGroup
    <2>2. DOMAIN Written(p) = DOMAIN p /\ \A i \in DOMAIN p : Written(p)[i].mode = p[i].mode
        BY <1>3, <1>4, WrittenType, WrittenGroup
    <2>3. saved'.groups = Written(p)
        BY <1>6
    <2> QED
        BY <2>1, <2>2, <2>3 DEF OneAbsoluteSaved, AtMostOne, IsAbsolute
<1> QED
    BY <1>2, <1>5, <1>6

LEMMA OnlySaveWrites ==
    ASSUME NEW a \in Admins, Open(a) \/ Close(a) \/ Edit(a)
    PROVE  saved' = saved
<1>1. CASE Open(a) \/ Close(a)
    BY <1>1 DEF Open, Close
<1>2. \A f : Becomes(a, f) => saved' = saved
    BY DEF Becomes
<1>3. \A groups : Edits(a, groups) => saved' = saved
    BY <1>2 DEF Edits
<1>4. \A i, g : UpdateGroup(a, i, g) => saved' = saved
    BY <1>3 DEF UpdateGroup
<1>5. \A i, options : EditsOptions(a, i, options) => saved' = saved
    BY <1>3 DEF EditsOptions
<1>6. ASSUME NEW i, NEW j, EditOption(a, i, j)
      PROVE  saved' = saved
    BY <1>5, <1>6, Zenon DEF EditOption, Reactivate, SetSign, SetCents, MoveOption,
                             ConfirmRemoveOption, UpdateOption
<1>7. ASSUME NEW i, EditGroup(a, i)
      PROVE  saved' = saved
    <2>1. \A value : SetRequired(a, i, value) => saved' = saved
        BY <1>4 DEF SetRequired
    <2>2. \A value : SetGroupQuickSaleTiles(a, i, value) => saved' = saved
        BY <1>3 DEF SetGroupQuickSaleTiles
    <2>3. \A type : SetSelectionType(a, i, type) => saved' = saved
        BY <1>4 DEF SetSelectionType
    <2>4. \A typed : SetMinSelect(a, i, typed) => saved' = saved
        BY <1>4 DEF SetMinSelect
    <2>5. \A typed : SetMaxSelect(a, i, typed) => saved' = saved
        BY <1>4 DEF SetMaxSelect
    <2>6. \A mode : SetGroupPriceMode(a, i, mode) => saved' = saved
        BY <1>3 DEF SetGroupPriceMode
    <2>7. MoveGroup(a, i) \/ RemoveGroup(a, i) \/ AddOption(a, i) => saved' = saved
        BY <1>3, <1>5 DEF MoveGroup, RemoveGroup, AddOption
    <2> QED
        BY <1>6, <1>7, <2>1, <2>2, <2>3, <2>4, <2>5, <2>6, <2>7, Zenon DEF EditGroup
<1>8. CASE Edit(a)
    BY <1>2, <1>3, <1>7, <1>8, Zenon DEF Edit, SetPrice, AddGroup
<1> QED
    BY <1>1, <1>8

(* A waiter is shown the price the server charges, whatever administrators *)
(* have saved: the dialog lets at most one answer of the group through     *)
(* that sets the final price, and the form at most one such group.         *)
THEOREM WaiterPays == GroupSpec => []WaiterPriceIsCharged
<1>1. GroupInit => OneAbsoluteSaved
    <2> SUFFICES ASSUME GroupInit PROVE OneAbsoluteSaved
        OBVIOUS
    <2>1. PICK groups \in InitialGroups : saved = [price |-> InitialPrice, groups |-> groups]
        BY DEF GroupInit
    <2>2. AtMostOne(groups, IsAbsolute)
        BY InitialAssumption DEF OnePriceGroup
    <2> QED
        BY <2>1, <2>2 DEF OneAbsoluteSaved
<1>2. GroupInv /\ OneAbsoluteSaved /\ [Administer]_groupVars => OneAbsoluteSaved'
    <2> SUFFICES ASSUME GroupInv, OneAbsoluteSaved, [Administer]_groupVars
                 PROVE  OneAbsoluteSaved'
        OBVIOUS
    <2>1. CASE saved' = saved
        BY <2>1 DEF OneAbsoluteSaved, AtMostOne
    <2>2. ASSUME NEW a \in Admins, NEW answered \in BOOLEAN, Save(a, answered)
          PROVE  OneAbsoluteSaved'
        BY <2>2, SaveKeepsOne
    <2>3. saved' = saved \/ \E a \in Admins, answered \in BOOLEAN : Save(a, answered)
        BY OnlySaveWrites DEF Administer, groupVars
    <2> QED
        BY <2>1, <2>2, <2>3
<1>3. GroupInv /\ OneAbsoluteSaved => WaiterPriceIsCharged
    BY WaiterPrice DEF GroupInv, GroupTypes, GoodRows, SoldRows, OneAbsoluteSaved
<1> QED
    BY <1>1, <1>2, <1>3, GroupInvariant, PTL DEF GroupSpec

----------------------------------------------------------------------------
(* The tills leave the groups to the administrators.                       *)

LEMMA StepOfTheGroups ==
    ASSUME [Next]_vars
    PROVE  [Administer]_groupVars
<1>1. ASSUME NEW t \in Tills, Page(t)
      PROVE  UNCHANGED groupVars
    BY <1>1 DEF Page, Refresh, SelectStation, StartSession, NextSale, AddOptionTile, ChangeLine,
                CartBecomes, SetDepositRefundCount, AbortSale, SubmitSale, AnswerArrives, TimesOut
<1>2. ASSUME NEW r \in net, CreateQuickSale(r)
      PROVE  UNCHANGED groupVars
    BY <1>2 DEF CreateQuickSale
<1>3. CASE Disturb
    BY <1>3 DEF Disturb
<1>4. CASE UNCHANGED vars
    BY <1>4 DEF vars
<1> QED
    BY <1>1, <1>2, <1>3, <1>4 DEF Next

(* Whatever the tills do, the administrators' part is OptionGroups: its    *)
(* theorems hold while sales go on.                                        *)
THEOREM TillsKeepGroups == Spec => GroupSpec
<1>1. Init => GroupInit
    BY DEF Init
<1>2. [Next]_vars => [Administer]_groupVars
    BY StepOfTheGroups
<1> QED
    BY <1>1, <1>2, PTL DEF Spec, GroupSpec

----------------------------------------------------------------------------
(* The sales.                                                              *)

(* The fields of a request, which an answer keeps.                         *)
Shaped(r) ==
    r \in [nr : {r.nr}, till : {r.till}, key : {r.key}, customer : {r.customer},
           station : {r.station}, items : {r.items}, method : {r.method}, tender : {r.tender},
           refund : {r.refund}, shown : {r.shown}, payout : {r.payout}, state : {r.state},
           change : {r.change}]

(* A key belongs to one customer: both change together, when a sale is     *)
(* over.                                                                   *)
KeysFit ==
    /\ key \in [Tills -> Nat] /\ customer \in [Tills -> Nat]
    /\ \A t \in Tills : key[t] = customer[t]
    /\ \A r \in net : Shaped(r) /\ r.key = r.customer

OrdersFit ==
    /\ pickups \in Nat
    /\ \A o \in orders : /\ o.key = o.customer
                         /\ o.vouchers = Quantity(o.items)
                         /\ o.station # NoStation => o.pickup \in Nat /\ o.pickup <= pickups
    /\ \A o, p \in orders : o.key = p.key => o = p

(* The inductive invariant of the sales.                                   *)
SaleInv == KeysFit /\ OrdersFit /\ PickupNumbersDiffer /\ ShownSaleIsBooked

LEMMA SaleUntouched ==
    ASSUME SaleInv, UNCHANGED <<net, orders, pickups, key, customer>>
    PROVE  SaleInv'
BY DEF SaleInv, KeysFit, OrdersFit, PickupNumbersDiffer, ShownSaleIsBooked, OrderOf

LEMMA ResetSaleKeepsKeys ==
    ASSUME SaleInv, NEW t \in Tills, ResetSale(t)
    PROVE  /\ key' \in [Tills -> Nat] /\ customer' \in [Tills -> Nat]
           /\ \A s \in Tills : key'[s] = customer'[s]
BY DEF SaleInv, KeysFit, ResetSale

(* Fewer requests under way, the orders as they were.                      *)
LEMMA FewerRequests ==
    ASSUME SaleInv, net' \subseteq net, UNCHANGED <<orders, pickups>>,
           key' \in [Tills -> Nat] /\ customer' \in [Tills -> Nat],
           \A s \in Tills : key'[s] = customer'[s]
    PROVE  SaleInv'
BY DEF SaleInv, KeysFit, OrdersFit, PickupNumbersDiffer, ShownSaleIsBooked, OrderOf

LEMMA AbortSaleKeeps ==
    ASSUME SaleInv, NEW t \in Tills, AbortSale(t)
    PROVE  SaleInv'
<1>1. ResetSale(t) /\ UNCHANGED <<orders, pickups, net>>
    BY DEF AbortSale, serverVars
<1> QED
    BY <1>1, ResetSaleKeepsKeys, FewerRequests

LEMMA AnswerArrivesKeeps ==
    ASSUME SaleInv, NEW t \in Tills, NEW r \in net, AnswerArrives(t, r)
    PROVE  SaleInv'
<1>1. net' \subseteq net /\ UNCHANGED <<orders, pickups>>
    BY DEF AnswerArrives, serverVars
<1>2. CASE ResetSale(t)
    BY <1>1, <1>2, ResetSaleKeepsKeys, FewerRequests
<1>3. CASE Failed(t)
    <2>1. UNCHANGED <<key, customer>>
        BY <1>3 DEF Failed
    <2> QED
        BY <1>1, <2>1, FewerRequests DEF SaleInv, KeysFit
<1> QED
    BY <1>2, <1>3 DEF AnswerArrives

LEMMA TimesOutKeeps ==
    ASSUME SaleInv, NEW t \in Tills, NEW lost \in BOOLEAN, TimesOut(t, lost)
    PROVE  SaleInv'
<1>1. net' \subseteq net /\ UNCHANGED <<orders, pickups, key, customer>>
    BY DEF TimesOut, serverVars, Failed
<1> QED
    BY <1>1, FewerRequests DEF SaleInv, KeysFit

LEMMA SubmitSaleKeeps ==
    ASSUME SaleInv, NEW t \in Tills, NEW method, NEW tender, SubmitSale(t, method, tender)
    PROVE  SaleInv'
<1>1. PICK r : r = Request(t, method, tender)
    OBVIOUS
<1>2. net' = net \union {r} /\ UNCHANGED <<orders, pickups, key, customer>>
    BY <1>1 DEF SubmitSale, serverVars
<1>3. Shaped(r) /\ r.key = r.customer /\ r.state = "sent"
    BY <1>1 DEF Request, Shaped, SaleInv, KeysFit
<1>4. KeysFit'
    BY <1>2, <1>3 DEF SaleInv, KeysFit
<1>5. OrdersFit' /\ PickupNumbersDiffer'
    BY <1>2 DEF SaleInv, OrdersFit, PickupNumbersDiffer
<1>6. ShownSaleIsBooked'
    BY <1>2, <1>3 DEF SaleInv, ShownSaleIsBooked, OrderOf
<1> QED
    BY <1>4, <1>5, <1>6 DEF SaleInv

(* An answer is the request with its outcome.                              *)
LEMMA AnswerShaped ==
    ASSUME NEW r, Shaped(r), NEW state, NEW change,
           NEW a, a = [r EXCEPT !.state = state, !.change = change]
    PROVE  Shaped(a)
<1>1. a \in [nr : {r.nr}, till : {r.till}, key : {r.key}, customer : {r.customer},
             station : {r.station}, items : {r.items}, method : {r.method}, tender : {r.tender},
             refund : {r.refund}, shown : {r.shown}, payout : {r.payout}, state : {state},
             change : {change}]
    BY DEF Shaped
<1>2. /\ a.nr = r.nr /\ a.till = r.till /\ a.key = r.key /\ a.customer = r.customer
      /\ a.station = r.station /\ a.items = r.items /\ a.method = r.method /\ a.tender = r.tender
      /\ a.refund = r.refund /\ a.shown = r.shown /\ a.payout = r.payout /\ a.state = state
      /\ a.change = change
    BY <1>1
<1> QED
    BY <1>1, <1>2 DEF Shaped

(* The answer to a request, if its till still waits for it.                *)
LEMMA AnswerKeepsKeys ==
    ASSUME SaleInv, NEW r \in net, NEW state, NEW change, Answer(r, state, change),
           UNCHANGED <<key, customer>>
    PROVE  /\ KeysFit'
           /\ \A a \in net' : \/ a \in net
                              \/ /\ a.state = state /\ a.change = change
                                 /\ a.key = r.key /\ a.items = r.items
                                 /\ a.method = r.method /\ a.refund = r.refund
<1>1. PICK a : a = [r EXCEPT !.state = state, !.change = change]
    OBVIOUS
<1>2. Shaped(r) /\ r.key = r.customer
    BY DEF SaleInv, KeysFit
<1>3. /\ a.state = state /\ a.change = change
      /\ a.key = r.key /\ a.customer = r.customer
      /\ a.items = r.items /\ a.method = r.method /\ a.refund = r.refund
    BY <1>1, <1>2 DEF Shaped
<1>4. Shaped(a)
    BY <1>1, <1>2, AnswerShaped
<1>5. net' \subseteq net \union {a}
    BY <1>1 DEF Answer
<1> QED
    BY <1>2, <1>3, <1>4, <1>5 DEF SaleInv, KeysFit

LEMMA RepeatedSaleKeeps ==
    ASSUME SaleInv, NEW r \in net, NEW o \in OrderOf(r.key), UNCHANGED <<key, customer, orders, pickups>>,
           IF SameSale(r, o) THEN Answer(r, "booked", ChangeOf(o)) ELSE Answer(r, "refused", 0)
    PROVE  SaleInv'
<1>1. OrdersFit' /\ PickupNumbersDiffer'
    BY DEF SaleInv, OrdersFit, PickupNumbersDiffer
<1>2. CASE SameSale(r, o)
    <2>1. /\ KeysFit'
          /\ \A a \in net' : \/ a \in net
                             \/ /\ a.change = ChangeOf(o) /\ a.key = r.key /\ a.items = r.items
                                /\ a.method = r.method /\ a.refund = r.refund
        BY <1>2, AnswerKeepsKeys
    <2>2. /\ o \in orders /\ o.key = r.key /\ o.items = r.items /\ o.method = r.method
          /\ o.refund = r.refund /\ o.vouchers = Quantity(r.items)
        BY <1>2 DEF OrderOf, SameSale, SaleInv, OrdersFit
    <2>3. ShownSaleIsBooked'
        BY <2>1, <2>2 DEF SaleInv, ShownSaleIsBooked, OrderOf, ChangeOf
    <2> QED
        BY <1>1, <2>1, <2>3 DEF SaleInv
<1>3. CASE ~SameSale(r, o)
    <2>1. KeysFit' /\ \A a \in net' : a \in net \/ a.state = "refused"
        BY <1>3, AnswerKeepsKeys
    <2>2. ShownSaleIsBooked'
        BY <2>1 DEF SaleInv, ShownSaleIsBooked, OrderOf
    <2> QED
        BY <1>1, <2>1, <2>2 DEF SaleInv
<1> QED
    BY <1>2, <1>3

LEMMA RefusedSaleKeeps ==
    ASSUME SaleInv, NEW r \in net, UNCHANGED <<key, customer, orders, pickups>>, Answer(r, "refused", 0)
    PROVE  SaleInv'
<1>1. OrdersFit' /\ PickupNumbersDiffer'
    BY DEF SaleInv, OrdersFit, PickupNumbersDiffer
<1>2. KeysFit' /\ \A a \in net' : a \in net \/ a.state = "refused"
    BY AnswerKeepsKeys
<1>3. ShownSaleIsBooked'
    BY <1>2 DEF SaleInv, ShownSaleIsBooked, OrderOf
<1> QED
    BY <1>1, <1>2, <1>3 DEF SaleInv

(* A sale that is booked: its key is new, and so is its pickup number.     *)
LEMMA BookedSaleKeeps ==
    ASSUME SaleInv, NEW r \in net, UNCHANGED <<key, customer>>, OrderOf(r.key) = {},
           orders' = orders \union {NewOrder(r)}, pickups' = DrawPickupNumber(r),
           Answer(r, "booked", ChangeOf(NewOrder(r)))
    PROVE  SaleInv'
<1>1. PICK n : n = NewOrder(r)
    OBVIOUS
<1>2. r.key = r.customer /\ pickups \in Nat
    BY DEF SaleInv, KeysFit, OrdersFit
<1>3. /\ n.key = r.key /\ n.customer = r.customer /\ n.items = r.items /\ n.method = r.method
      /\ n.refund = r.refund /\ n.station = r.station /\ n.pickup = DrawPickupNumber(r)
      /\ n.vouchers = Quantity(r.items)
    BY <1>1 DEF NewOrder
<1>4. /\ pickups' \in Nat /\ pickups <= pickups' /\ n.pickup = pickups'
      /\ n.station # NoStation => pickups' = pickups + 1
    BY <1>2, <1>3 DEF DrawPickupNumber
<1>5. \A o \in orders : o.key # n.key
    BY <1>3 DEF OrderOf
<1>6. ASSUME NEW o \in orders, o.station # NoStation, n.station # NoStation
      PROVE  o.pickup # n.pickup
    <2>1. o.pickup \in Nat /\ o.pickup <= pickups
        BY <1>6 DEF SaleInv, OrdersFit
    <2> QED
        BY <1>2, <1>4, <1>6, <2>1
<1>7. orders' = orders \union {n}
    BY <1>1
<1>8. OrdersFit'
    <2>1. \A o \in orders' : o.key = o.customer /\ o.vouchers = Quantity(o.items)
        BY <1>2, <1>3, <1>7 DEF SaleInv, OrdersFit
    <2>2. \A o \in orders' : o.station # NoStation => o.pickup \in Nat /\ o.pickup <= pickups'
        BY <1>2, <1>4, <1>7 DEF SaleInv, OrdersFit
    <2>3. \A o, p \in orders' : o.key = p.key => o = p
        BY <1>5, <1>7 DEF SaleInv, OrdersFit
    <2> QED
        BY <1>4, <2>1, <2>2, <2>3 DEF OrdersFit
<1>9. PickupNumbersDiffer'
    BY <1>6, <1>7 DEF SaleInv, PickupNumbersDiffer
<1>10. /\ KeysFit'
       /\ \A a \in net' : \/ a \in net
                          \/ /\ a.change = ChangeOf(n) /\ a.key = r.key /\ a.items = r.items
                             /\ a.method = r.method /\ a.refund = r.refund
    BY <1>1, AnswerKeepsKeys
<1>11. ShownSaleIsBooked'
    <2>1. ASSUME NEW a \in net', a.state = "booked", a \in net
          PROVE  \E o \in OrderOf(a.key)' : /\ o.items = a.items /\ o.method = a.method
                                            /\ o.refund = a.refund /\ a.change = ChangeOf(o)
                                            /\ o.vouchers = Quantity(a.items)
        BY <1>7, <2>1 DEF SaleInv, ShownSaleIsBooked, OrderOf
    <2>2. ASSUME NEW a \in net', a \notin net
          PROVE  \E o \in OrderOf(a.key)' : /\ o.items = a.items /\ o.method = a.method
                                            /\ o.refund = a.refund /\ a.change = ChangeOf(o)
                                            /\ o.vouchers = Quantity(a.items)
        BY <1>3, <1>7, <1>10, <2>2 DEF OrderOf
    <2> QED
        BY <2>1, <2>2 DEF ShownSaleIsBooked, ChangeOf
<1> QED
    BY <1>8, <1>9, <1>10, <1>11 DEF SaleInv

LEMMA CreateQuickSaleKeeps ==
    ASSUME SaleInv, NEW r \in net, CreateQuickSale(r)
    PROVE  SaleInv'
<1>1. UNCHANGED <<key, customer>>
    BY DEF CreateQuickSale, tillVars
<1>2. CASE OrderOf(r.key) # {}
    <2>1. PICK o \in OrderOf(r.key) :
              IF SameSale(r, o) THEN Answer(r, "booked", ChangeOf(o)) ELSE Answer(r, "refused", 0)
        <3>1. PICK o : o = CHOOSE x \in OrderOf(r.key) : TRUE
            OBVIOUS
        <3>2. o \in OrderOf(r.key)
            BY <1>2, <3>1
        <3> QED
            BY <1>2, <3>1, <3>2 DEF CreateQuickSale
    <2>2. UNCHANGED <<orders, pickups>>
        BY <1>2 DEF CreateQuickSale
    <2> QED
        BY <1>1, <2>1, <2>2, RepeatedSaleKeeps
<1>3. CASE OrderOf(r.key) = {} /\ Acceptable(r)
    BY <1>1, <1>3, BookedSaleKeeps DEF CreateQuickSale
<1>4. CASE OrderOf(r.key) = {} /\ ~Acceptable(r)
    BY <1>1, <1>4, RefusedSaleKeeps DEF CreateQuickSale
<1> QED
    BY <1>2, <1>3, <1>4

LEMMA PageKeeps ==
    ASSUME SaleInv, NEW t \in Tills, Page(t)
    PROVE  SaleInv'
<1>1. CASE \/ Refresh(t) \/ StartSession(t) \/ NextSale(t)
           \/ \E st \in Stations : SelectStation(t, st)
           \/ \E tile \in TilesOf(t), n \in QuickQuantities : AddOptionTile(t, tile, n)
           \/ \E line \in cart[t], n \in 0..MAX_QUANTITY : ChangeLine(t, line, n)
           \/ \E n \in 0..MaxRefund : SetDepositRefundCount(t, n)
    <2>1. UNCHANGED <<net, orders, pickups, key, customer>>
        BY <1>1 DEF Refresh, StartSession, NextSale, SelectStation, AddOptionTile, ChangeLine,
                    CartBecomes, SetDepositRefundCount, serverVars
    <2> QED
        BY <2>1, SaleUntouched
<1>2. CASE AbortSale(t)
    BY <1>2, AbortSaleKeeps
<1>3. ASSUME NEW method \in {"CASH", "CARD"}, NEW more \in Overpaid, SubmitSale(t, method, Total(t) + more)
      PROVE  SaleInv'
    BY <1>3, SubmitSaleKeeps
<1>4. ASSUME NEW r \in net, AnswerArrives(t, r)
      PROVE  SaleInv'
    BY <1>4, AnswerArrivesKeeps
<1>5. ASSUME NEW lost \in BOOLEAN, TimesOut(t, lost)
      PROVE  SaleInv'
    BY <1>5, TimesOutKeeps
<1> QED
    BY <1>1, <1>2, <1>3, <1>4, <1>5 DEF Page

LEMMA SaleInvariant == Spec => []SaleInv
<1>1. Init => SaleInv
    BY DEF Init, SaleInv, KeysFit, OrdersFit, PickupNumbersDiffer, ShownSaleIsBooked
<1>2. SaleInv /\ [Next]_vars => SaleInv'
    <2>1. SUFFICES ASSUME SaleInv, [Next]_vars
                   PROVE  SaleInv'
        OBVIOUS
    <2>2. CASE UNCHANGED <<tillVars, serverVars, net, requests>> \/ Disturb \/ UNCHANGED vars
        <3>1. UNCHANGED <<net, orders, pickups, key, customer>>
            BY <2>2 DEF Disturb, vars, tillVars, serverVars
        <3> QED
            BY <2>1, <3>1, SaleUntouched
    <2>3. ASSUME NEW t \in Tills, Page(t)
          PROVE  SaleInv'
        BY <2>1, <2>3, PageKeeps
    <2>4. ASSUME NEW r \in net, CreateQuickSale(r)
          PROVE  SaleInv'
        BY <2>1, <2>4, CreateQuickSaleKeeps
    <2> QED
        BY <2>1, <2>2, <2>3, <2>4 DEF Next
<1> QED
    BY <1>1, <1>2, PTL DEF Spec

(* No customer pays twice, however often requests and answers get lost and *)
(* the cashier tries again: a failed sale keeps its key, and a key has one *)
(* order.                                                                  *)
THEOREM NobodyPaysTwice == Spec => []OneOrderPerCustomer
<1>1. SaleInv => OneOrderPerCustomer
    BY DEF SaleInv, OrdersFit, OneOrderPerCustomer
<1> QED
    BY <1>1, SaleInvariant, PTL

(* What a till shows as booked is booked as that till asked for it.        *)
THEOREM ShownIsBooked == Spec => []ShownSaleIsBooked
<1>1. SaleInv => ShownSaleIsBooked
    BY DEF SaleInv
<1> QED
    BY <1>1, SaleInvariant, PTL

(* Two sales of a station till never carry the same pickup number.         *)
THEOREM PickupNumbers == Spec => []PickupNumbersDiffer
<1>1. SaleInv => PickupNumbersDiffer
    BY DEF SaleInv
<1> QED
    BY <1>1, SaleInvariant, PTL
============================================================================
