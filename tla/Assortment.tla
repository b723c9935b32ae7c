----------------------------- MODULE Assortment -----------------------------
(* What is sold at an event: its stations, categories and products, the    *)
(* forms that edit them, and the four ways to take them over into another  *)
(* event: duplicate, copyAssortment, export and import.                    *)
(*                                                                         *)
(* Duplicate, copy and import write in SERIALIZABLE transactions under a   *)
(* key (configOperation): they read as of their first statement (Arrives)  *)
(* and write when they commit (Commits).  Two of them that each read what  *)
(* the other writes do not both commit; the forms save outside of such     *)
(* transactions, and a transfer does not notice them.  Names of rows stand *)
(* for all that is copied as it is: prices, sort numbers, colours, areas.  *)
EXTENDS Integers, Sequences, FiniteSets, FiniteSetsExt

CONSTANTS
    Admins,
    InitialEvents,          \* a sequence of events
    Files,                  \* configuration files from elsewhere
    Names,                  \* given to new categories and products
    MaxEvents, MaxStations, MaxRows, MaxEdits, MaxSelections, MaxDialogs, MaxTransfers

VARIABLES
    events,     \* the events and their rows
    exported,   \* the files that were exported
    done,       \* ConfigOperation
    running,    \* requests under way
    selected,   \* the event the page of an administrator is about
    form,       \* its form
    dialog,     \* its dialog (EventConfigurationActions)
    importKey,  \* the key of its import, 0 for none
    counts

tables == <<events, exported, done>>
pages == <<selected, form, dialog, importKey>>
assortmentVars == <<tables, running, pages, counts>>

None == 0
Made(what) == counts' = [counts EXCEPT ![what] = @ + 1]

NoName == ""
NoFile == [name |-> NoName]

(* A station is known by its event and its number there.                   *)
Nowhere == <<0, 0>>
StationsOf(e) == {<<e, n>> : n \in events[e].stations}
Largest(set) == Max({r.nr : r \in set} \union {0})

(* resolveTargetStation: the exception of a product, or its category's.    *)
Route(row, p) ==
    IF p.station # Nowhere THEN p.station
    ELSE (CHOOSE c \in row.categories : c.nr = p.category).station

----------------------------------------------------------------------------
(* The forms.  A form holds what it loaded when it was opened, the         *)
(* stations of the event selected then included.                           *)

NoForm == [kind |-> "none"]

Category(nr, name, station, deposit, active) ==
    [nr |-> nr, name |-> name, station |-> station, deposit |-> deposit, active |-> active]

Product(nr, name, category, station, deposit, available, groups) ==
    [nr |-> nr, name |-> name, category |-> category, station |-> station, deposit |-> deposit,
     available |-> available, groups |-> groups]

RowsOf(e, kind) == IF kind = "category" THEN events[e].categories ELSE events[e].products

Blank(e, kind, name) ==
    IF kind = "category" THEN Category(0, name, Nowhere, 0, TRUE)
    ELSE Product(0, name, Largest(events[e].categories), Nowhere, 0, TRUE, << >>)

(* What a list offers to edit, and a new row.                              *)
Listed(e, kind) == RowsOf(e, kind) \union {Blank(e, kind, n) : n \in Names}

SelectEvent(a, e) ==
    /\ selected[a] # e
    /\ counts.selections < MaxSelections /\ Made("selections")
    /\ selected' = [selected EXCEPT ![a] = e]
    /\ UNCHANGED <<tables, running, form, dialog, importKey>>

FormBecomes(a, f) ==
    /\ form' = [form EXCEPT ![a] = f]
    /\ UNCHANGED <<selected, dialog, importKey>>

(* handleOpenModal                                                         *)
OpenModal(a, kind, row) ==
    /\ form[a] = NoForm
    /\ counts.edits < MaxEdits /\ Made("edits")
    /\ FormBecomes(a, [kind |-> kind, event |-> selected[a], row |-> row,
                       stations |-> StationsOf(selected[a])])
    /\ UNCHANGED <<tables, running>>

OpenCategory(a, c) == OpenModal(a, "category", c)
OpenProduct(a, p) == OpenModal(a, "product", p)

SetRow(a, row) ==
    /\ form[a] # NoForm
    /\ form[a].row # row
    /\ counts.edits < MaxEdits /\ Made("edits")
    /\ FormBecomes(a, [form[a] EXCEPT !.row = row])
    /\ UNCHANGED <<tables, running>>

SetTargetStation(a, station) == SetRow(a, [form[a].row EXCEPT !.station = station])
SetDeposit(a, deposit) == SetRow(a, [form[a].row EXCEPT !.deposit = deposit])

(* The check box of a category, the switch of a product.                   *)
SetActive(a, flag) ==
    /\ form[a].row.nr # 0
    /\ SetRow(a, IF form[a].kind = "category" THEN [form[a].row EXCEPT !.active = flag]
                 ELSE [form[a].row EXCEPT !.available = flag])

CloseModal(a) ==
    /\ form[a] # NoForm
    /\ FormBecomes(a, NoForm)
    /\ UNCHANGED <<tables, running, counts>>

(* Mutant: the station is not looked up.                                   *)
StationBelongsToEvent_Always(station, e) == TRUE

(* assertStationBelongsToEvent                                             *)
StationBelongsToEvent(station, e) == station \in StationsOf(e) \union {Nowhere}

CategoryBelongsToEvent(nr, e) == \E c \in events[e].categories : c.nr = nr

Numbered(row, all) == [row EXCEPT !.nr = IF @ = 0 THEN Largest(all) + 1 ELSE @]
Others(row, all) == {r \in all : r.nr # row.nr}

(* createCategory, updateCategory                                          *)
PutCategory(e, row) ==
    /\ StationBelongsToEvent(row.station, e)
    /\ events' = [events EXCEPT ![e].categories = Others(row, @) \union {Numbered(row, @)}]

(* createProduct, updateProduct                                            *)
PutProduct(e, row) ==
    /\ StationBelongsToEvent(row.station, e)
    /\ CategoryBelongsToEvent(row.category, e)
    /\ events' = [events EXCEPT ![e].products = Others(row, @) \union {Numbered(row, @)}]

(* handleSaveModal: a new row goes to the event selected by now, a row     *)
(* that is edited stays where it is.                                       *)
SaveModal(a) ==
    LET f == form[a]
        e == IF f.row.nr = 0 THEN selected[a] ELSE f.event
    IN /\ f # NoForm
       /\ Largest(RowsOf(e, f.kind)) < MaxRows
       /\ IF f.kind = "category" THEN PutCategory(e, f.row) ELSE PutProduct(e, f.row)
       /\ FormBecomes(a, NoForm)
       /\ UNCHANGED <<exported, done, running, counts>>

(* updateAvailability                                                      *)
WithAvailability(e, p, flag) ==
    events' = [events EXCEPT ![e].products = Others(p, @) \union {[p EXCEPT !.available = flag]}]

(* handleToggleProductAvailability                                         *)
ToggleAvailability(a, p) ==
    /\ counts.edits < MaxEdits /\ Made("edits")
    /\ WithAvailability(selected[a], p, ~p.available)
    /\ UNCHANGED <<exported, done, running, pages>>

CreateStation(a) ==
    LET e == selected[a] IN
    /\ Cardinality(events[e].stations) < MaxStations
    /\ counts.edits < MaxEdits /\ Made("edits")
    /\ events' = [events EXCEPT ![e].stations = @ \union {Cardinality(@) + 1}]
    /\ UNCHANGED <<exported, done, running, pages>>

----------------------------------------------------------------------------
(* The dialog of an event, and its requests.                               *)

NoDialog == [action |-> "none"]

DialogBecomes(a, d) == dialog' = [dialog EXCEPT ![a] = d]

(* open: every opening draws a key; nothing is mapped yet.                 *)
OpenDialog(a, action) ==
    /\ dialog[a] = NoDialog
    /\ counts.dialogs < MaxDialogs /\ Made("dialogs")
    /\ DialogBecomes(a, [action |-> action, nr |-> counts.dialogs + 1, source |-> selected[a],
                         target |-> None, name |-> NoName, busy |-> FALSE,
                         mapping |-> [s \in StationsOf(selected[a]) |-> Nowhere]])
    /\ UNCHANGED <<tables, running, selected, form, importKey>>

(* The copy's name is typed.                                               *)
TypeName(a, name) ==
    /\ dialog[a].action = "duplicate" /\ dialog[a].name = NoName
    /\ DialogBecomes(a, [dialog[a] EXCEPT !.name = name])
    /\ UNCHANGED <<tables, running, selected, form, importKey, counts>>

(* An event that may receive an assortment: not confirmed, not running.    *)
Receives(e) == events[e].status \in {"DRAFT", "PREPARED", "TEST_MODE"} /\ ~events[e].confirmed

(* loadTargetStations; the mapping made so far stays, and may name         *)
(* stations of another target.                                             *)
ChooseTarget(a, e) ==
    /\ dialog[a].action = "copy" /\ ~dialog[a].busy
    /\ e # dialog[a].source /\ Receives(e) /\ e # dialog[a].target
    /\ DialogBecomes(a, [dialog[a] EXCEPT !.target = e])
    /\ UNCHANGED <<tables, running, selected, form, importKey, counts>>

MapStation(a, from, to) ==
    /\ dialog[a].action = "copy" /\ dialog[a].target # None /\ ~dialog[a].busy
    /\ from \in DOMAIN dialog[a].mapping /\ dialog[a].mapping[from] # to
    /\ to \in StationsOf(dialog[a].target) \union {Nowhere}
    /\ DialogBecomes(a, [dialog[a] EXCEPT !.mapping[from] = to])
    /\ UNCHANGED <<tables, running, selected, form, importKey, counts>>

CloseDialog(a) ==
    /\ dialog[a] # NoDialog /\ ~dialog[a].busy
    /\ DialogBecomes(a, NoDialog)
    /\ UNCHANGED <<tables, running, selected, form, importKey, counts>>

(* A request as the server receives it, with what it sees of the database. *)
Request(a, action, key, payload) ==
    [nr |-> counts.requests + 1, admin |-> a, action |-> action, key |-> key,
     payload |-> payload, sees |-> events, knows |-> done, result |-> "running"]

Arrives(a, action, key, payload) ==
    /\ counts.requests < MaxTransfers /\ Made("requests")
    /\ running' = running \union {Request(a, action, key, payload)}

KeyOf(a) == dialog[a].nr

Submit(a) ==
    LET d == dialog[a] IN
    /\ d # NoDialog /\ ~d.busy
    /\ d.action = "duplicate" => d.name # NoName
    /\ d.action = "copy" => d.target # None
    /\ Arrives(a, d.action, KeyOf(a),
               [dialog |-> d.nr, source |-> d.source, target |-> d.target, name |-> d.name,
                mapping |-> d.mapping, file |-> NoFile])
    /\ DialogBecomes(a, [d EXCEPT !.busy = TRUE])
    /\ UNCHANGED <<tables, selected, form, importKey>>

(* importFile: the key stays until an import succeeds, whatever file is    *)
(* chosen next and however many are under way.                             *)
ImportFile(a, file) ==
    LET key == IF importKey[a] # 0 THEN importKey[a] ELSE MaxDialogs + counts.requests + 1 IN
    /\ dialog[a] = NoDialog
    /\ Arrives(a, "import", key,
               [dialog |-> key, source |-> None, target |-> None, name |-> file.name,
                mapping |-> << >>, file |-> file])
    /\ importKey' = [importKey EXCEPT ![a] = key]
    /\ UNCHANGED <<tables, selected, form, dialog>>

(* The answer of a request, or the end of waiting for it; a dialog waits   *)
(* for its last request.                                                   *)
Answered(a, r, arrives) ==
    /\ r.admin = a
    /\ r.action # "import" =>
         /\ dialog[a] # NoDialog /\ dialog[a].busy /\ r.payload.dialog = dialog[a].nr
         /\ \A q \in running : q.admin = a /\ q.action # "import" => q.nr <= r.nr
    /\ arrives => r.result # "running"
    /\ running' = IF r.result = "running" THEN running ELSE running \ {r}
    /\ LET ok == arrives /\ r.result # "refused"
       IN IF r.action = "import"
          THEN /\ importKey' = [importKey EXCEPT ![a] = IF ok THEN 0 ELSE @]
               /\ UNCHANGED dialog
          ELSE /\ DialogBecomes(a, IF ok THEN NoDialog ELSE [dialog[a] EXCEPT !.busy = FALSE])
               /\ UNCHANGED importKey
    /\ r.result = "running" => r.action # "import"
    /\ UNCHANGED <<tables, selected, form, counts>>

----------------------------------------------------------------------------
(* validateImport.                                                         *)

NoLimit == -1

(* parseOptionGroup                                                        *)
GroupParses(g) ==
    /\ g.min >= 0
    /\ g.max # NoLimit => g.max >= 1 /\ g.max >= g.min
    /\ g.required = (g.min >= 1)
    /\ g.type = "SINGLE" => g.max = 1 /\ g.min <= 1
    /\ g.mode = "ABSOLUTE" => g.type = "SINGLE" /\ g.required /\ \A p \in g.prices : p >= 0
    /\ g.tiles => g.type = "SINGLE" /\ g.required

(* assertOptionGroupLimits                                                 *)
WithinGroupLimits(groups) ==
    \A i, k \in DOMAIN groups :
        i # k => /\ ~(groups[i].mode = "ABSOLUTE" /\ groups[k].mode = "ABSOLUTE")
                 /\ ~(groups[i].tiles /\ groups[k].tiles)

(* Mutant: a variant need not be chosen.                                   *)
LegacyGroups_Optional(p) ==
    <<[type |-> "SINGLE", required |-> FALSE, min |-> 0, max |-> 1, mode |-> "ABSOLUTE",
       tiles |-> TRUE, prices |-> p.variants]>>

(* legacyOptionGroups: version 1 had variants, which set the price, and    *)
(* extras.                                                                 *)
LegacyGroups(p) ==
    (IF p.variants = {} THEN << >>
     ELSE <<[type |-> "SINGLE", required |-> TRUE, min |-> 1, max |-> 1, mode |-> "ABSOLUTE",
             tiles |-> TRUE, prices |-> p.variants]>>)
    \o (IF p.extras = {} THEN << >>
        ELSE <<[type |-> "MULTIPLE", required |-> FALSE, min |-> 0, max |-> NoLimit,
                mode |-> "SURCHARGE", tiles |-> FALSE, prices |-> p.extras]>>)

GroupsOf(file, p) == IF file.version = 1 THEN LegacyGroups(p) ELSE p.groups

(* parseLegacyChild                                                        *)
ChildrenParse(p) == \A price \in p.variants : price >= 0

Refs(set) == {x.nr : x \in set}
Unique(set) == \A x, y \in set : x.nr = y.nr => x = y

(* categoryRef and stationRef name something of the file, or nothing; only *)
(* version 3 routes categories.                                            *)
FileParses(file) ==
    /\ file.version \in 1..3
    /\ Unique(file.categories) /\ Unique(file.products)
    /\ \A c \in file.categories : c.station \in file.stations \union {None}
    /\ file.version < 3 => \A c \in file.categories : c.station = None
    /\ \A p \in file.products :
         /\ p.category \in Refs(file.categories) \union {None}
         /\ p.station \in file.stations \union {None}
         /\ IF file.version = 1 THEN ChildrenParse(p)
            ELSE \A i \in DOMAIN p.groups : GroupParses(p.groups[i])
         /\ WithinGroupLimits(GroupsOf(file, p))

(* The checks and the partial unique indexes of the database on groups.    *)
DatabaseAccepts(groups) ==
    /\ \A i \in DOMAIN groups :
         LET g == groups[i] IN
         /\ g.min >= 0 /\ (g.max # NoLimit => g.max >= g.min)
         /\ g.required = (g.min >= 1)
         /\ g.type = "SINGLE" => g.max = 1
         /\ g.mode = "ABSOLUTE" \/ g.tiles => g.type = "SINGLE" /\ g.required
    /\ Cardinality({i \in DOMAIN groups : groups[i].mode = "ABSOLUTE"}) <= 1
    /\ Cardinality({i \in DOMAIN groups : groups[i].tiles}) <= 1

----------------------------------------------------------------------------
(* What is written.                                                        *)

Draft(name) ==
    [name |-> name, status |-> "DRAFT", confirmed |-> FALSE, stations |-> {}, categories |-> {},
     products |-> {}]

(* Mutant: the station of a category is left behind.                       *)
MovedCategory_Unrouted(c, station) == Category(c.nr, c.name, Nowhere, 0, TRUE)

(* Neither the deposit nor the check box of a category is copied, nor the  *)
(* deposit of a product.                                                   *)
MovedCategory(c, station) == Category(c.nr, c.name, station, 0, TRUE)

MovedProduct(p, station, category) ==
    Product(p.nr, p.name, category, station, 0, p.available, p.groups)

(* duplicate: every station of the source has its copy.                    *)
Duplicated(r) ==
    LET source == r.sees[r.payload.source]
        new == Len(events) + 1
        to(s) == IF s = Nowhere THEN Nowhere ELSE <<new, s[2]>>
    IN [Draft(r.payload.name) EXCEPT
           !.stations = source.stations,
           !.categories = {MovedCategory(c, to(c.station)) : c \in source.categories},
           !.products = {MovedProduct(p, to(p.station), p.category) : p \in source.products}]

(* A station that is not in the mapping of the request was made since.     *)
Mapped(r, s) == IF s = Nowhere THEN Nowhere ELSE r.payload.mapping[s]

(* copyAssortment                                                          *)
Copied(r) ==
    LET source == r.sees[r.payload.source]
        target == events[r.payload.target]
        base == Largest(target.categories)
        moved(c) == [MovedCategory(c, Mapped(r, c.station)) EXCEPT !.nr = @ + base]
        movedP(p) == [MovedProduct(p, Mapped(r, p.station), p.category + base) EXCEPT
                         !.nr = @ + Largest(target.products)]
    IN [target EXCEPT !.categories = @ \union {moved(c) : c \in source.categories},
                      !.products = @ \union {movedP(p) : p \in source.products}]

CompleteMapping(r) ==
    \A n \in r.sees[r.payload.source].stations :
       LET s == <<r.payload.source, n>>
       IN /\ s \in DOMAIN r.payload.mapping
          /\ r.payload.mapping[s] = Nowhere
             \/ \E k \in r.sees[r.payload.target].stations :
                    r.payload.mapping[s] = <<r.payload.target, k>>

NamesIn(row) ==
    {<<"category", c.name>> : c \in row.categories}
    \union {<<"product", p.name>> : p \in row.products}

NameConflict(r) ==
    NamesIn(r.sees[r.payload.source]) \intersect NamesIn(r.sees[r.payload.target]) # {}

(* exportConfig                                                            *)
NrOf(s) == s[2]

Exported(e) ==
    [name |-> events[e].name, version |-> 3, stations |-> events[e].stations,
     categories |-> {[nr |-> c.nr, name |-> c.name, station |-> NrOf(c.station)] :
                       c \in events[e].categories},
     products |-> {[nr |-> p.nr, name |-> p.name, category |-> p.category,
                    station |-> NrOf(p.station), available |-> p.available,
                    groups |-> p.groups, variants |-> {}, extras |-> {}] :
                       p \in events[e].products}]

Download(a) ==
    /\ Exported(selected[a]) \notin exported
    /\ counts.edits < MaxEdits /\ Made("edits")
    /\ exported' = exported \union {Exported(selected[a])}
    /\ UNCHANGED <<events, done, running, pages>>

(* planFallbackCategory: products without a category get one of their own. *)
Fallback(file) ==
    IF \E p \in file.products : p.category = None
    THEN {Category(Largest(file.categories) + 1,
                   IF \E c \in file.categories : c.name = "Sonstige Artikel"
                   THEN "Sonstige Artikel (ohne Kategorie)" ELSE "Sonstige Artikel",
                   Nowhere, 0, TRUE)}
    ELSE {}

(* importConfig writes product.manualAvailability, which validateImport    *)
(* has called availability: the column keeps its default.                  *)
Imported(r) ==
    LET file == r.payload.file
        new == Len(events) + 1
        to(s) == IF s = None THEN Nowhere ELSE <<new, s>>
        category(p) == IF p.category = None THEN Largest(file.categories) + 1 ELSE p.category
    IN [Draft(file.name) EXCEPT
           !.stations = file.stations,
           !.categories = {Category(c.nr, c.name, to(c.station), 0, TRUE) : c \in file.categories}
                          \union Fallback(file),
           !.products = {Product(p.nr, p.name, category(p), to(p.station), 0, TRUE,
                                 GroupsOf(file, p)) : p \in file.products}]

NameTaken(r) == \E i \in DOMAIN r.sees : r.sees[i].name = r.payload.name

(* What is looked at before the key: validateImport; the target of a copy. *)
Checked(r) ==
    CASE r.action = "import" -> FileParses(r.payload.file)
      [] r.action = "copy" -> /\ r.sees[r.payload.target].status \in {"DRAFT", "PREPARED", "TEST_MODE"}
                              /\ ~r.sees[r.payload.target].confirmed
                              /\ CompleteMapping(r)
      [] OTHER -> TRUE

(* The names a transfer looks for, and writes: those of rows in its        *)
(* target, or that of an event.                                            *)
NamesOf(r) ==
    IF r.action = "copy" THEN NamesIn(r.sees[r.payload.source]) ELSE {<<"event", r.payload.name>>}

NamesFree(r) == IF r.action = "copy" THEN ~NameConflict(r) ELSE ~NameTaken(r)

(* A key is used in a scope: the source of a duplicate, the target of a    *)
(* copy, one for all imports.                                              *)
Scope(q) == IF q.action = "duplicate" THEN q.payload.source ELSE q.payload.target
SameKey(q, o) == q.action = o.action /\ Scope(q) = Scope(o) /\ q.key = o.key

(* The ConfigOperation that r finds.                                       *)
Existing(r) == {o \in r.knows : SameKey(r, o)}

Operation(r) == [action |-> r.action, key |-> r.key, payload |-> r.payload, names |-> NamesOf(r)]

(* q reads what o writes: in its target, or in its source.                 *)
ReadsWhatWrites(q, o) ==
    \/ q.payload.target = o.payload.target /\ q.names \intersect o.names # {}
    \/ q.payload.source # None /\ q.payload.source = o.payload.target /\ o.names # {}

(* Of two transactions that each read what the other writes, the one that  *)
(* commits last fails, and so does a second ConfigOperation with one key.  *)
Serializes(r) ==
    \A o \in done \ r.knows :
        /\ ~SameKey(r, o)
        /\ ~(ReadsWhatWrites(Operation(r), o) /\ ReadsWhatWrites(o, Operation(r)))

Ends(r, result) == running' = (running \ {r}) \union {[r EXCEPT !.result = result]}

(* The same key with another payload is a conflict, with the same one the  *)
(* stored answer.                                                          *)
Replays(r) ==
    /\ r.result = "running"
    /\ Checked(r) /\ Existing(r) # {}
    /\ Ends(r, IF \E o \in Existing(r) : o.payload = r.payload THEN "replayed" ELSE "refused")
    /\ UNCHANGED <<tables, pages, counts>>

Commits(r) ==
    /\ r.result = "running"
    /\ Checked(r) /\ Existing(r) = {} /\ NamesFree(r) /\ Serializes(r)
    /\ r.action # "copy" => Len(events) < MaxEvents
    /\ events' = CASE r.action = "copy" -> [events EXCEPT ![r.payload.target] = Copied(r)]
                   [] r.action = "duplicate" -> Append(events, Duplicated(r))
                   [] r.action = "import" -> Append(events, Imported(r))
    /\ done' = done \union {Operation(r)}
    /\ Ends(r, "made")
    /\ UNCHANGED <<exported, pages, counts>>

(* Refused by a check, a repeat of a copy included, or rolled back for a   *)
(* reason of the database's.                                               *)
Fails(r) ==
    /\ r.result = "running"
    /\ Ends(r, "refused")
    /\ UNCHANGED <<tables, pages, counts>>

----------------------------------------------------------------------------
(* What is there at the beginning.  The keys of the database: an event's   *)
(* categories have numbers of their own, and a row refers to rows of its   *)
(* event; files number theirs as well.                                     *)

Sites(e, i) == {<<i, n>> : n \in e.stations} \union {Nowhere}

Consistent(e, i) ==
    /\ e = [name |-> e.name, status |-> e.status, confirmed |-> e.confirmed,
            stations |-> e.stations, categories |-> e.categories, products |-> e.products]
    /\ IsFiniteSet(e.categories) /\ Unique(e.categories)
    /\ \A c \in e.categories :
         /\ c = Category(c.nr, c.name, c.station, c.deposit, c.active)
         /\ c.nr \in Nat \ {None}
    /\ \A p \in e.products :
         /\ p = Product(p.nr, p.name, p.category, p.station, p.deposit, p.available, p.groups)
         /\ p.category \in Refs(e.categories)
         /\ DatabaseAccepts(p.groups)
    /\ \A x \in e.categories \union e.products : x.station \in Sites(e, i)

NumbersCategories(file) ==
    IsFiniteSet(file.categories) /\ \A c \in file.categories : c.nr \in Nat \ {None}

ASSUME InitialAssumption ==
    /\ InitialEvents \in Seq({InitialEvents[i] : i \in DOMAIN InitialEvents})
    /\ InitialEvents # << >>
    /\ \A i \in DOMAIN InitialEvents : Consistent(InitialEvents[i], i)
    /\ \A file \in Files : NumbersCategories(file)

----------------------------------------------------------------------------
AssortmentInit ==
    /\ events = InitialEvents
    /\ exported = {} /\ done = {} /\ running = {}
    /\ selected = [a \in Admins |-> 1]
    /\ form = [a \in Admins |-> NoForm]
    /\ dialog = [a \in Admins |-> NoDialog]
    /\ importKey = [a \in Admins |-> 0]
    /\ counts = [edits |-> 0, selections |-> 0, dialogs |-> 0, requests |-> 0]

Edits(a) ==
    \/ \E e \in DOMAIN events : SelectEvent(a, e)
    \/ \E c \in Listed(selected[a], "category") : OpenCategory(a, c)
    \/ \E p \in Listed(selected[a], "product") : OpenProduct(a, p)
    \/ \E p \in events[selected[a]].products : ToggleAvailability(a, p)
    \/ form[a] # NoForm /\ \E s \in form[a].stations \union {Nowhere} : SetTargetStation(a, s)
    \/ form[a] # NoForm /\ SetDeposit(a, 1)
    \/ form[a] # NoForm /\ \E flag \in BOOLEAN : SetActive(a, flag)
    \/ CloseModal(a) \/ SaveModal(a) \/ CreateStation(a)

Takes(a) ==
    \/ \E action \in {"duplicate", "copy"} : OpenDialog(a, action)
    \/ \E n \in Names : TypeName(a, n)
    \/ \E e \in DOMAIN events : ChooseTarget(a, e)
    \/ dialog[a].action = "copy" /\ dialog[a].target # None
       /\ \E from \in DOMAIN dialog[a].mapping,
             to \in StationsOf(dialog[a].target) \union {Nowhere} : MapStation(a, from, to)
    \/ CloseDialog(a) \/ Submit(a) \/ Download(a)
    \/ \E file \in Files \union exported : ImportFile(a, file)
    \/ \E r \in running, arrives \in BOOLEAN : Answered(a, r, arrives)

AssortmentNext ==
    \/ \E a \in Admins : Edits(a) \/ Takes(a)
    \/ \E r \in running : Replays(r) \/ Commits(r) \/ Fails(r)

AssortmentSpec == AssortmentInit /\ [][AssortmentNext]_assortmentVars

----------------------------------------------------------------------------
AssortmentTypeOK ==
    /\ Len(events) \in 1..MaxEvents
    /\ \A i \in DOMAIN events :
         /\ \A c \in events[i].categories : c.nr \in 1..2 * MaxRows
         /\ \A p \in events[i].products : \E c \in events[i].categories : c.nr = p.category
    /\ \A a \in Admins : selected[a] \in DOMAIN events
    /\ \A r \in running : r.result \in {"running", "made", "replayed", "refused"}

(* No form, copy or import writes a station of another event, whatever was *)
(* selected meanwhile: the foreign keys never have to refuse one with an   *)
(* error of the database.                                                  *)
RoutedInOwnEvent ==
    \A i \in DOMAIN events : \A x \in events[i].categories \union events[i].products :
        x.station \in StationsOf(i) \union {Nowhere}

Routes(row) == {<<p.name, NrOf(Route(row, p))>> : p \in row.products}

(* A duplicated event sends every product to the copy of the station its   *)
(* original goes to, by exception or by category.                          *)
RoutesKept ==
    [][\A r \in running :
         r.action = "duplicate" /\ Len(events') > Len(events) /\ r \notin running'
           => Routes(events'[Len(events')]) = Routes(r.sees[r.payload.source])]_assortmentVars

(* "damit eine ungueltige Vorlage mit einer verstaendlichen deutschen      *)
(* Meldung abgewiesen wird statt mit einem rohen Datenbankfehler".         *)
ImportedGroupsAccepted ==
    \A i \in DOMAIN events : \A p \in events[i].products : DatabaseAccepts(p.groups)
-----------------------------------------------------------------------------
(* Refuted: "Im Ziel bestehen Namenskonflikte bei Kategorien oder          *)
(* Produkten": a copy never adds a row under a name the target has already,*)
(* not even one that a form saved while the copy was under way.            *)
NamesStayDistinct ==
    [][done' # done =>
         \A i \in DOMAIN events, kind \in {"category", "product"} :
            \A p \in RowsOf(i, kind), q \in RowsOf(i, kind)' \ RowsOf(i, kind) :
                p.name # q.name]_assortmentVars

(* Refuted: "Veranstaltung samt Sortiment ... duplizieren": the deposits.  *)
DepositsKept ==
    [][Len(events') > Len(events) =>
         \A r \in running : r.action = "duplicate" /\ r \notin running' =>
            \A c \in r.sees[r.payload.source].categories :
                c \in {[d EXCEPT !.station = c.station] : d \in events'[Len(events')].categories}]_assortmentVars

(* Refuted: an exported file brings the availability of a product back.    *)
AvailabilityImported ==
    [][Len(events') > Len(events) =>
         \A r \in running : r.action = "import" /\ r \notin running' =>
            \A p \in r.payload.file.products :
                \E q \in events'[Len(events')].products :
                    q.nr = p.nr /\ q.available = p.available]_assortmentVars
=============================================================================
