------------------------------ MODULE Imports ------------------------------
(***************************************************************************)
(* The loaders of the legacy files (the loader and transform modules of    *)
(* the domains, run from the command line).  Each parses its whole file,   *)
(* then writes it in one transaction: a row that does not parse, or that   *)
(* the database rejects, leaves nothing behind.  Pictures and order        *)
(* quantities are written one by one instead, and may stop anywhere.       *)
(* Files are loaded again and again, in any order, while the rows are also *)
(* edited through the application.                                         *)
(***************************************************************************)
EXTENDS Integers, SequencesExt
LOCAL INSTANCE WorkOrderStatus

CONSTANTS
  Batches,         \* the sets of files an operator may have at hand: kind, rows
  PersonAliases,   \* a contact id of PERSON_ALIASES, and the one it stands for
  SeedOrgs, CuratedSkip, Persons,
  NewSchedules,    \* the schedules made in the application: pm, asset, task
  MaxEdits,        \* bound: edits through the application
  Blank

FileKinds == {"assets", "relations", "tasks", "schedules", "orders", "references", "items", "issues",
              "contacts", "vocabulary", "media", "order quantities"}

\* The files are those of their command, and quantities are counted in thousandths: the columns
\* have three decimals.
ASSUME ImportAssumption ==
  /\ MaxEdits \in Nat
  /\ \A a \in DOMAIN PersonAliases : PersonAliases[a] \notin DOMAIN PersonAliases
  /\ \A f \in UNION Batches :
       /\ DOMAIN f = {"kind", "rows"}
       /\ f.kind \in FileKinds /\ f.rows \in Seq(ToSet(f.rows))
       /\ f.kind = "issues" => \A i \in DOMAIN f.rows : f.rows[i].quantity \in Int

VARIABLES
  db,      \* the tables the loaders write
  batch,   \* the files at hand
  loaded,  \* those loaded in full
  since,   \* what was done to the rows apart from the files     (a record)
  edits

importVars == <<db, batch, loaded, since, edits>>

NoRows == <<>>   \* a function with an empty domain: a table without rows

Tables == [assets |-> NoRows, edges |-> {}, tasks |-> NoRows, schedules |-> NoRows,
           orders |-> NoRows, people |-> NoRows, links |-> NoRows, items |-> NoRows, kits |-> {},
           reorder |-> NoRows, issues |-> NoRows, parts |-> NoRows, photos |-> NoRows,
           orgs |-> NoRows, persons |-> NoRows, aliases |-> NoRows, codes |-> NoRows]

Column(rows, c) == [i \in DOMAIN rows |-> rows[i][c]]
Columns(rows, cs) == [i \in DOMAIN rows |-> [c \in cs |-> rows[i][c]]]

\* The rows of new, and those of old at other keys.
Onto(new, old) ==
  [k \in DOMAIN new \cup DOMAIN old |-> IF k \in DOMAIN new THEN new[k] ELSE old[k]]

\* A loader that passes rows over restricts them to the others, at their places in the file.
Latest(places) == CHOOSE i \in places : \A j \in places : j <= i

\* INSERT ... ON CONFLICT DO UPDATE, row by row: the last row of a key stays.
Upserted(table, keys, values) ==
  Onto([k \in Range(keys) |-> values[Latest({i \in DOMAIN keys : keys[i] = k})]], table)

\* A column the file does not have keeps its value.
StillActive(table, key) == key \in DOMAIN table => table[key].active

-----------------------------------------------------------------------------
(***************************************************************************)
(* Assets and their relations.                                             *)
(***************************************************************************)
\* Faulty variant: a reload makes every asset active.
LoadAssetsActive(d, rows) ==
  [d EXCEPT !.assets = Upserted(@, Column(rows, "asset"),
                [i \in DOMAIN rows |-> [line |-> rows[i].line, active |-> TRUE]])]

LoadAssets(d, rows) ==
  [d EXCEPT !.assets = Upserted(@, Column(rows, "asset"),
     [i \in DOMAIN rows |-> [line |-> rows[i].line, active |-> StillActive(@, rows[i].asset)]])]

\* classify_dependent_equipment: a child of several parents is a resource they share.
Classified(rows) ==
  LET usable == Restrict(rows, {i \in DOMAIN rows : rows[i].parent \notin {Blank, rows[i].child}
                                                 /\ rows[i].child # Blank})
      parents(c) == {usable[i].parent : i \in {j \in DOMAIN usable : usable[j].child = c}}
      relation(r) == IF Cardinality(parents(r.child)) >= 2
                     THEN [type |-> "shared_dependency", from |-> r.child, to |-> r.parent]
                     ELSE [type |-> "contains_module", from |-> r.parent, to |-> r.child]
  IN  [i \in DOMAIN usable |-> relation(usable[i])]

Contained(edges) == {e \in edges : e.type = "contains_module"}
ContainersIn(edges, a) == {e.from : e \in {c \in Contained(edges) : c.to = a}}

\* The asset and the chain of its containers.
ChainIn(edges, a) ==
  LET up[n \in 0..Cardinality(edges)] ==
        IF n = 0 THEN {a} ELSE up[n-1] \cup UNION {ContainersIn(edges, b) : b \in up[n-1]}
  IN  up[Cardinality(edges)]

Curated(e) == {e.from, e.to} \cap CuratedSkip # {}
UnknownEnd(d, e) == ~({e.from, e.to} \subseteq DOMAIN d.assets)
\* Faulty variant: only a direct exchange of container and module is seen.
GuardedOneUp(edges, e) ==
  /\ e.type = "contains_module"
  /\ ContainersIn(edges, e.to) \ {e.from} # {} \/ e.to \in ContainersIn(edges, e.from)

Guarded(edges, e) ==
  /\ e.type = "contains_module"
  /\ ContainersIn(edges, e.to) \ {e.from} # {} \/ e.to \in ChainIn(edges, e.from)

\* One relation bound; one that comes twice is there already, or refused again.
Bound(d, edges, e) ==
  IF e \in edges \/ Curated(e) \/ UnknownEnd(d, e) \/ Guarded(edges, e) THEN edges ELSE edges \cup {e}

LoadRelations(d, rows) ==
  LET relations == Classified(rows)
      after[n \in 0..Len(rows)] ==
        IF n = 0 THEN d.edges
        ELSE IF n \notin DOMAIN relations THEN after[n-1] ELSE Bound(d, after[n-1], relations[n])
  IN  [d EXCEPT !.edges = after[Len(rows)]]

-----------------------------------------------------------------------------
(***************************************************************************)
(* Tasks and their schedules.                                              *)
(***************************************************************************)
LoadTasks(d, rows) ==
  [d EXCEPT !.tasks = Upserted(@, Column(rows, "task"),
     [i \in DOMAIN rows |-> [text |-> rows[i].text, active |-> StillActive(@, rows[i].task)]])]

ScheduleUpserts(table, rows) ==
  Upserted(table, Column(rows, "pm"), Columns(rows, {"asset", "task"}))

\* An asset and a task have one schedule: checked at every row.
OneSchedulePerPair(table, rows) ==
  \A i \in DOMAIN rows : LET t == ScheduleUpserts(table, Restrict(rows, 1..i)) IN
    \A p \in DOMAIN t \ {rows[i].pm} : t[p] # t[rows[i].pm]

\* Faulty variant: a task is never made active again.
SyncIdle(tasks, referenced) ==
  IF referenced = {} THEN tasks
  ELSE [t \in DOMAIN tasks |-> [tasks[t] EXCEPT !.active = @ /\ t \in referenced]]

\* sync_active_status, from the rows of this file.
SyncActive(tasks, referenced) ==
  IF referenced = {} THEN tasks
  ELSE [t \in DOMAIN tasks |-> [tasks[t] EXCEPT !.active = t \in referenced]]

LoadSchedules(d, rows) ==
  [d EXCEPT !.schedules = ScheduleUpserts(@, rows),
            !.tasks = SyncActive(@, {rows[i].task : i \in DOMAIN rows})]

-----------------------------------------------------------------------------
(***************************************************************************)
(* Work orders, items and the parts issued in the past.                    *)
(***************************************************************************)
StatusMap(legacy) == IF legacy = "O" THEN "OPEN" ELSE "CLOSED"

KeptOrders(rows) == Restrict(rows, {i \in DOMAIN rows : ~rows[i].miscreated})

Assignees(people, n) == IF n \in DOMAIN people THEN people[n] ELSE <<>>
Naming(rows, n) == {i \in DOMAIN rows : rows[i].no = n /\ rows[i].person # Blank}

\* Faulty variant: the name is added to the assignees there are.
AssignedToo(people, rows) ==
  [n \in DOMAIN people \cup Range(Column(rows, "no")) |->
     LET named == {rows[i].person : i \in Naming(rows, n)} \ ToSet(Assignees(people, n)) IN
     Assignees(people, n) \o SetToSeq(named)]

\* The assignees are replaced only by a row that names somebody.
Assigned(people, rows) ==
  [n \in DOMAIN people \cup Range(Column(rows, "no")) |->
     IF Naming(rows, n) = {} THEN Assignees(people, n) ELSE <<rows[Latest(Naming(rows, n))].person>>]

LoadOrders(d, rows) ==
  LET kept == KeptOrders(rows) IN
  [d EXCEPT !.orders = Upserted(@, Column(kept, "no"), [i \in DOMAIN kept |->
              [asset |-> kept[i].asset, status |-> StatusMap(kept[i].status),
               person |-> kept[i].person, ref |-> kept[i].ref]]),
            !.people = Assigned(@, kept)]

References(d) == {<<n, d.orders[n].ref>> : n \in {m \in DOMAIN d.orders : d.orders[m].ref # Blank}}

\* Faulty variant: only the links of the moment count.
LinkReferencesAgain(d) == [d EXCEPT !.links = Onto([k \in References(d) |-> TRUE], @)]

\* backfill_legacy_mrq_links: the issue an order names is linked, unless it ever was.
LinkReferences(d) == [d EXCEPT !.links = Onto(@, [k \in References(d) |-> TRUE])]

\* repair_malformed_line: a torn line comes back, or is skipped.
Readable(rows) == Restrict(rows, {i \in DOMAIN rows : rows[i].line # "lost"})

LoadItems(d, rows) ==
  LET read == Readable(rows)
      codes == {read[i].item : i \in DOMAIN read}
      pairs == UNION {{read[i].item} \X read[i].children : i \in DOMAIN read}
  IN  [d EXCEPT !.items = Upserted(@, Column(read, "item"), Column(read, "onHand")),
                !.kits = @ \cup {p \in pairs : p[2] \in codes /\ p[1] # p[2]}]

GoodRows(rows) == Restrict(rows, {i \in DOMAIN rows : rows[i].good})

\* Faulty variant: the rows of one order and item are one.
PlainKey(rows, i) == <<rows[i].wo, rows[i].item, 1>>

\* make_idempotency_key: the n-th row of this order and item.
OccurrenceKey(rows, i) ==
  <<rows[i].wo, rows[i].item,
    Cardinality({j \in DOMAIN rows : j <= i /\ rows[j].wo = rows[i].wo
                                      /\ rows[j].item = rows[i].item})>>

\* A row whose order is unknown is charged to its asset.
ChargedTo(d, r) ==
  IF r.item \notin DOMAIN d.items THEN Blank
  ELSE IF r.wo \in DOMAIN d.orders THEN r.wo
  ELSE IF r.asset \in DOMAIN d.assets THEN r.asset ELSE Blank

\* Faulty variant: the quantity on hand moves too.
BackfillAndMove(d, key, r) ==
  IF ChargedTo(d, r) = Blank \/ key \in DOMAIN d.issues THEN d
  ELSE [d EXCEPT !.issues = Onto([k \in {key} |-> [to |-> ChargedTo(d, r), quantity |-> r.quantity]], @),
                 !.items[r.item] = @ - r.quantity]

\* backfill_part_issue: never moves the quantity on hand.
BackfillIssue(d, key, r) ==
  LET to == ChargedTo(d, r)
      part == <<r.wo, r.item>>
      had == IF part \in DOMAIN d.parts THEN d.parts[part] ELSE 0
  IN  IF to = Blank \/ key \in DOMAIN d.issues THEN d
      ELSE [d EXCEPT !.issues = Onto([k \in {key} |-> [to |-> to, quantity |-> r.quantity]], @),
                     !.parts = IF to = r.wo THEN Onto([p \in {part} |-> had + r.quantity], @) ELSE @]

LoadIssues(d, rows) ==
  LET good == GoodRows(rows)
      after[n \in 0..Len(rows)] ==
        IF n = 0 THEN d
        ELSE IF n \notin DOMAIN good THEN after[n-1]
        ELSE BackfillIssue(after[n-1], OccurrenceKey(good, n), good[n])
  IN  after[Len(rows)]

-----------------------------------------------------------------------------
(***************************************************************************)
(* Contacts and the failure vocabulary.                                    *)
(***************************************************************************)
ContactIds(rows) == {rows[i].contact : i \in DOMAIN rows}

\* An alias is one only where the contact it stands for is in the file too.
EffectiveAliases(rows) == {a \in DOMAIN PersonAliases : PersonAliases[a] \in ContactIds(rows)}

LoadContacts(d, rows) ==
  LET companies == {rows[i].org : i \in DOMAIN rows}
      aliases == EffectiveAliases(rows)
      own == Restrict(rows, {i \in DOMAIN rows : rows[i].contact \notin aliases})
  IN  [d EXCEPT
         !.orgs = Onto([o \in companies \cup SeedOrgs |-> o \in companies], @),
         !.persons = Upserted(@, Column(own, "contact"), Column(own, "org")),
         !.aliases = Onto(@, [a \in aliases |-> PersonAliases[a]])]

\* resolve_person
ResolvesTo(d, c) == IF c \in DOMAIN d.persons \/ c \notin DOMAIN d.aliases THEN c ELSE d.aliases[c]

Labelled(rows) == Restrict(rows, {i \in DOMAIN rows : rows[i].label # Blank})

LoadVocabulary(d, rows) ==
  LET named == Labelled(rows) IN
  [d EXCEPT !.codes = Upserted(@, Column(named, "label"),
     [i \in DOMAIN named |-> [text |-> named[i].text, active |-> StillActive(@, named[i].label)]])]

-----------------------------------------------------------------------------
(***************************************************************************)
(* The files written row by row.                                           *)
(***************************************************************************)
\* Pictures of an unknown item are counted and passed over; one seen before stays as it is.
LoadMedia(d, rows) ==
  [d EXCEPT !.photos = Onto(@, [p \in {<<rows[i].item, rows[i].photo>> : i \in {j \in DOMAIN rows :
                                         rows[j].item \in DOMAIN d.items}} |-> TRUE])]

\* A quantity that is no number ends the command; what came before it stays.
LoadOrderQuantities(d, rows) ==
  LET known == Restrict(rows, {i \in DOMAIN rows : rows[i].item \in DOMAIN d.items /\ \A j \in 1..i : rows[j].good})
  IN  [d EXCEPT !.reorder = Upserted(@, Column(known, "item"), Column(known, "quantity"))]

RowByRow == {"media", "order quantities"}

-----------------------------------------------------------------------------
\* Whether the file passes the parser and the constraints of the database.
Admitted(d, f) ==
  LET rows == f.rows
      all(seq) == \A i \in DOMAIN seq : seq[i].good
  IN CASE f.kind = "schedules" ->
            /\ all(rows) /\ OneSchedulePerPair(d.schedules, rows)
            /\ \A i \in DOMAIN rows : /\ rows[i].asset \in DOMAIN d.assets
                                      /\ rows[i].task \in DOMAIN d.tasks
       [] f.kind = "orders" ->
            LET kept == KeptOrders(rows) IN
            all(kept) /\ \A i \in DOMAIN kept : kept[i].asset \in DOMAIN d.assets
       [] f.kind = "items" -> all(Readable(rows))
       [] f.kind = "contacts" ->
            /\ all(rows)
            /\ LET after == LoadContacts(d, rows) IN
               \A a \in DOMAIN after.aliases : after.aliases[a] \in DOMAIN after.persons
       [] f.kind = "vocabulary" ->
            /\ all(Labelled(rows))
            /\ LET labelled == Labelled(rows) IN
               \A i, j \in DOMAIN labelled : labelled[i].label = labelled[j].label => i = j
       [] f.kind \in {"relations", "issues"} \cup RowByRow -> TRUE
       [] OTHER -> all(rows)

Merged(d, f) ==
  CASE f.kind = "assets"     -> LoadAssets(d, f.rows)
    [] f.kind = "relations"  -> LoadRelations(d, f.rows)
    [] f.kind = "tasks"      -> LoadTasks(d, f.rows)
    [] f.kind = "schedules"  -> LoadSchedules(d, f.rows)
    [] f.kind = "orders"     -> LoadOrders(d, f.rows)
    [] f.kind = "references" -> LinkReferences(d)
    [] f.kind = "items"      -> LoadItems(d, f.rows)
    [] f.kind = "issues"     -> LoadIssues(d, f.rows)
    [] f.kind = "contacts"   -> LoadContacts(d, f.rows)
    [] f.kind = "vocabulary" -> LoadVocabulary(d, f.rows)
    [] f.kind = "media"      -> LoadMedia(d, f.rows)
    [] f.kind = "order quantities" -> LoadOrderQuantities(d, f.rows)

Load(d, f) == IF Admitted(d, f) THEN Merged(d, f) ELSE d

-----------------------------------------------------------------------------
Scheduled(f) == {f.rows[i].pm : i \in DOMAIN f.rows}

\* The orders whose last row in a file names nobody.
BlankedAfter(blanked, kept) ==
  LET last(n) == kept[Latest({i \in DOMAIN kept : kept[i].no = n})].person
      known == {kept[i].no : i \in DOMAIN kept}
  IN  (blanked \ known) \cup {n \in known : last(n) = Blank}

\* What the file undoes of what was done since, or does to it.
Remember(f) ==
  [since EXCEPT
     !.blanked = IF f.kind # "orders" THEN @ ELSE BlankedAfter(@, KeptOrders(f.rows)),
     !.alone = IF f.kind # "contacts" THEN @
               ELSE @ \cup (ContactIds(f.rows) \ EffectiveAliases(f.rows)),
     !.byHand = IF f.kind = "schedules" /\ f.rows # <<>> THEN {} ELSE @,
     !.unlisted = IF f.kind = "schedules" /\ f.rows # <<>>
                  THEN DOMAIN db'.schedules \ Scheduled(f) ELSE @]

LoadFile(f) ==
  /\ f \in batch
  /\ db' = Load(db, f)
  /\ since' = IF Admitted(db, f) THEN Remember(f) ELSE since
  /\ loaded' = IF Admitted(db, f) THEN loaded \cup {f} ELSE loaded
  /\ UNCHANGED <<batch, edits>>

Interrupt(f) ==
  /\ f \in batch /\ f.kind \in RowByRow
  /\ \E n \in 1..Len(f.rows) - 1 : db' = Load(db, [f EXCEPT !.rows = Restrict(@, 1..n)])
  /\ UNCHANGED <<batch, loaded, since, edits>>

-----------------------------------------------------------------------------
(***************************************************************************)
(* Meanwhile, in the application.                                          *)
(***************************************************************************)
EditRow == edits < MaxEdits /\ edits' = edits + 1 /\ UNCHANGED <<batch, loaded>>

RetireAsset(a) ==
  /\ EditRow /\ a \in DOMAIN db.assets
  /\ db' = [db EXCEPT !.assets[a].active = FALSE]
  /\ since' = [since EXCEPT !.gone = @ \cup {a}]

UnlinkEdge(e) ==
  /\ EditRow /\ e \in db.edges
  /\ db' = [db EXCEPT !.edges = @ \ {e}]
  /\ UNCHANGED since

SetTaskActive(t, active) ==
  /\ EditRow /\ t \in DOMAIN db.tasks
  /\ db' = [db EXCEPT !.tasks[t].active = active]
  /\ since' = [since EXCEPT !.byHand = @ \cup {t}]

AddSchedule(s) ==
  /\ EditRow /\ s.asset \in DOMAIN db.assets /\ s.task \in DOMAIN db.tasks
  /\ \A p \in DOMAIN db.schedules : db.schedules[p] # [asset |-> s.asset, task |-> s.task]
  /\ db' = [db EXCEPT !.schedules = ScheduleUpserts(@, <<s>>)]
  /\ since' = [since EXCEPT !.unlisted = @ \cup {s.pm}]

\* set_assignees
AssignOrder(n, names) ==
  /\ EditRow /\ n \in DOMAIN db.orders /\ db.orders[n].status \notin Terminal
  /\ db' = [db EXCEPT !.people[n] = names,
                      !.orders[n].person = IF names = <<>> THEN Blank ELSE names[1]]
  /\ since' = [since EXCEPT !.blanked = @ \ {n}]

RemoveLink(k) ==
  /\ EditRow /\ k \in DOMAIN db.links
  /\ db' = [db EXCEPT !.links[k] = FALSE]
  /\ since' = [since EXCEPT !.unlinked = @ \cup {k}]

DeletePhoto(p) ==
  /\ EditRow /\ p \in DOMAIN db.photos
  /\ db' = [db EXCEPT !.photos[p] = FALSE]
  /\ since' = [since EXCEPT !.deleted = @ \cup {p}]

SetOrgActive(o, active) ==
  /\ EditRow /\ o \in DOMAIN db.orgs
  /\ db' = [db EXCEPT !.orgs[o] = active]
  /\ UNCHANGED since

-----------------------------------------------------------------------------
ImportInit ==
  /\ batch \in Batches
  /\ db = Tables /\ loaded = {} /\ edits = 0
  /\ since = [gone |-> {}, unlinked |-> {}, deleted |-> {}, blanked |-> {}, alone |-> {}, byHand |-> {}, unlisted |-> {}]

ImportNext ==
  \/ \E f \in batch : LoadFile(f) \/ Interrupt(f)
  \/ \E a \in DOMAIN db.assets : RetireAsset(a)
  \/ \E e \in db.edges : UnlinkEdge(e)
  \/ \E t \in DOMAIN db.tasks, active \in BOOLEAN : SetTaskActive(t, active)
  \/ \E s \in NewSchedules : AddSchedule(s)
  \/ \E n \in DOMAIN db.orders, names \in {<<>>} \cup {<<p>> : p \in Persons} :
       AssignOrder(n, names)
  \/ \E k \in DOMAIN db.links : RemoveLink(k)
  \/ \E p \in DOMAIN db.photos : DeletePhoto(p)
  \/ \E o \in DOMAIN db.orgs, active \in BOOLEAN : SetOrgActive(o, active)

ImportSpec == ImportInit /\ [][ImportNext]_importVars

-----------------------------------------------------------------------------
\* Every row refers to rows that are there.
ReferencesHold ==
  /\ DOMAIN db \in {DOMAIN Tables} /\ loaded \subseteq batch /\ edits \in 0..MaxEdits
  /\ \A e \in db.edges : ~UnknownEnd(db, e)
  /\ \A s \in DOMAIN db.schedules : /\ db.schedules[s].asset \in DOMAIN db.assets
                                    /\ db.schedules[s].task \in DOMAIN db.tasks
  /\ \A n \in DOMAIN db.orders : db.orders[n].asset \in DOMAIN db.assets
  /\ DOMAIN db.people = DOMAIN db.orders
  /\ \A k \in db.kits : {k[1], k[2]} \subseteq DOMAIN db.items
  /\ \A a \in DOMAIN db.aliases : db.aliases[a] \in DOMAIN db.persons

\* "idempotent", every loader says: a file loaded twice in a row is loaded once.
ReloadIsIdle ==
  \A f \in batch : LET once == Load(db, f) IN Load(once, f) = once

\* load_relationships: each relation of the file is bound, or an end of it is curated or
\* unknown, or binding it would break the tree; and the tree is one.
EdgesAreAccounted ==
  \A f \in {g \in batch : g.kind = "relations"} : LET after == Load(db, f) IN
    /\ \A i \in DOMAIN Classified(f.rows) : LET e == Classified(f.rows)[i] IN
         e \in after.edges \/ Curated(e) \/ UnknownEnd(db, e) \/ Guarded(after.edges, e)
    /\ \A e \in Contained(after.edges) :
         ContainersIn(after.edges, e.to) = {e.from} /\ e.to \notin ChainIn(after.edges, e.from)

\* What was retired or removed through the application stays so when a file is loaded again.
GoneStaysGone ==
  /\ \A a \in DOMAIN db.assets : db.assets[a].active = (a \notin since.gone)
  /\ \A k \in DOMAIN db.links : db.links[k] = (k \notin since.unlinked)
  /\ \A p \in DOMAIN db.photos : db.photos[p] = (p \notin since.deleted)

\* A task is idle only if no schedule of the last file uses it, or somebody said so.
IdleTasksAreUnlisted ==
  \A s \in DOMAIN db.schedules : LET t == db.schedules[s].task IN
    ~db.tasks[t].active => t \in since.byHand \/ s \in since.unlisted

\* assigned_person is the first of work_order_assignee, whichever of the loader and the
\* application wrote last; but for an order whose last row in a file names nobody.
AssigneesAgree ==
  \A n \in DOMAIN db.orders \ since.blanked :
    db.orders[n].person = IF db.people[n] = <<>> THEN Blank ELSE db.people[n][1]

\* load_part_issues: every row that has an item and somewhere to go is booked, once, however
\* often and in whatever order the files come; the quantity on hand stays, and the parts of an
\* order are what is booked on it.
HistoryIsBookedOnce ==
  \A f \in {g \in batch : g.kind = "issues"} :
    LET after == Load(db, f)
        rowsOf(g, w, i) == {j \in DOMAIN GoodRows(g.rows) : g.rows[j].wo = w /\ g.rows[j].item = i}
        booked(w, i) == {k \in DOMAIN after.issues : k[1] = w /\ k[2] = i}
    IN  /\ after.items = db.items
        /\ \A j \in DOMAIN GoodRows(f.rows) : LET w == f.rows[j].wo  i == f.rows[j].item IN
             Cardinality({n \in rowsOf(f, w, i) : ChargedTo(db, f.rows[n]) # Blank})
               <= Cardinality(booked(w, i))
        /\ \A k \in DOMAIN after.issues : \E g \in {h \in batch : h.kind = "issues"} :
             Cardinality(booked(k[1], k[2])) <= Cardinality(rowsOf(g, k[1], k[2]))
        /\ \A p \in DOMAIN after.parts :
             after.parts[p] = MapThenSumSet(LAMBDA k : Column(after.issues, "quantity")[k],
                                {k \in booked(p[1], p[2]) : after.issues[k].to = p[1]})

\* Every contact of a loaded file leads to a person, and an alias to the one it stands for;
\* but for an alias that a file once held without that one.
ContactsResolve ==
  \A f \in {g \in loaded : g.kind = "contacts"} : \A c \in ContactIds(f.rows) :
    /\ ResolvesTo(db, c) \in DOMAIN db.persons
    /\ c \in EffectiveAliases(f.rows) \ since.alone => ResolvesTo(db, c) = PersonAliases[c]

\* Whatever files are loaded in whatever order, and edited meanwhile: a second load changes
\* nothing, references hold, and what was removed, assigned or booked stays so.
MasterDataIsSound ==
  /\ ReferencesHold
  /\ ReloadIsIdle
  /\ EdgesAreAccounted
  /\ GoneStaysGone
  /\ IdleTasksAreUnlisted
  /\ AssigneesAgree
  /\ HistoryIsBookedOnce
  /\ ContactsResolve
=============================================================================
