----------------------------- MODULE AssetGraph -----------------------------
(***************************************************************************)
(* AssetService: the master data that other services test, the graph of    *)
(* machines, modules and shared resources, and the owners of an asset.  An *)
(* operation reads and tests first, without locks, and writes later.       *)
(***************************************************************************)
EXTENDS Naturals, FiniteSets, Sequences, SequencesExt, Session

CONSTANTS
  Assets, FirstAssets,   \* EIDs, and those in the master data from the start
  Persons, OwnerLists,   \* names, and the lists of owners an admin may save
  ExternalIds,           \* pairs of a namespace and an external id
  Edits,                 \* the operations that can be under way at once
  MaxEdges,              \* bound: rows of asset_relationship
  NoAsset

ASSUME AssetAssumption ==
  /\ Assets # {} /\ IsFiniteSet(Assets)
  /\ FirstAssets \subseteq Assets /\ NoAsset \notin Assets
  /\ OwnerLists \subseteq Seq(Persons) /\ MaxEdges \in Nat

VARIABLES
  asset,      \* asset[a]: the row of the master data
  edge,       \* asset_relationship in the order of its ids
  owner,      \* owner[a][p]: the position of p among the owners of a, 0 when p is none
  externalId, \* asset_external_id
  edit,       \* edit[e]: the operation under way
  saved,      \* saved[a]: the form that was saved last
  mixed       \* what was written from an overtaken read: "graph", or the asset of a form

assetVars == <<asset, edge, owner, externalId, edit, saved, mixed>>

Types == {"contains_module", "shared_dependency"}
\* "form" stands for the columns of the page of an asset, which it shows in one of two versions.
Versions == {1, 2}
Asset == [there : BOOLEAN, isActive : BOOLEAN, available : BOOLEAN, form : Versions,
          parent : Assets \cup {NoAsset}]
Edge == [from : Assets, to : Assets, type : Types, live : BOOLEAN]
Owners == [Persons -> Nat]

\* An operation under way: the assets and the edge it is about, what it read of them, and
\* whether another one wrote the graph or the owners since.  "form" is 0 when the columns are
\* not touched.
Edit == [pc : {"idle", "link", "unlink", "owners", "flags"}, from : Assets, to : Assets,
         type : Types, edge : Nat, seen : Asset, about : SUBSET Assets, form : Versions \cup {0},
         list : OwnerLists \cup {<<>>}, read : [Assets -> Owners], late : BOOLEAN]
NewAsset == [there |-> TRUE, isActive |-> TRUE, available |-> TRUE, form |-> 1, parent |-> NoAsset]
NoRow == [there |-> FALSE, isActive |-> FALSE, available |-> FALSE, form |-> 1, parent |-> NoAsset]
Nobody == [p \in Persons |-> 0]
NoEdit == [pc |-> "idle", from |-> CHOOSE a \in Assets : TRUE, to |-> CHOOSE a \in Assets : TRUE,
           type |-> "contains_module", edge |-> 0, seen |-> NoRow, about |-> {}, form |-> 0,
           list |-> <<>>, read |-> [a \in Assets |-> Nobody], late |-> FALSE]

\* The operation ends; the others have read what it wrote.
OvertakeEdits(e, others) ==
  [o \in Edits |-> IF o = e THEN NoEdit ELSE [edit[o] EXCEPT !.late = @ \/ o \in others]]
OnGraph == {e \in Edits : edit[e].pc \in {"link", "unlink"} /\ edit[e].type = "contains_module"}
OnOwners(about) == {e \in Edits : edit[e].about \cap about # {}}

-----------------------------------------------------------------------------
LiveEdges(type) == {n \in DOMAIN edge : edge[n].live /\ edge[n].type = type}
ActiveEdges(from, to, type) == {n \in LiveEdges(type) : edge[n].from = from /\ edge[n].to = to}

\* _active_containment_parent
Containers(a) == {edge[n].from : n \in {m \in LiveEdges("contains_module") : edge[m].to = a}}
ContainerOf(a) == IF Containers(a) = {} THEN NoAsset ELSE CHOOSE c \in Containers(a) : TRUE

\* _would_create_cycle: the chain of containers above the machine, as far as it is new.
Above(machine) ==
  LET above[n \in 0..Cardinality(Assets)] ==
        IF n = 0 THEN {machine} ELSE {ContainerOf(a) : a \in above[n - 1]} \ {NoAsset}
  IN  above

\* Faulty variant: one step up, not the whole chain.
WouldCreateLoop(machine, module) == module \in {machine, ContainerOf(machine)}

WouldCreateCycle(machine, module) ==
  \E n \in 0..Cardinality(Assets) : module \in Above(machine)[n]

\* link_containment and link_shared_dependency, up to the first write.
Link(e, from, to, type) ==
  /\ edit[e].pc = "idle"
  /\ from # to /\ asset[from].there /\ asset[to].there
  /\ ActiveEdges(from, to, type) = {}
  /\ type = "contains_module" => ContainerOf(to) \in {NoAsset, from} /\ ~WouldCreateCycle(from, to)
  /\ edit' = [edit EXCEPT ![e] = [NoEdit EXCEPT !.pc = "link", !.from = from, !.to = to,
                                                !.type = type, !.seen = asset[to]]]
  /\ UNCHANGED <<asset, edge, owner, externalId, saved, mixed>>

\* The INSERT, which the partial unique index refuses when the edge is there by now, and the
\* cached parent of the module.
CommitLink(e) ==
  LET k == edit[e]
      graph == k.type = "contains_module"
  IN  /\ k.pc = "link" /\ Len(edge) < MaxEdges
      /\ IF ActiveEdges(k.from, k.to, k.type) # {}
         THEN /\ edit' = [edit EXCEPT ![e] = NoEdit]
              /\ UNCHANGED <<asset, edge, mixed>>
         ELSE /\ edge' = Append(edge, [from |-> k.from, to |-> k.to, type |-> k.type, live |-> TRUE])
              /\ asset' = IF graph
                   THEN [asset EXCEPT ![k.to].parent = Written(k.from, k.seen.parent, @)]
                   ELSE asset
              /\ edit' = IF graph THEN OvertakeEdits(e, OnGraph)
                         ELSE [edit EXCEPT ![e] = NoEdit]
              /\ mixed' = IF graph /\ k.late THEN mixed \cup {"graph"} ELSE mixed
      /\ UNCHANGED <<owner, externalId, saved>>

\* unlink_relationship
Unlink(e, n) ==
  /\ edit[e].pc = "idle" /\ edge[n].live
  /\ edit' = [edit EXCEPT ![e] = [NoEdit EXCEPT !.pc = "unlink", !.edge = n, !.from = edge[n].from,
                !.to = edge[n].to, !.type = edge[n].type, !.seen = asset[edge[n].to]]]
  /\ UNCHANGED <<asset, edge, owner, externalId, saved, mixed>>

\* Faulty variant: the cache keeps the machine.
Unparented(k) == k.seen.parent

\* The cached parent goes with the edge when it names the same machine.
ParentAfter(k) == IF k.seen.parent = k.from THEN NoAsset ELSE k.seen.parent

CommitUnlink(e) ==
  LET k == edit[e]
      graph == k.type = "contains_module"
  IN  /\ k.pc = "unlink"
      /\ edge' = [edge EXCEPT ![k.edge].live = FALSE]
      /\ asset' = IF graph
           THEN [asset EXCEPT ![k.to].parent = Written(ParentAfter(k), k.seen.parent, @)]
           ELSE asset
      /\ edit' = IF graph THEN OvertakeEdits(e, OnGraph)
                 ELSE [edit EXCEPT ![e] = NoEdit]
      /\ mixed' = IF graph /\ k.late THEN mixed \cup {"graph"} ELSE mixed
      /\ UNCHANGED <<owner, externalId, saved>>

\* get_contained_descendants: level by level, each asset once.
Levels(machine) ==
  LET level[n \in 0..Cardinality(Assets)] ==
        IF n = 0 THEN [seen |-> {machine}, frontier |-> {machine}]
        ELSE LET last == level[n - 1]
                 next == {edge[i].to : i \in {j \in LiveEdges("contains_module") :
                                                edge[j].from \in last.frontier}} \ last.seen
             IN  [seen |-> last.seen \cup next, frontier |-> next]
  IN  level
Descendants(machine) == Levels(machine)[Cardinality(Assets)].seen \ {machine}

-----------------------------------------------------------------------------
Positions(list) ==
  [p \in Persons |-> IF p \in Range(list) THEN CHOOSE n \in DOMAIN list : list[n] = p ELSE 0]

EditOwners(e, about, form, list) ==
  /\ edit[e].pc = "idle"
  /\ edit' = [edit EXCEPT ![e] = [NoEdit EXCEPT !.pc = "owners", !.about = about, !.form = form,
                !.list = list, !.read = [a \in Assets |-> IF a \in about THEN owner[a] ELSE Nobody]]]
  /\ UNCHANGED <<asset, edge, owner, externalId, saved, mixed>>

\* set_owners, and set_owner_bulk for several assets, which must all be there.  The rows that
\* are there are read first.
SetOwners(e, about, list) ==
  /\ \A a \in about : asset[a].there
  /\ \E a \in about : Positions(list) # owner[a]
  /\ EditOwners(e, about, 0, list)

\* update_asset, with the owners of the page: the columns are written when they differ from
\* what was read.
UpdateAsset(e, a, form, list) ==
  /\ asset[a].there
  /\ form # asset[a].form \/ Positions(list) # owner[a]
  /\ EditOwners(e, {a}, IF form = asset[a].form THEN 0 ELSE form, list)

\* Faulty variant: names that are no longer listed stay.
AddNames(k, a, p) == IF Positions(k.list)[p] = 0 THEN owner[a][p] ELSE Positions(k.list)[p]

\* _replace_owners: a name is deleted, inserted or moved by what was read.
NewPosition(k, a, p) ==
  IF Positions(k.list)[p] = k.read[a][p] THEN owner[a][p] ELSE Positions(k.list)[p]

\* An INSERT of a name that is there by now, or an UPDATE of one that is gone, fails and takes
\* everything back.
Clashes(k) ==
  \E a \in k.about, p \in Persons :
    /\ Positions(k.list)[p] \notin {0, k.read[a][p]}
    /\ (owner[a][p] = 0) # (k.read[a][p] = 0)

CommitOwners(e) ==
  LET k == edit[e] IN
  /\ k.pc = "owners"
  /\ IF Clashes(k)
     THEN /\ edit' = [edit EXCEPT ![e] = NoEdit]
          /\ UNCHANGED <<asset, owner, saved, mixed>>
     ELSE /\ owner' = [a \in Assets |-> IF a \in k.about
                         THEN [p \in Persons |-> NewPosition(k, a, p)] ELSE owner[a]]
          /\ asset' = [a \in Assets |-> IF a \in k.about /\ k.form # 0
                         THEN [asset[a] EXCEPT !.form = k.form] ELSE asset[a]]
          /\ edit' = OvertakeEdits(e, OnOwners(k.about))
          /\ saved' = [a \in Assets |-> IF a \in k.about
                         THEN [form |-> IF k.form = 0 THEN saved[a].form ELSE k.form, list |-> k.list]
                         ELSE saved[a]]
          /\ mixed' = IF k.late THEN mixed \cup k.about ELSE mixed
  /\ UNCHANGED <<edge, externalId>>

-----------------------------------------------------------------------------
\* create_asset, with its owners in the same transaction.
CreateAsset(a, list) ==
  /\ ~asset[a].there
  /\ asset' = [asset EXCEPT ![a] = NewAsset]
  /\ owner' = [owner EXCEPT ![a] = Positions(list)]
  /\ saved' = [saved EXCEPT ![a].list = list]
  /\ UNCHANGED <<edge, externalId, edit, mixed>>

\* set_asset_active and set_available_for_service: a change of what is loaded.
ReadFlags(e, a) ==
  /\ edit[e].pc = "idle" /\ asset[a].there
  /\ edit' = [edit EXCEPT ![e] = [NoEdit EXCEPT !.pc = "flags", !.to = a, !.seen = asset[a]]]
  /\ UNCHANGED <<asset, edge, owner, externalId, saved, mixed>>

\* Faulty variant: the row is written as it was read, with the flag changed.
RowAsRead(k) == k.seen

\* Only the column that changed is written: the rest of the row is what is stored.
RowAsStored(k) == asset[k.to]

WriteFlags(e) ==
  LET k == edit[e] IN
  /\ k.pc = "flags"
  /\ \/ asset' = [asset EXCEPT ![k.to] = [RowAsStored(k) EXCEPT !.isActive = ~k.seen.isActive]]
     \/ asset' = [asset EXCEPT ![k.to] = [RowAsStored(k) EXCEPT !.available = ~k.seen.available]]
  /\ edit' = [edit EXCEPT ![e] = NoEdit]
  /\ UNCHANGED <<edge, owner, externalId, saved, mixed>>

\* register_external_id moves an id that another asset had.
RegisterExternalId(a, x) ==
  /\ asset[a].there
  /\ externalId' = [externalId EXCEPT ![x] = a]
  /\ UNCHANGED <<asset, edge, owner, edit, saved, mixed>>

AssetInit ==
  /\ asset = [a \in Assets |-> IF a \in FirstAssets THEN NewAsset ELSE NoRow]
  /\ edge = <<>> /\ owner = [a \in Assets |-> Nobody]
  /\ externalId = [x \in ExternalIds |-> NoAsset]
  /\ edit = [e \in Edits |-> NoEdit]
  /\ saved = [a \in Assets |-> [form |-> 1, list |-> <<>>]] /\ mixed = {}

GraphNext ==
  \E e \in Edits :
    \/ \E from, to \in Assets, type \in Types : Link(e, from, to, type)
    \/ \E n \in DOMAIN edge : Unlink(e, n)
    \/ CommitLink(e) \/ CommitUnlink(e)

MasterNext ==
  \/ \E e \in Edits :
       \/ \E a \in Assets : ReadFlags(e, a)
       \/ \E list \in OwnerLists :
            \/ \E about \in SUBSET Assets : SetOwners(e, about, list)
            \/ \E a \in Assets, form \in Versions : UpdateAsset(e, a, form, list)
       \/ CommitOwners(e) \/ WriteFlags(e)
  \/ \E a \in Assets : \/ \E list \in OwnerLists : CreateAsset(a, list)
                       \/ \E x \in ExternalIds : RegisterExternalId(a, x)

AssetSpec == AssetInit /\ [][GraphNext \/ MasterNext]_assetVars

-----------------------------------------------------------------------------
AssetTypeOK ==
  /\ asset \in [Assets -> Asset] /\ edge \in Seq(Edge)
  /\ owner \in [Assets -> Owners] /\ externalId \in [ExternalIds -> Assets \cup {NoAsset}]
  /\ edit \in [Edits -> Edit]

Modules(a) == {edge[n].to : n \in {m \in LiveEdges("contains_module") : edge[m].from = a}}
Closed(s) == \A a \in s : Modules(a) \subseteq s

\* All that is below an asset: what every closed set with its modules has.
Below(a) ==
  {b \in Assets : \A s \in SUBSET Assets : Closed(s) /\ Modules(a) \subseteq s => b \in s}

\* "strictly a tree without cycles", and parent_asset_id is a cache of it: links and unlinks
\* that do not overlap keep both.
TreeWithCache ==
  "graph" \notin mixed =>
    \A a \in Assets : a \notin Below(a) /\ Containers(a) = {asset[a].parent} \ {NoAsset}

\* get_contained_descendants: all that is below a machine, though overlapping links have closed
\* a cycle or given a module two machines.
DescendantsAreAll == \A a \in Assets : Descendants(a) = Below(a) \ {a}

\* The page of an asset is saved whole, columns and owners, a list of owners for several assets
\* is saved for all of them, and flags and links that are written meanwhile leave it so, unless
\* another list was saved after this one had read the old: then both may be there.
FormsAreWhole ==
  \A a \in Assets : a \notin mixed =>
    asset[a].form = saved[a].form /\ owner[a] = Positions(saved[a].list)

\* The containment of machines is a forest with a true cache of the machine above, all that
\* is below a machine is found even when it is not, and what was saved of an asset is there.
AssetsAreSound == AssetTypeOK /\ TreeWithCache /\ DescendantsAreAll /\ FormsAreWhole

=============================================================================
