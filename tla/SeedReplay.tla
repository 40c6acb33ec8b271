----------------------------- MODULE SeedReplay -----------------------------
(***************************************************************************)
(* SeedReplayService (domain/seed): a ledger of events is replayed through *)
(* the domain services, one event after another, each in a transaction     *)
(* that also moves seed_world.last_seq.  A pre-checker (Replayer) plans    *)
(* each event from what it has seen succeed.  The process may die between  *)
(* any two transactions; the next run takes up after last_seq, with a      *)
(* pre-checker fed again with the events already consumed.                 *)
(***************************************************************************)
EXTENDS Integers, FiniteSets, SequencesExt
LOCAL INSTANCE WorkOrderStatus

CONSTANTS
  Machines, SeedItems, SeedOrders,
  Ledgers,         \* what the generator may hand over of a world: fingerprint of the manifest, lines
  Others,          \* what it makes of the world once it has changed: another fingerprint
  CutOffs,         \* the times given as --until
  OnHandSeed,      \* the quantity every item begins with
  MaxCrashes,      \* bound: how often the process dies
  Nil

\* A line of a ledger; what a torn line would say is never read.
Line == {l \in [good : BOOLEAN, seq : Nat \ {0}, at : Nat, kind : STRING, role : STRING,
                asset : Machines, parent : Machines \cup {Nil}, area : BOOLEAN,
                item : SeedItems \cup {Nil}, wo : SeedOrders \cup {Nil},
                from : STRING, to : STRING] :
           /\ l.kind = "item" => l.item \in SeedItems
           /\ l.kind = "open" => l.wo \in SeedOrders}

\* The fingerprint names the world, its first day and the generator, and by that the lines, but
\* not how many days of them have been exposed.
ASSUME SeedAssumption ==
  /\ OnHandSeed \in Nat /\ CutOffs \subseteq Nat /\ MaxCrashes \in Nat
  /\ Nil \notin Machines
  /\ \A l \in Ledgers \cup Others : l.print # Nil /\ l.lines \in Seq(Line)
  /\ \A k, l \in Ledgers \cup Others : k.print = l.print =>
       IsPrefix(k.lines, l.lines) \/ IsPrefix(l.lines, k.lines)
  /\ \A k \in Others, l \in Ledgers \cup Others : k.print = l.print => k.lines = l.lines

VARIABLES
  eventLog,        \* the directory the runs are pointed at
  shop,            \* the business rows: assets, containment, quantities, work orders
  posted,          \* the events whose issue of a part is in the stock ledger, by key
  world,           \* the row of seed_world: fingerprint, last_seq, applied_until
  replay,          \* the running process, its pre-checker included
  refused,         \* the events a domain service has refused                  (a record)
  torn,            \* the events whose two transactions a crash has parted     (a record)
  crashes

seedVars == <<eventLog, shop, posted, world, replay, refused, torn, crashes>>

-----------------------------------------------------------------------------
(***************************************************************************)
(* The reader: a line that is not an event, or not in order, is dropped.   *)
(***************************************************************************)
Keep(kept, l) ==
  IF /\ l.good
     /\ kept # <<>> => l.seq > Last(kept).seq /\ l.at >= Last(kept).at
  THEN Append(kept, l) ELSE kept

Kept(lines) ==
  LET kept[n \in 0..Len(lines)] == IF n = 0 THEN <<>> ELSE Keep(kept[n - 1], lines[n])
  IN  kept

ReadLedger(lines) == Kept(lines)[Len(lines)]

\* The events are in order of seq and of time: those after one seq and up to one time are a
\* stretch of them, from behind the last consumed to the last that is due.
Consumed(events, after) ==
  CHOOSE k \in 0..Len(events) : \A n \in 1..Len(events) : n <= k <=> events[n].seq <= after
Due(events, until) ==
  CHOOSE k \in 0..Len(events) : \A n \in 1..Len(events) : n <= k <=> events[n].at <= until

-----------------------------------------------------------------------------
(***************************************************************************)
(* The pre-checker: the masters and work orders it has seen made, and the  *)
(* links of the assets defined last.                                       *)
(***************************************************************************)
Fresh == [assets |-> {}, items |-> {}, wos |-> <<>>, links |-> <<>>]

Known(p, e) == e.wo \in DOMAIN p.wos /\ p.wos[e.wo].asset = e.asset

\* Which events the pre-checker sends to a domain service.
Planned(p, e) ==
  \/ e.kind = "define" /\ e.asset \notin p.assets /\ e.area
  \/ e.kind = "item"   /\ e.item \notin p.items
  \/ e.kind = "open"   /\ e.wo \notin DOMAIN p.wos /\ e.asset \in p.assets
  \/ e.kind = "status" /\ Known(p, e) /\ p.wos[e.wo].status = e.from /\ e.to # "OPEN"
  \/ e.kind = "part"   /\ Known(p, e) /\ e.item \in p.items

Put(rows, key, row) == [k \in DOMAIN rows \cup {key} |-> IF k = key THEN row ELSE rows[k]]

\* A work order can be cancelled from OPEN only; from elsewhere it is voided.
Target(e) == IF e.to = "CANCELLED" /\ e.from # "OPEN" THEN "VOIDED" ELSE e.to

Confirm(p, e) ==
  CASE e.kind = "define" ->
         [p EXCEPT !.assets = @ \cup {e.asset},
                   !.links = IF e.parent = Nil THEN @ ELSE Append(@, <<e.parent, e.asset>>)]
    [] e.kind = "item"   -> [p EXCEPT !.items = @ \cup {e.item}]
    [] e.kind = "open"   -> [p EXCEPT !.wos = Put(@, e.wo, [status |-> "OPEN", asset |-> e.asset])]
    [] e.kind = "status" -> [p EXCEPT !.wos[e.wo].status = Target(e)]
    [] OTHER             -> p

\* The links wait until an event that is not a definition.
Ready(p, e) == IF e.kind = "define" THEN p ELSE [p EXCEPT !.links = <<>>]

\* The pre-checker and the plans it has made, each of them taken as done.
Foresee(r, e) ==
  LET q == Ready(r.p, e)
  IN  IF Planned(q, e) THEN [p |-> Confirm(q, e), applied |-> r.applied + 1]
      ELSE [r EXCEPT !.p = q]

Foreseen(events) ==
  LET seen[n \in 0..Len(events)] ==
        IF n = 0 THEN [p |-> Fresh, applied |-> 0] ELSE Foresee(seen[n - 1], events[n])
  IN  seen

\* Faulty variant: only the last event consumed is fed to it.
RederivedLast(events, after) ==
  LET last == SelectSeq(events, LAMBDA e : e.seq = after) IN Foreseen(last)[Len(last)].p

\* A later run feeds it with the events already consumed, and takes each plan as done.
Rederived(events, after) == Foreseen(events)[Consumed(events, after)].p

\* Faulty variant: a plan is counted and not taken as done.
SimulateFresh(events, until) ==
  Cardinality({n \in 1..Due(events, until) : Planned(Fresh, events[n])})

\* --dry-run: the events that would be sent, each taken as done.
Simulate(events, until) == Foreseen(events)[Due(events, until)].applied

-----------------------------------------------------------------------------
(***************************************************************************)
(* The domain services: what they accept of a planned event, and do.       *)
(***************************************************************************)
Empty == [assets |-> {}, above |-> [a \in Machines |-> Nil], stock |-> <<>>, wos |-> <<>>]

MayMove(s, e) ==
  /\ Target(e) \in Allowed[s.wos[e.wo].status]
  /\ CASE Target(e) = "VOIDED"    -> e.role = "admin"
       [] Target(e) = "CANCELLED" -> e.role = "operator" => s.wos[e.wo].opener = "operator"
       [] OTHER                   -> e.role # "operator"

Accepts(s, e) ==
  CASE e.kind = "define" -> e.role = "admin" /\ e.asset \notin s.assets
    [] e.kind = "item"   -> e.role = "admin" /\ e.item \notin DOMAIN s.stock
    [] e.kind = "open"   -> e.asset \in s.assets /\ e.wo \notin DOMAIN s.wos
    [] e.kind = "status" -> e.wo \in DOMAIN s.wos /\ MayMove(s, e)
    [] e.kind = "part"   -> /\ e.role # "operator" /\ e.item \in DOMAIN s.stock
                            /\ e.wo \in DOMAIN s.wos /\ s.wos[e.wo].status \notin Terminal

\* An item is created with nothing on hand; a part is issued unless its key was posted.
Effect(s, e, again) ==
  CASE e.kind = "define" -> [s EXCEPT !.assets = @ \cup {e.asset}]
    [] e.kind = "item"   -> [s EXCEPT !.stock = Put(@, e.item, 0)]
    [] e.kind = "open"   -> [s EXCEPT !.wos = Put(@, e.wo, [status |-> "OPEN", asset |-> e.asset,
                                                            opener |-> e.role])]
    [] e.kind = "status" -> [s EXCEPT !.wos[e.wo].status = Target(e)]
    [] e.kind = "part"   -> IF again THEN s ELSE [s EXCEPT !.stock[e.item] = @ - 1]

AdjustOnHand(s, item) == [s EXCEPT !.stock[item] = OnHandSeed]

\* What is above an asset: the least set that holds it, and with each asset the one above.
Upward(s, set) == \A b \in set : s.above[b] # Nil => s.above[b] \in set
AncestorsOf(s, a) ==
  {b \in Machines : \A set \in SUBSET Machines : a \in set /\ Upward(s, set) => b \in set}

\* link_containment: the same link again is nothing, another parent or a cycle is refused.
Linked(s, p, link) ==
  IF /\ link[1] \in p.assets /\ {link[1], link[2]} \subseteq s.assets
     /\ s.above[link[2]] = Nil /\ link[2] \notin AncestorsOf(s, link[1])
  THEN [s EXCEPT !.above[link[2]] = link[1]] ELSE s

-----------------------------------------------------------------------------
(***************************************************************************)
(* A run.                                                                  *)
(***************************************************************************)
NoWorld == [print |-> Nil, last |-> 0, until |-> 0]
NoReplay == [pc |-> "none", all |-> <<>>, next |-> 1, end |-> 0, checker |-> Fresh, until |-> 0,
             after |-> 0, applied |-> 0]

\* check_world: another fingerprint or an earlier cut-off is rejected, and nothing changes.
StartReplay(until) ==
  LET events == ReadLedger(eventLog.lines) IN
  /\ replay.pc = "none"
  /\ world # NoWorld => world.print = eventLog.print /\ until >= world.until
  /\ world' = [world EXCEPT !.print = eventLog.print]
  /\ replay' = [pc |-> "run", all |-> events, next |-> Consumed(events, world.last) + 1,
                end |-> Due(events, until), checker |-> Rederived(events, world.last),
                until |-> until, after |-> world.last, applied |-> 0]
  /\ UNCHANGED <<eventLog, shop, posted, refused, torn, crashes>>

\* The generator exposes the days that follow, under the same fingerprint.
ExposeMore ==
  /\ eventLog' \in {l \in Ledgers : l.print = eventLog.print /\ IsStrictPrefix(eventLog.lines, l.lines)}
  /\ UNCHANGED <<shop, posted, world, replay, refused, torn, crashes>>

\* The generator makes the world anew.
Regenerate ==
  /\ eventLog' \in Others
  /\ UNCHANGED <<shop, posted, world, replay, refused, torn, crashes>>

MoreEvents == replay.next <= replay.end
NextEvent == replay.all[replay.next]

\* _flush_links: each link of the batch is a transaction of its own.
FlushLink ==
  /\ replay.pc = "run" /\ replay.checker.links # <<>>
  /\ MoreEvents => NextEvent.kind # "define"
  /\ shop' = Linked(shop, replay.checker, Head(replay.checker.links))
  /\ replay' = [replay EXCEPT !.checker.links = Tail(@)]
  /\ UNCHANGED <<eventLog, posted, world, refused, torn, crashes>>

AtEvent ==
  /\ replay.pc = "run" /\ MoreEvents
  /\ NextEvent.kind = "define" \/ replay.checker.links = <<>>

Consume(done) ==
  /\ world' = [world EXCEPT !.last = NextEvent.seq]
  /\ replay' = [replay EXCEPT
                  !.pc = "run", !.next = @ + 1,
                  !.checker = IF done THEN Confirm(@, NextEvent) ELSE @,
                  !.applied = IF done THEN @ + 1 ELSE @]

\* Skipped, or dropped by the pre-checker.
Pass ==
  /\ AtEvent /\ ~Planned(replay.checker, NextEvent)
  /\ Consume(FALSE)
  /\ UNCHANGED <<eventLog, shop, posted, refused, torn, crashes>>

\* The progress is staged in the session and goes with the commit of the service.
Apply ==
  /\ AtEvent /\ Planned(replay.checker, NextEvent) /\ NextEvent.kind # "item"
  /\ Accepts(shop, NextEvent)
  /\ shop' = Effect(shop, NextEvent, NextEvent.seq \in posted)
  /\ posted' = IF NextEvent.kind = "part" THEN posted \cup {NextEvent.seq} ELSE posted
  /\ Consume(TRUE)
  /\ UNCHANGED <<eventLog, refused, torn, crashes>>

\* Faulty variant: the pre-checker takes a refused event as done.
RefuseConfirming ==
  /\ AtEvent /\ Planned(replay.checker, NextEvent)
  /\ ~Accepts(shop, NextEvent)
  /\ refused' = refused \cup {NextEvent.seq}
  /\ Consume(TRUE)
  /\ UNCHANGED <<eventLog, shop, posted, torn, crashes>>

\* _fail: what the service did is rolled back, the event is consumed.
Refuse ==
  /\ AtEvent /\ Planned(replay.checker, NextEvent)
  /\ ~Accepts(shop, NextEvent)
  /\ refused' = refused \cup {NextEvent.seq}
  /\ Consume(FALSE)
  /\ UNCHANGED <<eventLog, shop, posted, torn, crashes>>

\* An item takes two transactions, and the progress goes with the second.
CreateItem ==
  /\ AtEvent /\ Planned(replay.checker, NextEvent) /\ NextEvent.kind = "item"
  /\ Accepts(shop, NextEvent)
  /\ shop' = Effect(shop, NextEvent, FALSE)
  /\ replay' = [replay EXCEPT !.pc = "adjust"]
  /\ UNCHANGED <<eventLog, posted, world, refused, torn, crashes>>

StockItem ==
  /\ replay.pc = "adjust"
  /\ shop' = AdjustOnHand(shop, NextEvent.item)
  /\ Consume(TRUE)
  /\ UNCHANGED <<eventLog, posted, refused, torn, crashes>>

Over == replay.pc = "run" /\ ~MoreEvents /\ replay.checker.links = <<>>

FinishReplay ==
  /\ Over
  /\ world' = [world EXCEPT !.until = replay.until]
  /\ replay' = NoReplay
  /\ UNCHANGED <<eventLog, shop, posted, refused, torn, crashes>>

ReplayCrashes ==
  /\ replay.pc # "none" /\ crashes < MaxCrashes
  /\ torn' = IF replay.pc = "adjust" THEN torn \cup {NextEvent.seq} ELSE torn
  /\ replay' = NoReplay
  /\ crashes' = crashes + 1
  /\ UNCHANGED <<eventLog, shop, posted, world, refused>>

-----------------------------------------------------------------------------
SeedInit ==
  /\ eventLog \in Ledgers
  /\ shop = Empty /\ posted = {} /\ world = NoWorld /\ replay = NoReplay
  /\ refused = {} /\ torn = {} /\ crashes = 0

SeedNext ==
  \/ \E until \in CutOffs : StartReplay(until)
  \/ ExposeMore \/ Regenerate
  \/ FlushLink \/ Pass \/ Apply \/ Refuse \/ CreateItem \/ StockItem \/ FinishReplay \/ ReplayCrashes

SeedSpec == SeedInit /\ [][SeedNext]_seedVars

-----------------------------------------------------------------------------
SeedTypeOK ==
  /\ shop.assets \subseteq Machines /\ shop.above \in [Machines -> Machines \cup {Nil}]
  /\ DOMAIN shop.stock \subseteq SeedItems /\ DOMAIN shop.wos \subseteq SeedOrders
  /\ world.last \in Nat /\ world.until \in CutOffs \cup {0}
  /\ replay.pc \in {"none", "run", "adjust"}
  /\ posted \cup refused \cup torn \subseteq Nat
  /\ crashes \in 0..MaxCrashes

\* The shop after the first n links of a batch.
Linking(s, p) ==
  LET linked[n \in 0..Len(p.links)] ==
        IF n = 0 THEN s ELSE Linked(linked[n - 1], p, p.links[n])
  IN  linked
AllLinked(s, p) == Linking(s, p)[Len(p.links)]

\* What one run, never interrupted, makes of an empty shop, event by event.
Flushed(r) == [r EXCEPT !.shop = AllLinked(@, r.p), !.p.links = <<>>]

Done(s, e) ==
  IF e.kind = "item" THEN AdjustOnHand(Effect(s, e, FALSE), e.item) ELSE Effect(s, e, FALSE)

Advance(r, e) ==
  LET q == IF e.kind = "define" THEN r ELSE Flushed(r) IN
  IF ~Planned(q.p, e) THEN q
  ELSE IF Accepts(q.shop, e)
       THEN [q EXCEPT !.p = Confirm(@, e), !.shop = Done(@, e), !.applied = @ + 1]
       ELSE [q EXCEPT !.refused = @ \cup {e.seq}]

Outset == [p |-> Fresh, shop |-> Empty, refused |-> {}, applied |-> 0]
Straight(events) ==
  LET run[n \in 0..Len(events)] ==
        IF n = 0 THEN Outset ELSE Advance(run[n - 1], events[n])
  IN  run

\* docs/SYNTHETIC-INSTANCE.md, 7: wherever runs are cut off or die, the shop is in the end
\* what one run makes of the same events; but for an item whose two transactions a crash
\* has parted, and for what later runs make of an event that a service refused.
ResumeIsSeamless ==
  Over /\ torn = {} =>
    LET straight == Flushed(Straight(replay.all)[Consumed(replay.all, world.last)]) IN
    replay.after = 0 \/ straight.refused = {} =>
      shop = straight.shop /\ refused = straight.refused

\* A dry run foretells how many events a first run applies, unless a service refuses one:
\* the dry run takes the refused event as done, and plans those that follow accordingly.
DryRunForetells ==
  Over /\ replay.after = 0 /\ torn = {} /\ refused = {} =>
    Simulate(replay.all, replay.until) = replay.applied

\* A replay that was cut off, refused or died ends where one run would have, and as a dry
\* run foretold.
ReplayIsSound ==
  /\ SeedTypeOK
  /\ ResumeIsSeamless
  /\ DryRunForetells

=============================================================================
