------------------------------- MODULE Stock -------------------------------
(***************************************************************************)
(* Spare parts of one inventory item: issued to work orders and directly   *)
(* to assets, amended, cancelled, counted and backfilled.  Every movement  *)
(* is a row of the append-only ledger stock_transaction; the quantity on   *)
(* hand moves with it, and work_order_part sums up what a work order has.  *)
(*                                                                         *)
(* A request reads without locks, inserts its row of the ledger, which     *)
(* draws the row's id, waits for the lock of the item where the quantity   *)
(* moves, and commits: the unique idempotency key of the ledger and the    *)
(* increment of the quantity in SQL are all that orders two requests, and  *)
(* ids need not follow the commits.  A behaviour is of one of two kinds:   *)
(* requests overlap, or they take turns, and nothing comes between what    *)
(* one reads and what it commits.                                          *)
(***************************************************************************)
EXTENDS Integers, Sequences, FiniteSets, Sums

CONSTANTS
  Requests, WorkOrders, Assets,
  Nonces,       \* the nonces of the rendered forms
  None,
  LegacyRows,   \* the rows of the legacy file of issued parts
  Quantities,   \* what people type
  FirstOnHand,
  MaxLedger     \* bound: ids of rows of the ledger

ASSUME StockAssumption ==
  /\ Quantities \subseteq Nat \ {0} /\ LegacyRows \subseteq Nat
  /\ FirstOnHand \in Nat /\ MaxLedger \in Nat
  /\ WorkOrders \cap Assets = {} /\ None \notin WorkOrders \cup Assets \cup Nonces

VARIABLES
  onHand,   \* quantity_on_hand of the item
  ledger,   \* ledger[i]: the row of stock_transaction that was committed i-th
  drawn,    \* the last txn_id drawn
  part,     \* part[n]: the row of work_order_part with id n
  over,     \* the work orders in a terminal state
  req,      \* req[r]: the request under way
  crossed,  \* (history) the work orders to which two issues were under way, both inserted
  turns     \* whether requests take turns

vars == <<onHand, ledger, drawn, part, over, req, crossed, turns>>

Operations == {"issue", "amend", "cancel", "direct", "supersede", "unissue", "adjust", "backfill"}

\* What an idempotency key is made of.  A caller without a key is one with a nonce of its own.
Key == [op : Operations, nonce : Nonces \cup {None}, target : Nat, quantity : Nat]

Transaction ==
  [id : Nat, kind : {"ISSUE", "RETURN", "ADJUST"}, delta : Int,
   charge : WorkOrders \cup Assets \cup {None}, key : Key,
   moves : BOOLEAN]   \* whether the quantity on hand moves with it: not for a backfill

\* "posted" is the row of the ledger that the part was inserted with, which no column names.
Part == [wo : WorkOrders, quantity : Nat, deleted : BOOLEAN, backfill : BOOLEAN, posted : Nat]

\* What a request has read: the row it is about, where the charge goes, the change; and the
\* id of the row it has inserted, which nobody sees before the commit, or 0.
Request ==
  [op : Operations \cup {"idle"}, key : Key \cup {None}, target : Nat,
   charge : WorkOrders \cup Assets \cup {None}, quantity : Nat, delta : Int, id : Nat]

Idle ==
  [op |-> "idle", key |-> None, target |-> 0, charge |-> None, quantity |-> 0, delta |-> 0, id |-> 0]

-----------------------------------------------------------------------------
KeyOf(op, nonce, target, quantity) ==
  [op |-> op, nonce |-> nonce, target |-> target, quantity |-> quantity]

\* _asset_issue_cancel_key: one return for each direct issue, whoever asks for it.
GiveBackKey(i) == KeyOf("unissue", None, i, 0)

Posted(key) == \E i \in DOMAIN ledger : ledger[i].key = key

\* The keys of the rows that the request inserts.
Inserts(r) ==
  {key \in {req[r].key} \cup (IF req[r].op = "supersede" THEN {GiveBackKey(req[r].target)} ELSE {}) :
     ~Posted(key)}

\* An issue of the request goes to the work order and comes with a part.
IssuesPart(r, w) == req[r].op \in {"issue", "backfill"} /\ req[r].charge = w

Row(r, kind, delta, key) ==
  [id |-> req[r].id, kind |-> kind, delta |-> delta, charge |-> req[r].charge, key |-> key,
   moves |-> req[r].op # "backfill"]

\* What the rows charged there have moved.
Share(row, charged) == IF row.moves /\ row.charge \in charged THEN row.delta ELSE 0

Moved(rows, charged) == SeqSum([i \in DOMAIN rows |-> Share(rows[i], charged)])

Anywhere == WorkOrders \cup Assets \cup {None}

\* Faulty variant: a count writes the quantity, not the increment.
PostOverwriting(rows) ==
  /\ ledger' = ledger \o rows
  /\ onHand' = IF rows[1].kind = "ADJUST" THEN rows[1].key.quantity ELSE onHand + Moved(rows, Anywhere)

\* The commit of post_stock_transaction: the rows and the increment of the quantity, together.
Post(rows) ==
  /\ ledger' = ledger \o rows
  /\ onHand' = onHand + Moved(rows, Anywhere)

Finish(r) == req' = [req EXCEPT ![r] = Idle]

\* The request has read what it needs.
Begin(r, op, nonce, target, charge, quantity, delta) ==
  /\ req[r] = Idle
  /\ req' = [req EXCEPT ![r] = [op |-> op, key |-> KeyOf(op, nonce, target, quantity),
                                target |-> target, charge |-> charge,
                                quantity |-> quantity, delta |-> delta, id |-> 0]]
  /\ UNCHANGED <<onHand, ledger, drawn, part, over, crossed>>

-----------------------------------------------------------------------------
\* issue_part_to_work_order: no test of the quantity on hand.
IssueRead(r, nonce, w, q) == w \notin over /\ Begin(r, "issue", nonce, 0, w, q, -q)

\* issue_to_asset: none either, and the asset may be out of use.
DirectRead(r, nonce, a, q) == Begin(r, "direct", nonce, 0, a, q, -q)

\* Faulty variants: the terminal test is dropped; the stock test is dropped.
AmendReadAlways(r, nonce, n, q) ==
  LET delta == q - part[n].quantity
  IN  /\ ~part[n].deleted /\ ~part[n].backfill
      /\ delta # 0 /\ delta <= onHand
      /\ Begin(r, "amend", nonce, n, part[n].wo, q, -delta)
AmendReadUnchecked(r, nonce, n, q) ==
  LET delta == q - part[n].quantity
  IN  /\ ~part[n].deleted /\ ~part[n].backfill /\ part[n].wo \notin over
      /\ delta # 0
      /\ Begin(r, "amend", nonce, n, part[n].wo, q, -delta)

\* update_part_issue_quantity: an increase needs the quantity on hand.
AmendRead(r, nonce, n, q) ==
  LET delta == q - part[n].quantity
  IN  /\ ~part[n].deleted /\ ~part[n].backfill /\ part[n].wo \notin over
      /\ delta # 0 /\ (delta > 0 => delta <= onHand)
      /\ Begin(r, "amend", nonce, n, part[n].wo, q, -delta)

\* Faulty variant: a backfilled part is cancelled too.
CancelReadBackfilled(r, nonce, n) ==
  /\ ~part[n].deleted /\ part[n].wo \notin over
  /\ Begin(r, "cancel", nonce, n, part[n].wo, 0, part[n].quantity)

\* cancel_part_issue
CancelRead(r, nonce, n) ==
  /\ ~part[n].deleted /\ ~part[n].backfill /\ part[n].wo \notin over
  /\ Begin(r, "cancel", nonce, n, part[n].wo, 0, part[n].quantity)

DirectIssue(i) == ledger[i].kind = "ISSUE" /\ ledger[i].charge \in Assets /\ ledger[i].moves

\* update_asset_issue_quantity: of a direct issue that nobody gave back.
SupersedeRead(r, nonce, i, q) ==
  LET issued == -ledger[i].delta
  IN  /\ DirectIssue(i) /\ ~Posted(GiveBackKey(i))
      /\ ~Posted(KeyOf("supersede", nonce, i, q))
      /\ q # issued /\ (q > issued => q - issued <= onHand)
      /\ Begin(r, "supersede", nonce, i, ledger[i].charge, q, -q)

\* cancel_asset_issue
GiveBackRead(r, i) ==
  /\ DirectIssue(i)
  /\ Begin(r, "unissue", None, i, ledger[i].charge, 0, -ledger[i].delta)

\* adjust_on_hand: the count that was made, less what is on hand.
AdjustRead(r, nonce, q) ==
  /\ q # onHand
  /\ Begin(r, "adjust", nonce, 0, None, q, q - onHand)

\* backfill_part_issue: row n of the legacy file goes to its work order, ended or not, or to
\* an asset where the work order is missing.
BackfillRead(r, n, charge, q) == Begin(r, "backfill", None, n, charge, 0, -q)

-----------------------------------------------------------------------------
\* The key is there already, or another request posts it first: nothing happens.
AlreadyPosted(r) ==
  /\ req[r] # Idle /\ req[r].id = 0
  /\ \/ Posted(req[r].key)
     \/ req[r].op = "supersede" /\ Posted(GiveBackKey(req[r].target))
  /\ Finish(r)
  /\ UNCHANGED <<onHand, ledger, drawn, part, over, crossed>>

\* The work orders that another issue of this kind is under way to.
Joined(r) ==
  {w \in WorkOrders : \E s \in Requests : req[s].id > 0 /\ IssuesPart(s, w) /\ IssuesPart(r, w)}

\* Faulty variant: no unique index, so nobody waits.
InsertUnguarded(r) ==
  /\ req[r] # Idle /\ req[r].id = 0
  /\ ~Posted(req[r].key)
  /\ drawn < MaxLedger
  /\ drawn' = drawn + 1
  /\ req' = [req EXCEPT ![r].id = drawn + 1]
  /\ crossed' = crossed \cup Joined(r)
  /\ UNCHANGED <<onHand, ledger, part, over>>

\* post_stock_transaction: the test of the key, and the insert.  A key that another request
\* has inserted keeps this one waiting for the other's commit.
Insert(r) ==
  /\ req[r] # Idle /\ req[r].id = 0
  /\ ~Posted(req[r].key)
  /\ \A s \in Requests : req[s].id > 0 => Inserts(s) \cap Inserts(r) = {}
  /\ drawn < MaxLedger
  /\ drawn' = drawn + 1
  /\ req' = [req EXCEPT ![r].id = drawn + 1]
  /\ crossed' = crossed \cup Joined(r)
  /\ UNCHANGED <<onHand, ledger, part, over>>

\* Faulty variant: a direct issue is listed as a part of a work order.
IssueListed(r) ==
  LET q == req[r]
  IN  /\ q.op \in {"issue", "direct", "backfill"} /\ q.id > 0
      /\ Post(<<Row(r, "ISSUE", q.delta, q.key)>>)
      /\ part' = Append(part, [wo |-> q.charge, quantity |-> -q.delta, deleted |-> FALSE,
                              backfill |-> q.op = "backfill", posted |-> Len(ledger) + 1])
      /\ Finish(r)
      /\ UNCHANGED <<drawn, over, crossed>>

\* An issue to a work order comes with its part, inserted after the lock of the item is held,
\* or, in a backfill, which takes no lock and moves nothing, right after its row.
Issue(r) ==
  LET q == req[r]
  IN  /\ q.op \in {"issue", "direct", "backfill"} /\ q.id > 0
      /\ Post(<<Row(r, "ISSUE", q.delta, q.key)>>)
      /\ part' = IF q.charge \in Assets THEN part
                 ELSE Append(part, [wo |-> q.charge, quantity |-> -q.delta, deleted |-> FALSE,
                                    backfill |-> q.op = "backfill", posted |-> Len(ledger) + 1])
      /\ Finish(r)
      /\ UNCHANGED <<drawn, over, crossed>>

\* The row of the part holds the quantity that was asked for.
Amend(r) ==
  LET q == req[r]
  IN  /\ q.op = "amend" /\ q.id > 0
      /\ Post(<<Row(r, IF q.delta < 0 THEN "ISSUE" ELSE "RETURN", q.delta, q.key)>>)
      /\ part' = [part EXCEPT ![q.target].quantity = q.quantity]
      /\ Finish(r)
      /\ UNCHANGED <<drawn, over, crossed>>

\* The row of the part is kept, marked as deleted.
Cancel(r) ==
  LET q == req[r]
  IN  /\ q.op = "cancel" /\ q.id > 0
      /\ Post(<<Row(r, "RETURN", q.delta, q.key)>>)
      /\ part' = [part EXCEPT ![q.target].deleted = TRUE]
      /\ Finish(r)
      /\ UNCHANGED <<drawn, over, crossed>>

\* The old issue is given back and a new one opened; if it was given back meanwhile, only
\* the new one.
Supersede(r) ==
  LET q == req[r]
      back == Row(r, "RETURN", -ledger[q.target].delta, GiveBackKey(q.target))
      again == Row(r, "ISSUE", q.delta, q.key)
  IN  /\ q.op = "supersede" /\ q.id > 0
      /\ IF Posted(GiveBackKey(q.target)) THEN Post(<<again>>) /\ UNCHANGED drawn
         ELSE /\ drawn < MaxLedger /\ drawn' = drawn + 1
              /\ Post(<<back, [again EXCEPT !.id = drawn + 1]>>)
      /\ Finish(r)
      /\ UNCHANGED <<part, over, crossed>>

\* Faulty variant: a key of its own for every return.
GiveBackAgain(r) ==
  LET q == req[r]
  IN  /\ q.op = "unissue" /\ q.id > 0
      /\ Post(<<Row(r, "RETURN", q.delta, KeyOf("unissue", None, q.target, Len(ledger)))>>)
      /\ Finish(r)
      /\ UNCHANGED <<drawn, part, over, crossed>>

GiveBack(r) ==
  LET q == req[r]
  IN  /\ q.op = "unissue" /\ q.id > 0
      /\ Post(<<Row(r, "RETURN", q.delta, q.key)>>)
      /\ Finish(r)
      /\ UNCHANGED <<drawn, part, over, crossed>>

Adjust(r) ==
  LET q == req[r]
  IN  /\ q.op = "adjust" /\ q.id > 0
      /\ Post(<<Row(r, "ADJUST", q.delta, q.key)>>)
      /\ Finish(r)
      /\ UNCHANGED <<drawn, part, over, crossed>>

(***************************************************************************)
(* pair_part_issue_times: no column leads from a part to its row of the    *)
(* ledger, so the page pairs them by their order.                          *)
(***************************************************************************)
\* Faulty variant: what an amendment took in addition counts as an issue.
AllIssuesTo(w) == {i \in DOMAIN ledger : ledger[i].kind = "ISSUE" /\ ledger[i].charge = w}

\* The issues a part was inserted with: not what an amendment took in addition.
IssuesTo(w) ==
  {i \in DOMAIN ledger : /\ ledger[i].kind = "ISSUE" /\ ledger[i].charge = w
                         /\ ledger[i].key.op # "amend"}

\* Cancelled parts keep their place.
PartsOf(w) == {n \in DOMAIN part : part[n].wo = w}

PlaceOfPart(w, n) == Cardinality({m \in PartsOf(w) : m < n})

PlaceOfIssue(w, i) == Cardinality({j \in IssuesTo(w) : ledger[j].id < ledger[i].id})

\* The n-th part goes with the n-th issue.  Nothing is paired when the numbers differ: the
\* page shows when the part was entered.
IssuePairs(w) ==
  {p \in PartsOf(w) \X IssuesTo(w) :
     /\ Cardinality(PartsOf(w)) = Cardinality(IssuesTo(w))
     /\ PlaceOfPart(w, p[1]) = PlaceOfIssue(w, p[2])}

\* The work order is closed, cancelled or voided.
End(w) ==
  /\ w \notin over
  /\ over' = over \cup {w}
  /\ UNCHANGED <<onHand, ledger, drawn, part, req, crossed>>

-----------------------------------------------------------------------------
Init ==
  /\ onHand = FirstOnHand
  /\ ledger = <<>> /\ part = <<>> /\ drawn = 0
  /\ over = {} /\ crossed = {}
  /\ req = [r \in Requests |-> Idle]
  /\ turns \in BOOLEAN

Read(r) ==
  \E nonce \in Nonces, q \in Quantities :
    \/ \E w \in WorkOrders : IssueRead(r, nonce, w, q)
    \/ \E a \in Assets : DirectRead(r, nonce, a, q)
    \/ \E n \in DOMAIN part : AmendRead(r, nonce, n, q)
    \/ \E n \in DOMAIN part : CancelRead(r, nonce, n)
    \/ \E i \in DOMAIN ledger : SupersedeRead(r, nonce, i, q)
    \/ \E i \in DOMAIN ledger : GiveBackRead(r, i)
    \/ \E count \in Quantities \cup {0} : AdjustRead(r, nonce, count)
    \/ \E n \in LegacyRows, charge \in WorkOrders \cup Assets : BackfillRead(r, n, charge, q)

Commit(r) ==
  \/ AlreadyPosted(r) \/ Insert(r)
  \/ Issue(r) \/ Amend(r) \/ Cancel(r)
  \/ Supersede(r) \/ GiveBack(r)
  \/ Adjust(r)

Start ==
  \/ \E r \in Requests : Read(r)
  \/ \E w \in WorkOrders : End(w)

Next ==
  /\ \/ \E r \in Requests : Commit(r)
     \/ (turns => \A r \in Requests : req[r] = Idle) /\ Start
  /\ UNCHANGED turns

Spec == Init /\ [][Next]_vars

-----------------------------------------------------------------------------
TypeOK ==
  /\ onHand \in Int
  /\ ledger \in Seq(Transaction) /\ drawn \in Nat
  /\ part \in Seq(Part)
  /\ over \subseteq WorkOrders /\ crossed \subseteq WorkOrders
  /\ req \in [Requests -> Request]
  /\ turns \in BOOLEAN

\* post_stock_transaction: the quantity on hand moves only with the ledger, whoever posts
\* in between.
OnHandMatchesLedger == onHand = FirstOnHand + Moved(ledger, Anywhere)

\* cancel_asset_issue and update_asset_issue_quantity: what comes back from an asset is an
\* earlier issue to it, whole, and no issue comes back twice.
DirectIssuesReturnOnce ==
  \E from \in [{i \in DOMAIN ledger : ledger[i].kind = "RETURN" /\ ledger[i].charge \in Assets}
                 -> DOMAIN ledger] :
    /\ \A i, j \in DOMAIN from : from[i] = from[j] => i = j
    /\ \A i \in DOMAIN from :
         /\ from[i] < i /\ DirectIssue(from[i])
         /\ ledger[from[i]].charge = ledger[i].charge /\ ledger[from[i]].delta = -ledger[i].delta

\* What a work order's list of parts says is what was issued to it and not returned.
Held(p, w) == IF p.wo = w /\ ~p.deleted /\ ~p.backfill THEN p.quantity ELSE 0

PartsMatchLedger ==
  \A w \in WorkOrders : Moved(ledger, {w}) = -SeqSum([n \in DOMAIN part |-> Held(part[n], w)])

\* get_part_issue_times: each part of a work order is shown with the time of its own issue,
\* though it was amended, cancelled or came from the legacy file.  Not where two issues to the
\* work order overlapped: their ids may cross their commits, and each is shown with the
\* other's time.
PartsShowTheirIssue ==
  \A w \in WorkOrders \ crossed :
    IssuePairs(w) = {<<n, part[n].posted>> : n \in {m \in DOMAIN part : part[m].wo = w}}

\* However requests read, insert and commit, the quantity on hand is the sum of its ledger, what
\* was issued to an asset comes back once, and parts show their own issue unless two issues to
\* their work order overlapped; and when requests take turns, the parts a work order lists are
\* what the ledger issued to it and did not take back.
StockIsSound ==
  /\ TypeOK
  /\ OnHandMatchesLedger
  /\ DirectIssuesReturnOnce
  /\ PartsShowTheirIssue
  /\ turns => PartsMatchLedger

\* An amendment never takes more than there is.
AmendingStepLeavesStock ==
  \A r \in Requests :
    req[r].op \in {"amend", "supersede"} /\ onHand' < onHand => onHand' >= 0

\* What a work order has used is fixed once it has ended, history aside.
EndedStepKeepsParts ==
  \A w \in over : Moved(ledger', {w}) = Moved(ledger, {w})

\* Of requests that take turns: update_part_issue_quantity and update_asset_issue_quantity
\* never take more than there is, and what a work order has used is fixed once it has
\* ended, history aside.
AmendingIsGuarded == [][turns => AmendingStepLeavesStock /\ EndedStepKeepsParts]_vars

=============================================================================
