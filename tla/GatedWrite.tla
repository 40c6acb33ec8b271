----------------------------- MODULE GatedWrite -----------------------------
(***************************************************************************)
(* The two-phase gated write of ADR-016 and ADR-025: WorkOrderService's    *)
(* propose, confirm, reject and expire_stale_proposals, as the requests    *)
(* that run them interleave on one PostgreSQL database.                    *)
(*                                                                         *)
(* A request is one web or MCP call with a database session of its own     *)
(* under READ COMMITTED.  It reads a row once (the session's identity map  *)
(* keeps what it read) and its UPDATE, at the commit, is conditional on    *)
(* the primary key only.  So an operation is a step that loads and a step  *)
(* that commits, and what the load saw may no longer hold at the commit -  *)
(* unless the row is locked in between, which confirm does for the         *)
(* entities a proposal is about and nothing does for the proposal itself.  *)
(***************************************************************************)
EXTENDS Naturals, WorkOrderStatus

CONSTANTS
  Requests,     \* the requests that can be in flight at once
  Proposals,    \* pending_token values
  Humans,       \* human:<id> principals
  WorkOrders,   \* work orders that exist before any proposal is filed
  Assets, Items, Bins, Suppliers,
  Codes,        \* equipment failure codes (efc axis)
  Keys,         \* idempotency keys a proposer may send
  Intents,      \* the operations with parameters that proposers file
  None

OpenIntents  == [op : {"open_work_order"}, asset : Assets, type : {"REACTIVE", "PM"}]
CloseIntents == [op : {"close_work_order"}, wo : WorkOrders, code : Codes \cup {None}]
VoidIntents  == [op : {"void_work_order"}, wo : WorkOrders]
EditIntents  == [op : {"update_item"}, item : Items, bin : Bins \cup {None},
                 supplier : Suppliers \cup {None}]
AllIntents   == OpenIntents \cup CloseIntents \cup VoidIntents \cup EditIntents

ASSUME IntentsAssumption == Intents \subseteq AllIntents
ASSUME NoneAssumption ==
  None \notin Proposals \cup Humans \cup WorkOrders \cup Codes \cup Bins
              \cup Suppliers \cup Keys \cup AllIntents

VARIABLES
  status,       \* status[p]: pending_proposal.status, "absent" before the INSERT
  intent,       \* intent[p]: operation and params
  key,          \* key[p]: idempotency_key
  resolver,     \* resolver[p]: confirmed_by
  overdue,      \* the proposals whose expires_at has passed
  executed,     \* executed[p]: how many transactions carried the operation out
  wo,           \* wo[w]: work_order.status
  live,         \* the assets with is_active
  codeActive,   \* the failure codes with is_active
  binActive,    \* the storage bins with is_active
  itemBin,      \* itemBin[i]: inventory_item.bin_location
  known,        \* known[s]: what makes the supplier text known: an organization's
                \* name ("org"), another item's supplier ("item"), or nothing
  admin,        \* the humans who are active admins
  req           \* req[r]: what the request is doing

database == <<wo, live, codeActive, binActive, itemBin, known, admin>>
ledger   == <<status, intent, key, resolver, executed>>
vars     == <<ledger, overdue, database, req>>

Resolutions    == {"CONFIRMED", "REJECTED", "EXPIRED"}
ProposalStatus == {"absent", "PENDING"} \cup Resolutions

\* PROPOSABLE_OPS and HUMAN_PROPOSABLE_OPS: what each kind of proposer may file.
ProposableBy ==
  [agent |-> {"open_work_order", "close_work_order"},
   human |-> {"open_work_order", "close_work_order", "void_work_order", "update_item"}]

Target == [close_work_order |-> "CLOSED", void_work_order |-> "VOIDED"]

(***************************************************************************)
(* Requests.                                                               *)
(***************************************************************************)
Pc == {"idle", "file", "lapse", "check", "execute", "recheck", "reject", "sweep", "direct"}

Request ==
  [pc    : Pc,
   token : Proposals \cup {None},      \* the proposal the request resolves
   who   : Humans \cup {None},         \* the human on whose authority
   what  : AllIntents \cup {None},     \* the operation being proposed
   idem  : Keys \cup {None},
   batch : SUBSET Proposals,           \* the overdue rows a sweep selected
   wo    : WorkOrders \cup {None},     \* a direct transition ...
   to    : Status \cup {None}]         \* ... and where it goes

Idle == [pc |-> "idle", token |-> None, who |-> None, what |-> None, idem |-> None,
         batch |-> {}, wo |-> None, to |-> None]

Finish(r) == req' = [req EXCEPT ![r] = Idle]

(***************************************************************************)
(* Row locks: a confirm that found its premise to hold keeps FOR UPDATE on *)
(* the target and FOR SHARE on the rows the premise rests on until its     *)
(* transaction ends.  An organization matched by name is lockable; another *)
(* item that happens to use the supplier text is not locked.               *)
(***************************************************************************)
Executing(i) == \E r \in Requests : req[r].pc = "execute" /\ intent[req[r].token] = i

\* Faulty variant: the row is read without a lock.
NoLock(x) == FALSE

WorkOrderLocked(w) == \E i \in Intents : Executing(i) /\ i.op \in DOMAIN Target /\ i.wo = w
AssetLocked(a)     == \E i \in Intents : Executing(i) /\ i.op = "open_work_order" /\ i.asset = a
ItemLocked(x)      == \E i \in Intents : Executing(i) /\ i.op = "update_item" /\ i.item = x
CodeLocked(c)      == \E i \in Intents : Executing(i) /\ i.op = "close_work_order" /\ i.code = c
BinLocked(b)       == \E i \in Intents : Executing(i) /\ i.op = "update_item" /\ i.bin = b
                                         /\ itemBin[i.item] # b
SupplierLocked(s)  == \E i \in Intents : Executing(i) /\ i.op = "update_item" /\ i.supplier = s

SameTarget(i, j) ==
  \/ i.op \in DOMAIN Target /\ j.op \in DOMAIN Target /\ i.wo = j.wo
  \/ i.op = "open_work_order" /\ j.op = "open_work_order" /\ i.asset = j.asset
  \/ i.op = "update_item" /\ j.op = "update_item" /\ i.item = j.item

TargetLocked(i) == \E j \in Intents : Executing(j) /\ SameTarget(i, j)

(***************************************************************************)
(* The premise of an operation, against the rows as they are now.          *)
(***************************************************************************)
MayTransition(i) == Target[i.op] \in Allowed[wo[i.wo]]
\* Faulty variant: the code exists, retired or not.
ReasonExists(i) == i.code \in Codes \cup {None}

ReasonUsable(i)  == i.code \in codeActive \cup {None}
BinUsable(i)     == i.bin \in binActive \cup {None, itemBin[i.item]}
SupplierKnown(i) == i.supplier # None => known[i.supplier] # "nowhere"

\* The part of the premise whose rows confirm locks, and the whole of it.
Secured(i) ==
  CASE i.op = "close_work_order" -> MayTransition(i) /\ ReasonUsable(i)
    [] i.op = "void_work_order"  -> MayTransition(i)
    [] i.op = "open_work_order"  -> i.type = "REACTIVE" => i.asset \in live
    [] i.op = "update_item"      -> BinUsable(i)

Applicable(i) == Secured(i) /\ (i.op = "update_item" => SupplierKnown(i))

\* What propose itself verifies; the mutable premises of open and update_item
\* are left to confirm.
Proposable(i) ==
  CASE i.op = "close_work_order" -> wo[i.wo] = "COMPLETED" /\ ReasonUsable(i)
    [] i.op = "void_work_order"  -> MayTransition(i)
    [] OTHER                     -> TRUE

SameSubject(i, j) ==
  /\ i.op = j.op
  /\ CASE i.op = "void_work_order" -> i.wo = j.wo
       [] i.op = "update_item"     -> i.item = j.item
       [] OTHER                    -> FALSE

\* Faulty variant: only edits are looked up.
EditPending(i) ==
  \E p \in Proposals : /\ status[p] = "PENDING" /\ p \notin overdue
                       /\ i.op = "update_item" /\ SameSubject(intent[p], i)

\* find_pending_proposal: an unexpired PENDING proposal for the same subject.
AlreadyPending(i) ==
  \E p \in Proposals : status[p] = "PENDING" /\ p \notin overdue /\ SameSubject(intent[p], i)

-----------------------------------------------------------------------------
(***************************************************************************)
(* propose                                                                 *)
(***************************************************************************)
\* A refusal, and a return of the proposal already pending, change nothing.
ProposeLoad(r, i, kind, k) ==
  /\ req[r].pc = "idle"
  /\ i.op \in ProposableBy[kind]
  /\ Proposable(i)
  /\ ~AlreadyPending(i)
  /\ req' = [req EXCEPT ![r] = [Idle EXCEPT !.pc = "file", !.what = i, !.idem = k]]
  /\ UNCHANGED <<ledger, overdue, database>>

\* The INSERT, unless the key is taken: then the existing row is returned or,
\* when the SELECT missed it, the unique constraint rolls the INSERT back.
KeyTaken(k) == k # None /\ \E p \in Proposals : status[p] # "absent" /\ key[p] = k

ProposeInsert(r, p) ==
  /\ req[r].pc = "file"
  /\ status[p] = "absent"
  /\ ~KeyTaken(req[r].idem)
  /\ status' = [status EXCEPT ![p] = "PENDING"]
  /\ intent' = [intent EXCEPT ![p] = req[r].what]
  /\ key' = [key EXCEPT ![p] = req[r].idem]
  /\ Finish(r)
  /\ UNCHANGED <<resolver, executed, overdue, database>>

\* The key is taken; or, the bound of this model, no token is left to draw.
ProposeReturn(r) ==
  /\ req[r].pc = "file"
  /\ KeyTaken(req[r].idem) \/ \A p \in Proposals : status[p] # "absent"
  /\ Finish(r)
  /\ UNCHANGED <<ledger, overdue, database>>

-----------------------------------------------------------------------------
(***************************************************************************)
(* confirm                                                                 *)
(***************************************************************************)
\* session.get(PendingProposal), the status and expiry tests, and the admin test.
ConfirmLoad(r, p, h) ==
  /\ req[r].pc = "idle"
  /\ status[p] = "PENDING"
  /\ \/ /\ p \in overdue
        /\ req' = [req EXCEPT ![r] = [Idle EXCEPT !.pc = "lapse", !.token = p, !.who = h]]
     \/ /\ p \notin overdue
        /\ h \in admin
        /\ req' = [req EXCEPT ![r] = [Idle EXCEPT !.pc = "check", !.token = p, !.who = h]]
  /\ UNCHANGED <<ledger, overdue, database>>

\* Past its expiry: EXPIRED in a transaction of its own, confirmed_by untouched.
ConfirmLapse(r) ==
  /\ req[r].pc = "lapse"
  /\ status' = [status EXCEPT ![req[r].token] = "EXPIRED"]
  /\ Finish(r)
  /\ UNCHANGED <<intent, key, resolver, executed, overdue, database>>

\* Faulty variants: a status of its own; the confirmer is not recorded.
MarkStaleUnlisted(r) ==
  /\ status' = [status EXCEPT ![req[r].token] = "STALE"]
  /\ resolver' = [resolver EXCEPT ![req[r].token] = req[r].who]
  /\ Finish(r)
  /\ UNCHANGED <<intent, key, executed, overdue, database>>

MarkStaleAnonymously(r) ==
  /\ status' = [status EXCEPT ![req[r].token] = "EXPIRED"]
  /\ Finish(r)
  /\ UNCHANGED <<intent, key, resolver, executed, overdue, database>>

\* The premise no longer holds: EXPIRED, with the confirmer who tried.
MarkStale(r) ==
  /\ status' = [status EXCEPT ![req[r].token] = "EXPIRED"]
  /\ resolver' = [resolver EXCEPT ![req[r].token] = req[r].who]
  /\ Finish(r)
  /\ UNCHANGED <<intent, key, executed, overdue, database>>

\* Faulty variant: a premise that fails is waited for.
ConfirmCheckWaits(r) ==
  LET i == intent[req[r].token] IN
  /\ req[r].pc = "check"
  /\ ~TargetLocked(i)
  /\ Applicable(i)
  /\ req' = [req EXCEPT ![r].pc = "execute"]
  /\ UNCHANGED <<ledger, overdue, database>>

\* _assert_proposal_still_applicable: wait for the target's row lock, read the
\* rows afresh under it, and keep the locks if the premise holds.
ConfirmCheck(r) ==
  LET i == intent[req[r].token] IN
  /\ req[r].pc = "check"
  /\ ~TargetLocked(i)
  /\ \/ /\ Applicable(i)
        /\ req' = [req EXCEPT ![r].pc = "execute"]
        /\ UNCHANGED <<ledger, overdue, database>>
     \/ /\ ~Applicable(i)
        /\ MarkStale(r)

Resolve(r) ==
  /\ status' = [status EXCEPT ![req[r].token] = "CONFIRMED"]
  /\ resolver' = [resolver EXCEPT ![req[r].token] = req[r].who]
  /\ executed' = [executed EXCEPT ![req[r].token] = @ + 1]
  /\ Finish(r)
  /\ UNCHANGED <<intent, key, overdue>>

\* _execute_proposed and the CONFIRMED mark, in one transaction.  The work order
\* and the asset are the objects read under the lock, they are not read again.
ExecuteTransition(r) ==
  LET i == intent[req[r].token] IN
  /\ req[r].pc = "execute"
  /\ i.op \in DOMAIN Target
  /\ wo' = [wo EXCEPT ![i.wo] = Target[i.op]]
  /\ Resolve(r)
  /\ UNCHANGED <<live, codeActive, binActive, itemBin, known, admin>>

\* The opened work order is a new row, numbered past the existing ones.
ExecuteOpen(r) ==
  /\ req[r].pc = "execute"
  /\ intent[req[r].token].op = "open_work_order"
  /\ Resolve(r)
  /\ UNCHANGED database

\* Faulty variant: the edit trusts the validation made at the check.
ExecuteEditTrusting(r) ==
  LET i == intent[req[r].token] IN
  /\ req[r].pc = "execute"
  /\ i.op = "update_item"
  /\ itemBin' = [itemBin EXCEPT ![i.item] = i.bin]
  /\ Resolve(r)
  /\ UNCHANGED <<wo, live, codeActive, binActive, known, admin>>

\* _update_item_impl validates bin and supplier again before it writes.
ExecuteEdit(r) ==
  LET i == intent[req[r].token] IN
  /\ req[r].pc = "execute"
  /\ i.op = "update_item"
  /\ BinUsable(i)
  /\ SupplierKnown(i)
  /\ itemBin' = [itemBin EXCEPT ![i.item] = i.bin]
  /\ Resolve(r)
  /\ UNCHANGED <<wo, live, codeActive, binActive, known, admin>>

\* The edit was refused and rolled back, its locks with it;
\* _expire_if_stale_after_failure refreshes the proposal.
ExecuteEditFails(r) ==
  LET i == intent[req[r].token] IN
  /\ req[r].pc = "execute"
  /\ i.op = "update_item"
  /\ ~(BinUsable(i) /\ SupplierKnown(i))
  /\ IF status[req[r].token] = "PENDING"
       THEN req' = [req EXCEPT ![r].pc = "recheck"]
       ELSE Finish(r)
  /\ UNCHANGED <<ledger, overdue, database>>

\* The premise again, under new locks: stale, or the original error is raised
\* and the proposal stays PENDING.
ConfirmRecheck(r) ==
  LET i == intent[req[r].token] IN
  /\ req[r].pc = "recheck"
  /\ ~TargetLocked(i)
  /\ \/ /\ ~Applicable(i)
        /\ MarkStale(r)
     \/ /\ Applicable(i)
        /\ Finish(r)
        /\ UNCHANGED <<ledger, overdue, database>>

-----------------------------------------------------------------------------
(***************************************************************************)
(* reject, and the sweep an admin's visit to the review page runs          *)
(***************************************************************************)
\* Faulty variant: any filed proposal can be rejected.
RejectLoadAny(r, p, h) ==
  /\ req[r].pc = "idle"
  /\ status[p] # "absent"
  /\ req' = [req EXCEPT ![r] = [Idle EXCEPT !.pc = "reject", !.token = p, !.who = h]]
  /\ UNCHANGED <<ledger, overdue, database>>

RejectLoad(r, p, h) ==
  /\ req[r].pc = "idle"
  /\ status[p] = "PENDING"
  /\ req' = [req EXCEPT ![r] = [Idle EXCEPT !.pc = "reject", !.token = p, !.who = h]]
  /\ UNCHANGED <<ledger, overdue, database>>

RejectCommit(r) ==
  /\ req[r].pc = "reject"
  /\ status' = [status EXCEPT ![req[r].token] = "REJECTED"]
  /\ resolver' = [resolver EXCEPT ![req[r].token] = req[r].who]
  /\ Finish(r)
  /\ UNCHANGED <<intent, key, executed, overdue, database>>

Lapsed == {p \in overdue : status[p] = "PENDING"}

SweepLoad(r) ==
  /\ req[r].pc = "idle"
  /\ Lapsed # {}
  /\ req' = [req EXCEPT ![r] = [Idle EXCEPT !.pc = "sweep", !.batch = Lapsed]]
  /\ UNCHANGED <<ledger, overdue, database>>

SweepCommit(r) ==
  /\ req[r].pc = "sweep"
  /\ status' = [p \in Proposals |-> IF p \in req[r].batch THEN "EXPIRED" ELSE status[p]]
  /\ Finish(r)
  /\ UNCHANGED <<intent, key, resolver, executed, overdue, database>>

-----------------------------------------------------------------------------
(***************************************************************************)
(* The writers that do not go through a proposal                           *)
(***************************************************************************)
\* One transaction of a direct operation: a single transition, or the chains of
\* set_hold (OPEN -> ON_HOLD) and finish_work_order (any live status -> CLOSED).
DirectTargets(s) ==
  Allowed[s] \cup (IF s = "OPEN" THEN {"ON_HOLD"} ELSE {})
             \cup (IF s \in {"OPEN", "IN_PROGRESS", "ON_HOLD"} THEN {"CLOSED"} ELSE {})

DirectLoad(r, w, s) ==
  /\ req[r].pc = "idle"
  /\ s \in DirectTargets(wo[w])
  /\ req' = [req EXCEPT ![r] = [Idle EXCEPT !.pc = "direct", !.wo = w, !.to = s]]
  /\ UNCHANGED <<ledger, overdue, database>>

\* The UPDATE waits for a row lock; it does not look at the status again.
DirectCommit(r) ==
  /\ req[r].pc = "direct"
  /\ ~WorkOrderLocked(req[r].wo)
  /\ wo' = [wo EXCEPT ![req[r].wo] = req[r].to]
  /\ Finish(r)
  /\ UNCHANGED <<ledger, overdue, live, codeActive, binActive, itemBin, known, admin>>

\* AssetService.set_asset_active
SetAssetActive(a) ==
  /\ ~AssetLocked(a)
  /\ live' \in {live \cup {a}, live \ {a}}
  /\ UNCHANGED <<ledger, overdue, wo, codeActive, binActive, itemBin, known, admin, req>>

\* Failure codes are retired by administrators in the database itself.
RetireCode(c) ==
  /\ ~CodeLocked(c)
  /\ codeActive' = codeActive \ {c}
  /\ UNCHANGED <<ledger, overdue, wo, live, binActive, itemBin, known, admin, req>>

\* InventoryService.set_storage_bin_active
SetBinActive(b) ==
  /\ ~BinLocked(b)
  /\ binActive' \in {binActive \cup {b}, binActive \ {b}}
  /\ UNCHANGED <<ledger, overdue, wo, live, codeActive, itemBin, known, admin, req>>

\* InventoryService.update_item by an admin: the item moves to another bin.
MoveItem(x, b) ==
  /\ ~ItemLocked(x)
  /\ b = None \/ b \in binActive
  /\ itemBin' = [itemBin EXCEPT ![x] = b]
  /\ UNCHANGED <<ledger, overdue, wo, live, codeActive, binActive, known, admin, req>>

\* An organization is renamed to, or from, the supplier text.
RenameOrganization(s) ==
  /\ \/ known[s] = "org" /\ ~SupplierLocked(s) /\ known' = [known EXCEPT ![s] = "nowhere"]
     \/ known' = [known EXCEPT ![s] = "org"]
  /\ UNCHANGED <<ledger, overdue, wo, live, codeActive, binActive, itemBin, admin, req>>

\* The last other item that used the supplier text is edited; that row is not locked.
ForgetSupplier(s) ==
  /\ known[s] = "item"
  /\ known' = [known EXCEPT ![s] = "nowhere"]
  /\ UNCHANGED <<ledger, overdue, wo, live, codeActive, binActive, itemBin, admin, req>>

\* IdentityService.set_role, deactivate_user, reactivate_user
SetAdmin(h) ==
  /\ admin' \in {admin \cup {h}, admin \ {h}}
  /\ UNCHANGED <<ledger, overdue, wo, live, codeActive, binActive, itemBin, known, req>>

\* expires_at passes.
TimePasses(p) ==
  /\ status[p] # "absent"
  /\ overdue' = overdue \cup {p}
  /\ UNCHANGED <<ledger, database, req>>

-----------------------------------------------------------------------------
Init ==
  /\ status = [p \in Proposals |-> "absent"]
  /\ intent = [p \in Proposals |-> None]
  /\ key = [p \in Proposals |-> None]
  /\ resolver = [p \in Proposals |-> None]
  /\ executed = [p \in Proposals |-> 0]
  /\ overdue = {}
  /\ wo \in [WorkOrders -> Status]
  /\ live = Assets
  /\ codeActive = Codes
  /\ binActive = Bins
  /\ itemBin = [x \in Items |-> None]
  /\ known \in [Suppliers -> {"org", "item"}]
  /\ admin = Humans
  /\ req = [r \in Requests |-> Idle]

\* A request that has begun goes on to its end.
Proceed(r) ==
  \/ ProposeReturn(r) \/ \E p \in Proposals : ProposeInsert(r, p)
  \/ ConfirmLapse(r) \/ ConfirmCheck(r) \/ ConfirmRecheck(r)
  \/ ExecuteTransition(r) \/ ExecuteOpen(r) \/ ExecuteEdit(r) \/ ExecuteEditFails(r)
  \/ RejectCommit(r) \/ SweepCommit(r) \/ DirectCommit(r)

Begin(r) ==
  \/ \E i \in Intents, kind \in {"agent", "human"}, k \in Keys \cup {None} :
        ProposeLoad(r, i, kind, k)
  \/ \E p \in Proposals, h \in Humans : ConfirmLoad(r, p, h) \/ RejectLoad(r, p, h)
  \/ SweepLoad(r)
  \/ \E w \in WorkOrders, s \in Status : DirectLoad(r, w, s)

Surroundings ==
  \/ \E a \in Assets : SetAssetActive(a)
  \/ \E c \in Codes : RetireCode(c)
  \/ \E b \in Bins : SetBinActive(b)
  \/ \E x \in Items, b \in Bins \cup {None} : MoveItem(x, b)
  \/ \E s \in Suppliers : RenameOrganization(s) \/ ForgetSupplier(s)
  \/ \E h \in Humans : SetAdmin(h)
  \/ \E p \in Proposals : TimePasses(p)

Next == Surroundings \/ \E r \in Requests : Begin(r) \/ Proceed(r)

Spec == Init /\ [][Next]_vars

\* A request in flight is run by the server to its end, and PostgreSQL grants
\* a row lock to its waiters in turn.
FairSpec == Spec /\ \A r \in Requests : SF_vars(Proceed(r))

-----------------------------------------------------------------------------
TypeOK ==
  /\ status \in [Proposals -> ProposalStatus]
  /\ intent \in [Proposals -> Intents \cup {None}]
  /\ key \in [Proposals -> Keys \cup {None}]
  /\ resolver \in [Proposals -> Humans \cup {None}]
  /\ executed \in [Proposals -> Nat]
  /\ overdue \subseteq Proposals
  /\ wo \in [WorkOrders -> Status]
  /\ live \subseteq Assets
  /\ codeActive \subseteq Codes
  /\ binActive \subseteq Bins
  /\ itemBin \in [Items -> Bins \cup {None}]
  /\ known \in [Suppliers -> {"org", "item", "nowhere"}]
  /\ admin \subseteq Humans
  /\ req \in [Requests -> Request]

Executes(p) == executed'[p] # executed[p]

\* A gated close or void moves the work order along ALLOWED_TRANSITIONS from the
\* status it has at that very commit, whatever direct writers are doing: the
\* FOR UPDATE of _proposal_stale carries from the check to the commit.
GatedTransitionLegal ==
  [][\A p \in Proposals :
       Executes(p) /\ intent[p].op \in {"close_work_order", "void_work_order"}
         => LET w == intent[p].wo IN wo'[w] \in Allowed[wo[w]]]_vars

\* A confirmed open_work_order never puts a REACTIVE work order on an asset that
\* is retired when the work order appears (the rule of _open_impl).
GatedOpenOnLiveAsset ==
  [][\A p \in Proposals :
       Executes(p) /\ intent[p].op = "open_work_order" /\ intent[p].type = "REACTIVE"
         => intent[p].asset \in live']_vars

\* A confirmed close never records a failure code that is retired by then.
GatedCloseReasonActive ==
  [][\A p \in Proposals :
       Executes(p) /\ intent[p].op = "close_work_order" /\ intent[p].code # None
         => intent[p].code \in codeActive']_vars

\* A confirmed edit leaves the item in an active bin, or in the bin it was in,
\* with a supplier text that is known then, although the text may be known only
\* by a row that confirm does not lock.
GatedEditValid ==
  [][\A p \in Proposals :
       Executes(p) /\ intent[p].op = "update_item"
         => LET i == intent[p] IN
            /\ itemBin'[i.item] \in binActive' \cup {None, itemBin[i.item]}
            /\ i.supplier # None => known'[i.supplier] # "nowhere"]_vars

\* What a confirm carries out is valid when it is committed, not only when it was
\* proposed or checked: the four rules of _proposal_stale and of the operations themselves.
ConfirmsAreValid ==
  GatedTransitionLegal /\ GatedOpenOnLiveAsset /\ GatedCloseReasonActive /\ GatedEditValid

\* Between the check and the commit of a confirm nothing it locked can change.
LockedPremise ==
  \A r \in Requests : req[r].pc = "execute" => Secured(intent[req[r].token])

\* A lapsed proposal can be told from one found stale: EXPIRED with no
\* confirmed_by means the expiry passed (the ProposalStale docstring).  And
\* CONFIRMED means that the operation was carried out.
ResolutionTellsWhy ==
  \A p \in Proposals :
    /\ status[p] = "EXPIRED" /\ resolver[p] = None => p \in overdue
    /\ status[p] = "CONFIRMED" => executed[p] > 0 /\ resolver[p] # None

\* No confirm, reject, sweep or direct write is left waiting for a row lock for ever.
RequestsEnd == \A r \in Requests : req[r].pc # "idle" ~> req[r].pc = "idle"

(***************************************************************************)
(* Properties of a server that runs one request at a time.                 *)
(***************************************************************************)
Ledger == INSTANCE ProposalLedger WITH Proposals <- Proposals, status <- status, executed <- executed

\* The abstract ledger is implemented: every resolution is final and an
\* operation runs once, exactly when its proposal becomes CONFIRMED.
LedgerSpec == Ledger!Spec

\* The duplicate guard of propose: one live request per work order to void, and
\* one live edit per item.
OnePendingPerSubject ==
  \A p, q \in Proposals :
    /\ p # q
    /\ status[p] = "PENDING" /\ p \notin overdue
    /\ status[q] = "PENDING" /\ q \notin overdue
    => ~SameSubject(intent[p], intent[q])

(***************************************************************************)
(* What the documentation says of confirm.                                 *)
(***************************************************************************)
\* ADR-016: "re-confirming the same token does not re-execute".
ReconfirmDoesNotReExecute == \A p \in Proposals : executed[p] <= 1

=============================================================================
