-------------------------- MODULE GatedWriteProofs --------------------------
(***************************************************************************)
(* Theorems about GatedWrite, for any sets of requests, proposals, rows    *)
(* and intents.                                                            *)
(***************************************************************************)
EXTENDS GatedWrite, TLAPS

Resolving == {"lapse", "check", "execute", "recheck", "reject"}

\* A filed proposal has a content, and a request carries what its step needs.
WellFormed ==
  /\ \A p \in Proposals : status[p] # "absent" => intent[p] \in Intents
  /\ \A r \in Requests :
       /\ req[r].pc \in Resolving =>
            /\ req[r].token \in Proposals
            /\ status[req[r].token] # "absent"
            /\ req[r].who \in Humans
       /\ req[r].pc = "file" => req[r].what \in Intents
       /\ req[r].pc = "sweep" => \A p \in req[r].batch : status[p] # "absent"
       /\ req[r].pc = "direct" => req[r].wo \in WorkOrders /\ req[r].to \in Status

Typed == TypeOK /\ WellFormed

LEMMA IdleIsRequest == Idle \in Request
  BY DEF Idle, Request, Pc

LEMMA InitTyped == Init => Typed
  BY IdleIsRequest DEF Init, Typed, TypeOK, WellFormed, Idle, Resolving, ProposalStatus

\* Allowed and DirectTargets stay within Status.
LEMMA TargetsAreStatuses ==
  /\ \A s \in Status : Allowed[s] \subseteq Status /\ DirectTargets(s) \subseteq Status
  /\ Target["close_work_order"] \in Status
  /\ Target["void_work_order"] \in Status
  BY DEF Status, Allowed, DirectTargets, Target

\* What WellFormed asks of one request.
Carries(q) ==
  /\ q.pc \in Resolving => q.token \in Proposals /\ status[q.token] # "absent" /\ q.who \in Humans
  /\ q.pc = "file" => q.what \in Intents
  /\ q.pc = "sweep" => \A p \in q.batch : status[p] # "absent"
  /\ q.pc = "direct" => q.wo \in WorkOrders /\ q.to \in Status

\* A step that only moves one request on.
LEMMA RequestStepKeepsTyped ==
  ASSUME Typed, NEW r \in Requests, NEW q \in Request, Carries(q),
         req' = [req EXCEPT ![r] = q], UNCHANGED <<ledger, overdue, database>>
  PROVE  Typed'
<1>1. TypeOK'
  BY DEF Typed, TypeOK, ledger, database
<1>2. WellFormed'
  BY DEF Typed, TypeOK, WellFormed, Carries, ledger
<1>3. QED
  BY <1>1, <1>2 DEF Typed

LEMMA BeginKeepsTyped ==
  ASSUME Typed, NEW r \in Requests, Begin(r)
  PROVE  Typed'
<1> USE DEF Typed, TypeOK, Idle, Request, Pc, Resolving, Carries
<1>1. ASSUME NEW i \in Intents, NEW kind \in {"agent", "human"}, NEW k \in Keys \cup {None},
             ProposeLoad(r, i, kind, k)
      PROVE  Typed'
  <2> DEFINE q == [Idle EXCEPT !.pc = "file", !.what = i, !.idem = k]
  <2>1. q \in Request /\ Carries(q)
    BY IntentsAssumption
  <2>2. QED
    BY <1>1, <2>1, RequestStepKeepsTyped DEF ProposeLoad
<1>2. ASSUME NEW p \in Proposals, NEW h \in Humans, ConfirmLoad(r, p, h)
      PROVE  Typed'
  <2>1. CASE p \in overdue
    <3> DEFINE q == [Idle EXCEPT !.pc = "lapse", !.token = p, !.who = h]
    <3>1. q \in Request /\ Carries(q)
      BY <1>2 DEF ConfirmLoad
    <3>2. req' = [req EXCEPT ![r] = q] /\ UNCHANGED <<ledger, overdue, database>>
      BY <1>2, <2>1 DEF ConfirmLoad
    <3>3. QED
      BY <3>1, <3>2, RequestStepKeepsTyped
  <2>2. CASE p \notin overdue
    <3> DEFINE q == [Idle EXCEPT !.pc = "check", !.token = p, !.who = h]
    <3>1. q \in Request /\ Carries(q)
      BY <1>2 DEF ConfirmLoad
    <3>2. req' = [req EXCEPT ![r] = q] /\ UNCHANGED <<ledger, overdue, database>>
      BY <1>2, <2>2 DEF ConfirmLoad
    <3>3. QED
      BY <3>1, <3>2, RequestStepKeepsTyped
  <2>3. QED
    BY <2>1, <2>2
<1>3. ASSUME NEW p \in Proposals, NEW h \in Humans, RejectLoad(r, p, h)
      PROVE  Typed'
  <2> DEFINE q == [Idle EXCEPT !.pc = "reject", !.token = p, !.who = h]
  <2>1. q \in Request /\ Carries(q)
    BY <1>3 DEF RejectLoad
  <2>2. QED
    BY <1>3, <2>1, RequestStepKeepsTyped DEF RejectLoad
<1>4. CASE SweepLoad(r)
  <2> DEFINE q == [Idle EXCEPT !.pc = "sweep", !.batch = Lapsed]
  <2>1. q \in Request /\ Carries(q)
    BY <1>4 DEF SweepLoad, Lapsed
  <2>2. QED
    BY <1>4, <2>1, RequestStepKeepsTyped DEF SweepLoad
<1>5. ASSUME NEW w \in WorkOrders, NEW s \in Status, DirectLoad(r, w, s)
      PROVE  Typed'
  <2> DEFINE q == [Idle EXCEPT !.pc = "direct", !.wo = w, !.to = s]
  <2>1. q \in Request /\ Carries(q)
    OBVIOUS
  <2>2. QED
    BY <1>5, <2>1, RequestStepKeepsTyped DEF DirectLoad
<1>6. QED
  BY <1>1, <1>2, <1>3, <1>4, <1>5 DEF Begin

\* The operation of an intent says of which family it is.
LEMMA EditsAreEdits ==
  ASSUME NEW i \in Intents, i.op = "update_item"
  PROVE  i \in EditIntents
  BY IntentsAssumption DEF AllIntents, OpenIntents, CloseIntents, VoidIntents, EditIntents

LEMMA MarkStaleKeepsTyped ==
  ASSUME Typed, NEW r \in Requests, req[r].pc \in Resolving, MarkStale(r)
  PROVE  Typed'
<1> USE IdleIsRequest
<1> USE DEF Typed, TypeOK, WellFormed, Idle, Resolving, database, MarkStale, Finish,
            ProposalStatus, Resolutions
<1>1. TypeOK'
  OBVIOUS
<1>2. WellFormed'
  BY DEF Request, Pc
<1>3. QED
  BY <1>1, <1>2

\* CONFIRMED and what it is written with, whatever happens to the target's row.
LEMMA ResolveKeepsTyped ==
  ASSUME Typed, NEW r \in Requests, req[r].pc = "execute", Resolve(r),
         UNCHANGED <<live, codeActive, binActive, known, admin>>,
         wo' \in [WorkOrders -> Status],
         itemBin' \in [Items -> Bins \cup {None}]
  PROVE  Typed'
<1> USE IdleIsRequest
<1> USE DEF Typed, TypeOK, WellFormed, Idle, Resolving, Resolve, Finish,
            ProposalStatus, Resolutions
<1>1. TypeOK'
  OBVIOUS
<1>2. WellFormed'
  BY DEF Request, Pc
<1>3. QED
  BY <1>1, <1>2

LEMMA ProceedKeepsTyped ==
  ASSUME Typed, NEW r \in Requests, Proceed(r)
  PROVE  Typed'
<1> USE IdleIsRequest
<1> USE DEF Typed, TypeOK, WellFormed, Idle, Request, Pc, Resolving, ledger, database, Finish,
            ProposalStatus, Resolutions
<1>1. CASE ProposeReturn(r)
  BY <1>1 DEF ProposeReturn
<1>2. ASSUME NEW p \in Proposals, ProposeInsert(r, p)
      PROVE  Typed'
  BY <1>2 DEF ProposeInsert
<1>3. CASE ConfirmLapse(r)
  BY <1>3 DEF ConfirmLapse
<1>4. CASE ConfirmCheck(r)
  <2>1. CASE req' = [req EXCEPT ![r].pc = "execute"] /\ UNCHANGED <<ledger, overdue, database>>
    <3>1. req[r] \in Request /\ req[r].pc = "check"
      BY <1>4 DEF ConfirmCheck
    <3>2. TypeOK'
      BY <2>1, <3>1
    <3>3. WellFormed'
      BY <2>1, <3>1
    <3>4. QED
      BY <3>2, <3>3
  <2>2. CASE MarkStale(r)
    BY <1>4, <2>2, MarkStaleKeepsTyped DEF ConfirmCheck
  <2>3. QED
    BY <1>4, <2>1, <2>2 DEF ConfirmCheck
<1>5. CASE ConfirmRecheck(r)
  <2>1. CASE Finish(r) /\ UNCHANGED <<ledger, overdue, database>>
    BY <2>1
  <2>2. CASE MarkStale(r)
    BY <1>5, <2>2, MarkStaleKeepsTyped DEF ConfirmRecheck
  <2>3. QED
    BY <1>5, <2>1, <2>2 DEF ConfirmRecheck
<1>6. CASE ExecuteTransition(r)
  <2> DEFINE i == intent[req[r].token]
  <2>1. Target[i.op] \in Status
    BY <1>6, TargetsAreStatuses DEF ExecuteTransition, Target
  <2>2. Resolve(r) /\ wo' = [wo EXCEPT ![i.wo] = Target[i.op]]
        /\ UNCHANGED <<live, codeActive, binActive, itemBin, known, admin>>
        /\ req[r].pc = "execute"
    BY <1>6 DEF ExecuteTransition
  <2> HIDE DEF i
  <2>3. wo' \in [WorkOrders -> Status]
    BY <2>1, <2>2
  <2>4. QED
    BY <2>2, <2>3, ResolveKeepsTyped
<1>7. CASE ExecuteOpen(r)
  BY <1>7 DEF ExecuteOpen, Resolve
<1>8. CASE ExecuteEdit(r)
  <2> DEFINE i == intent[req[r].token]
  <2>1. Resolve(r) /\ itemBin' = [itemBin EXCEPT ![i.item] = i.bin]
        /\ i \in Intents /\ i.op = "update_item"
        /\ UNCHANGED <<wo, live, codeActive, binActive, known, admin>>
        /\ req[r].pc = "execute"
    BY <1>8 DEF ExecuteEdit
  <2>2. i \in EditIntents
    BY <2>1, EditsAreEdits
  <2>3. i.bin \in Bins \cup {None}
    BY <2>2 DEF EditIntents
  <2> HIDE DEF i
  <2>4. itemBin' \in [Items -> Bins \cup {None}]
    BY <2>1, <2>3
  <2>5. QED
    BY <2>1, <2>4, ResolveKeepsTyped
<1>9. CASE ExecuteEditFails(r)
  <2>1. CASE Finish(r) /\ UNCHANGED <<ledger, overdue, database>>
    BY <2>1
  <2>2. CASE req' = [req EXCEPT ![r].pc = "recheck"] /\ UNCHANGED <<ledger, overdue, database>>
    <3>1. req[r] \in Request /\ req[r].pc = "execute"
      BY <1>9 DEF ExecuteEditFails
    <3>2. TypeOK'
      BY <2>2, <3>1
    <3>3. WellFormed'
      BY <2>2, <3>1
    <3>4. QED
      BY <3>2, <3>3
  <2>3. QED
    BY <1>9, <2>1, <2>2 DEF ExecuteEditFails
<1>10. CASE RejectCommit(r)
  BY <1>10 DEF RejectCommit
<1>11. CASE SweepCommit(r)
  <2>1. TypeOK'
    BY <1>11 DEF SweepCommit
  <2>2. WellFormed'
    BY <1>11 DEF SweepCommit
  <2>3. QED
    BY <2>1, <2>2
<1>12. CASE DirectCommit(r)
  <2>1. wo' \in [WorkOrders -> Status]
    BY <1>12 DEF DirectCommit
  <2>2. TypeOK'
    BY <1>12, <2>1 DEF DirectCommit
  <2>3. WellFormed'
    BY <1>12 DEF DirectCommit
  <2>4. QED
    BY <2>2, <2>3
<1>13. QED
  BY <1>1, <1>2, <1>3, <1>4, <1>5, <1>6, <1>7, <1>8, <1>9, <1>10, <1>11, <1>12 DEF Proceed

LEMMA SurroundingsKeepTyped ==
  ASSUME Typed, Surroundings
  PROVE  Typed'
<1> USE DEF Typed, TypeOK, WellFormed, ledger, database
<1>1. ASSUME NEW a \in Assets, SetAssetActive(a) PROVE Typed'
  BY <1>1 DEF SetAssetActive
<1>2. ASSUME NEW c \in Codes, RetireCode(c) PROVE Typed'
  BY <1>2 DEF RetireCode
<1>3. ASSUME NEW b \in Bins, SetBinActive(b) PROVE Typed'
  BY <1>3 DEF SetBinActive
<1>4. ASSUME NEW x \in Items, NEW b \in Bins \cup {None}, MoveItem(x, b) PROVE Typed'
  BY <1>4 DEF MoveItem
<1>5. ASSUME NEW s \in Suppliers, RenameOrganization(s) PROVE Typed'
  BY <1>5 DEF RenameOrganization
<1>6. ASSUME NEW s \in Suppliers, ForgetSupplier(s) PROVE Typed'
  BY <1>6 DEF ForgetSupplier
<1>7. ASSUME NEW h \in Humans, SetAdmin(h) PROVE Typed'
  BY <1>7 DEF SetAdmin
<1>8. ASSUME NEW p \in Proposals, TimePasses(p) PROVE Typed'
  BY <1>8 DEF TimePasses
<1>9. QED
  BY <1>1, <1>2, <1>3, <1>4, <1>5, <1>6, <1>7, <1>8 DEF Surroundings

LEMMA NextKeepsTyped == Typed /\ [Next]_vars => Typed'
<1> SUFFICES ASSUME Typed, [Next]_vars PROVE Typed'
  OBVIOUS
<1>1. CASE Surroundings
  BY <1>1, SurroundingsKeepTyped
<1>2. ASSUME NEW r \in Requests, Begin(r) PROVE Typed'
  BY <1>2, BeginKeepsTyped
<1>3. ASSUME NEW r \in Requests, Proceed(r) PROVE Typed'
  BY <1>3, ProceedKeepsTyped
<1>4. CASE UNCHANGED vars
  BY <1>4 DEF vars, ledger, database, Typed, TypeOK, WellFormed
<1>5. QED
  BY <1>1, <1>2, <1>3, <1>4 DEF Next

\* Every reachable state is well typed.
THEOREM TypeCorrect == Spec => []TypeOK
<1>1. Spec => []Typed
  BY InitTyped, NextKeepsTyped, PTL DEF Spec
<1>2. Typed => TypeOK
  BY DEF Typed
<1>3. QED
  BY <1>1, <1>2, PTL

-----------------------------------------------------------------------------
(***************************************************************************)
(* The locks.  Locked is inductive on top of Typed.                        *)
(***************************************************************************)
\* Two confirms never hold the same target at once.
TargetsExclusive ==
  \A r, s \in Requests :
    /\ r # s
    /\ req[r].pc = "execute"
    /\ req[s].pc = "execute"
    => ~SameTarget(intent[req[r].token], intent[req[s].token])

Locked == LockedPremise /\ TargetsExclusive

LEMMA InitLocked == Init => Locked
  BY DEF Init, Locked, LockedPremise, TargetsExclusive, Idle

\* The cases that the operation of an intent distinguishes.
LEMMA IntentOps ==
  ASSUME NEW i \in Intents
  PROVE  /\ i.op \in {"close_work_order", "void_work_order", "open_work_order", "update_item"}
         /\ i.op \in DOMAIN Target <=> i.op \in {"close_work_order", "void_work_order"}
  BY IntentsAssumption DEF AllIntents, OpenIntents, CloseIntents, VoidIntents, EditIntents, Target

\* The premise of an operation, conjunct by conjunct.
Premise(i) ==
  /\ i.op \in {"close_work_order", "void_work_order"} => MayTransition(i)
  /\ i.op = "close_work_order" => ReasonUsable(i)
  /\ i.op = "open_work_order" /\ i.type = "REACTIVE" => i.asset \in live
  /\ i.op = "update_item" => BinUsable(i)

LEMMA SecuredIsPremise ==
  ASSUME NEW i \in Intents
  PROVE  (Secured(i) <=> Premise(i)) /\ (Secured(i)' <=> Premise(i)')
  BY IntentOps DEF Secured, Premise

LEMMA SameTargetIsSymmetric ==
  ASSUME NEW i, NEW j, SameTarget(i, j)
  PROVE  SameTarget(j, i)
  BY DEF SameTarget

\* The step starts no execution and leaves those under way with their proposals.
NoNewExecution ==
  \A r \in Requests :
    req'[r].pc = "execute" =>
      /\ req[r].pc = "execute"
      /\ req'[r].token = req[r].token
      /\ intent'[req[r].token] = intent[req[r].token]

\* Then what has to be shown is that the premises of those left still hold.
LEMMA NoNewExecutionKeepsLocked ==
  ASSUME Typed, Locked, NoNewExecution,
         \A s \in Requests, i \in Intents :
           req'[s].pc = "execute" /\ req[s].pc = "execute" /\ i = intent[req[s].token] /\ Premise(i)
             => Premise(i)'
  PROVE  Locked'
<1>1. LockedPremise'
  <2> SUFFICES ASSUME NEW s \in Requests, req'[s].pc = "execute"
               PROVE  Secured(intent[req[s].token])'
    BY DEF LockedPremise
  <2> DEFINE i == intent[req[s].token]
  <2>1. req[s].pc = "execute" /\ i \in Intents /\ i' = i
    BY DEF NoNewExecution, Typed, WellFormed, Resolving
  <2>2. Secured(i)
    BY <2>1 DEF Locked, LockedPremise
  <2>3. PICK j \in Intents : j = i
    BY <2>1
  <2>4. Premise(j)
    BY <2>2, <2>3, SecuredIsPremise
  <2>5. Premise(j)'
    BY <2>1, <2>3, <2>4
  <2>6. Secured(j)'
    BY <2>5, SecuredIsPremise
  <2>7. j = i'
    BY <2>1, <2>3
  <2>8. QED
    BY <2>6, <2>7 DEF Secured, MayTransition, ReasonUsable, BinUsable
<1>2. TargetsExclusive'
  BY DEF Locked, TargetsExclusive, NoNewExecution, SameTarget
<1>3. QED
  BY <1>1, <1>2 DEF Locked

\* In particular when no row that a premise reads changes.
LEMMA QuietStepKeepsLocked ==
  ASSUME Typed, Locked, NoNewExecution,
         UNCHANGED <<wo, live, codeActive, binActive, itemBin>>
  PROVE  Locked'
  BY NoNewExecutionKeepsLocked DEF Premise, MayTransition, ReasonUsable, BinUsable

\* The request goes anywhere but into an execution.
Elsewhere(r) == \E q \in Request : q.pc # "execute" /\ req' = [req EXCEPT ![r] = q]

LEMMA BeginKeepsLocked ==
  ASSUME Typed, Locked, NEW r \in Requests, Begin(r)
  PROVE  Locked'
<1>1. UNCHANGED <<ledger, database>>
  BY DEF Begin, ProposeLoad, ConfirmLoad, RejectLoad, SweepLoad, DirectLoad
<1>2. Elsewhere(r)
  <2> USE IntentsAssumption
  <2> USE DEF Elsewhere, Idle, Request, Pc
  <2>1. ASSUME NEW i \in Intents, NEW kind \in {"agent", "human"}, NEW k \in Keys \cup {None},
               ProposeLoad(r, i, kind, k)
        PROVE  Elsewhere(r)
    <3> DEFINE q == [Idle EXCEPT !.pc = "file", !.what = i, !.idem = k]
    <3>1. q \in Request /\ q.pc # "execute"
      OBVIOUS
    <3>2. QED
      BY <2>1, <3>1 DEF ProposeLoad
  <2>2. ASSUME NEW p \in Proposals, NEW h \in Humans, ConfirmLoad(r, p, h)
        PROVE  Elsewhere(r)
    <3>1. CASE p \in overdue
      <4> DEFINE q == [Idle EXCEPT !.pc = "lapse", !.token = p, !.who = h]
      <4>1. q \in Request /\ q.pc # "execute"
        OBVIOUS
      <4>2. QED
        BY <2>2, <3>1, <4>1 DEF ConfirmLoad
    <3>2. CASE p \notin overdue
      <4> DEFINE q == [Idle EXCEPT !.pc = "check", !.token = p, !.who = h]
      <4>1. q \in Request /\ q.pc # "execute"
        OBVIOUS
      <4>2. QED
        BY <2>2, <3>2, <4>1 DEF ConfirmLoad
    <3>3. QED
      BY <3>1, <3>2
  <2>3. ASSUME NEW p \in Proposals, NEW h \in Humans, RejectLoad(r, p, h)
        PROVE  Elsewhere(r)
    <3> DEFINE q == [Idle EXCEPT !.pc = "reject", !.token = p, !.who = h]
    <3>1. q \in Request /\ q.pc # "execute"
      OBVIOUS
    <3>2. QED
      BY <2>3, <3>1 DEF RejectLoad
  <2>4. CASE SweepLoad(r)
    <3> DEFINE q == [Idle EXCEPT !.pc = "sweep", !.batch = Lapsed]
    <3>1. q \in Request /\ q.pc # "execute"
      BY DEF Typed, TypeOK, Lapsed
    <3>2. QED
      BY <2>4, <3>1 DEF SweepLoad
  <2>5. ASSUME NEW w \in WorkOrders, NEW s \in Status, DirectLoad(r, w, s)
        PROVE  Elsewhere(r)
    <3> DEFINE q == [Idle EXCEPT !.pc = "direct", !.wo = w, !.to = s]
    <3>1. q \in Request /\ q.pc # "execute"
      OBVIOUS
    <3>2. QED
      BY <2>5, <3>1 DEF DirectLoad
  <2>6. QED
    BY <2>1, <2>2, <2>3, <2>4, <2>5 DEF Begin
<1>3. NoNewExecution
  BY <1>1, <1>2 DEF Elsewhere, NoNewExecution, Typed, TypeOK, ledger
<1>4. QED
  BY <1>1, <1>3, QuietStepKeepsLocked DEF database

\* A finished request is not executing.
LEMMA FinishStartsNothing ==
  ASSUME Typed, NEW r \in Requests, Finish(r), UNCHANGED intent
  PROVE  NoNewExecution
  BY DEF NoNewExecution, Finish, Idle, Typed, TypeOK

LEMMA ConfirmCheckKeepsLocked ==
  ASSUME Typed, Locked, NEW r \in Requests, ConfirmCheck(r)
  PROVE  Locked'
<1> DEFINE i == intent[req[r].token]
<1>0. i \in Intents
  BY DEF ConfirmCheck, Typed, WellFormed, Resolving
<1>1. CASE MarkStale(r)
  <2>1. NoNewExecution
    BY <1>1, FinishStartsNothing DEF MarkStale
  <2>2. QED
    BY <1>1, <2>1, QuietStepKeepsLocked DEF MarkStale, database
<1>2. CASE /\ Applicable(i)
           /\ req' = [req EXCEPT ![r].pc = "execute"]
           /\ UNCHANGED <<ledger, overdue, database>>
  <2>1. \A s \in Requests : req'[s].token = req[s].token
                            /\ (req'[s].pc = "execute" <=> s = r \/ req[s].pc = "execute")
    BY <1>2 DEF Typed, TypeOK, Request
  <2>2. LockedPremise'
    <3> SUFFICES ASSUME NEW s \in Requests, req'[s].pc = "execute"
                 PROVE  Secured(intent[req[s].token])'
      BY DEF LockedPremise
    <3>1. s = r => Secured(intent[req[s].token])
      BY <1>2 DEF Applicable
    <3>2. s # r => Secured(intent[req[s].token])
      BY <2>1 DEF Locked, LockedPremise
    <3>3. Secured(intent[req[s].token])
      BY <3>1, <3>2
    <3>4. UNCHANGED <<wo, live, codeActive, binActive, itemBin>>
      BY <1>2 DEF database
    <3>5. intent'[req'[s].token] = intent[req[s].token]
      BY <1>2, <2>1 DEF ledger
    <3>6. QED
      BY <3>3, <3>4, <3>5 DEF Secured, MayTransition, ReasonUsable, BinUsable
  <2>3. ASSUME NEW s \in Requests, s # r, req[s].pc = "execute"
        PROVE  ~SameTarget(i, intent[req[s].token]) /\ ~SameTarget(intent[req[s].token], i)
    <3>1. intent[req[s].token] \in Intents /\ Executing(intent[req[s].token])
      BY <2>3 DEF Executing, Typed, WellFormed, Resolving
    <3>2. ~SameTarget(i, intent[req[s].token])
      BY <3>1 DEF ConfirmCheck, TargetLocked
    <3>3. QED
      BY <3>2, SameTargetIsSymmetric
  <2>4. TargetsExclusive'
    <3> SUFFICES ASSUME NEW s \in Requests, NEW t \in Requests, s # t,
                        req'[s].pc = "execute", req'[t].pc = "execute"
                 PROVE  ~SameTarget(intent[req[s].token], intent[req[t].token])
      BY <1>2, <2>1 DEF TargetsExclusive, ledger, SameTarget
    <3>1. CASE s = r
      BY <2>1, <2>3, <3>1
    <3>2. CASE t = r
      BY <2>1, <2>3, <3>2
    <3>3. CASE s # r /\ t # r
      BY <2>1, <3>3 DEF Locked, TargetsExclusive
    <3>4. QED
      BY <3>1, <3>2, <3>3
  <2>5. QED
    BY <2>2, <2>4 DEF Locked
<1>3. QED
  BY <1>1, <1>2 DEF ConfirmCheck

\* The edit or the transition a confirm carries out disturbs no other confirm.
LEMMA ExecuteKeepsLocked ==
  ASSUME Typed, Locked, NEW r \in Requests, ExecuteTransition(r) \/ ExecuteEdit(r)
  PROVE  Locked'
<1> DEFINE j == intent[req[r].token]
<1>1. NoNewExecution
  BY FinishStartsNothing DEF ExecuteTransition, ExecuteEdit, Resolve
<1>2. ASSUME NEW s \in Requests, NEW i \in Intents, req'[s].pc = "execute",
             req[s].pc = "execute", i = intent[req[s].token], Premise(i)
      PROVE  Premise(i)'
  <2>1. s # r
    BY <1>2 DEF ExecuteTransition, ExecuteEdit, Resolve, Finish, Idle, Typed, TypeOK
  <2>2. ~SameTarget(j, i)
    BY <1>2, <2>1 DEF Locked, TargetsExclusive, ExecuteTransition, ExecuteEdit
  <2>3. CASE ExecuteTransition(r)
    <3>1. UNCHANGED <<live, codeActive, binActive, itemBin>>
      BY <2>3 DEF ExecuteTransition
    <3>2. i.op \in {"close_work_order", "void_work_order"} => wo'[i.wo] = wo[i.wo]
      BY <2>2, <2>3, IntentOps DEF ExecuteTransition, SameTarget, Typed, TypeOK
    <3>3. QED
      BY <1>2, <3>1, <3>2 DEF Premise, MayTransition, ReasonUsable, BinUsable
  <2>4. CASE ExecuteEdit(r)
    <3>1. UNCHANGED <<wo, live, codeActive, binActive>>
      BY <2>4 DEF ExecuteEdit
    <3>2. i.op = "update_item" => itemBin'[i.item] = itemBin[i.item]
      BY <2>2, <2>4 DEF ExecuteEdit, SameTarget, Typed, TypeOK
    <3>3. QED
      BY <1>2, <3>1, <3>2 DEF Premise, MayTransition, ReasonUsable, BinUsable
  <2>5. QED
    BY <2>3, <2>4
<1>3. QED
  BY <1>1, <1>2, NoNewExecutionKeepsLocked

LEMMA ProceedKeepsLocked ==
  ASSUME Typed, Locked, NEW r \in Requests, Proceed(r)
  PROVE  Locked'
<1>1. CASE \/ ProposeReturn(r) \/ ConfirmLapse(r) \/ ConfirmRecheck(r) \/ ExecuteOpen(r)
           \/ RejectCommit(r) \/ SweepCommit(r)
  <2>1. Finish(r) /\ UNCHANGED <<intent, database>>
    BY <1>1 DEF ProposeReturn, ConfirmLapse, ConfirmRecheck, ExecuteOpen, RejectCommit,
                SweepCommit, MarkStale, Resolve, ledger
  <2>2. QED
    BY <2>1, FinishStartsNothing, QuietStepKeepsLocked DEF database
<1>2. ASSUME NEW p \in Proposals, ProposeInsert(r, p)
      PROVE  Locked'
  <2>1. NoNewExecution
    BY <1>2 DEF ProposeInsert, NoNewExecution, Finish, Idle, Typed, TypeOK, WellFormed, Resolving
  <2>2. QED
    BY <1>2, <2>1, QuietStepKeepsLocked DEF ProposeInsert, database
<1>3. CASE ConfirmCheck(r)
  BY <1>3, ConfirmCheckKeepsLocked
<1>4. CASE ExecuteTransition(r) \/ ExecuteEdit(r)
  BY <1>4, ExecuteKeepsLocked
<1>5. CASE ExecuteEditFails(r)
  <2>1. NoNewExecution
    BY <1>5 DEF ExecuteEditFails, NoNewExecution, Finish, Idle, ledger, Typed, TypeOK, Request
  <2>2. QED
    BY <1>5, <2>1, QuietStepKeepsLocked DEF ExecuteEditFails, database
<1>6. CASE DirectCommit(r)
  <2>1. NoNewExecution
    BY <1>6, FinishStartsNothing DEF DirectCommit, ledger
  <2>2. ASSUME NEW s \in Requests, NEW i \in Intents, req[s].pc = "execute",
               i = intent[req[s].token], Premise(i)
        PROVE  Premise(i)'
    <3>1. Executing(i)
      BY <2>2 DEF Executing
    <3>2. i.op \in {"close_work_order", "void_work_order"} => wo'[i.wo] = wo[i.wo]
      BY <1>6, <3>1, IntentOps DEF DirectCommit, WorkOrderLocked, Typed, TypeOK
    <3>3. QED
      BY <1>6, <2>2, <3>2 DEF DirectCommit, Premise, MayTransition, ReasonUsable, BinUsable
  <2>3. QED
    BY <2>1, <2>2, NoNewExecutionKeepsLocked
<1>7. QED
  BY <1>1, <1>2, <1>3, <1>4, <1>5, <1>6 DEF Proceed

\* The writers without a proposal wait for the locks they meet.
LEMMA SurroundingsKeepLocked ==
  ASSUME Typed, Locked, Surroundings
  PROVE  Locked'
<1>1. NoNewExecution
  BY DEF Surroundings, SetAssetActive, RetireCode, SetBinActive, MoveItem, RenameOrganization,
         ForgetSupplier, SetAdmin, TimePasses, NoNewExecution, ledger
<1>2. ASSUME NEW s \in Requests, NEW i \in Intents, req[s].pc = "execute",
             i = intent[req[s].token], Premise(i)
      PROVE  Premise(i)'
  <2>0. Executing(i)
    BY <1>2 DEF Executing
  <2> USE DEF Premise, MayTransition, ReasonUsable, BinUsable
  <2>1. ASSUME NEW a \in Assets, SetAssetActive(a) PROVE Premise(i)'
    BY <1>2, <2>0, <2>1 DEF SetAssetActive, AssetLocked
  <2>2. ASSUME NEW c \in Codes, RetireCode(c) PROVE Premise(i)'
    BY <1>2, <2>0, <2>2 DEF RetireCode, CodeLocked
  <2>3. ASSUME NEW b \in Bins, SetBinActive(b) PROVE Premise(i)'
    BY <1>2, <2>0, <2>3 DEF SetBinActive, BinLocked
  <2>4. ASSUME NEW x \in Items, NEW b \in Bins \cup {None}, MoveItem(x, b) PROVE Premise(i)'
    <3>1. i.op = "update_item" => itemBin'[i.item] = itemBin[i.item]
      BY <2>0, <2>4 DEF MoveItem, ItemLocked, Typed, TypeOK
    <3>2. QED
      BY <1>2, <2>4, <3>1 DEF MoveItem
  <2>5. ASSUME NEW t \in Suppliers, RenameOrganization(t) PROVE Premise(i)'
    BY <1>2, <2>5 DEF RenameOrganization
  <2>6. ASSUME NEW t \in Suppliers, ForgetSupplier(t) PROVE Premise(i)'
    BY <1>2, <2>6 DEF ForgetSupplier
  <2>7. ASSUME NEW h \in Humans, SetAdmin(h) PROVE Premise(i)'
    BY <1>2, <2>7 DEF SetAdmin
  <2>8. ASSUME NEW p \in Proposals, TimePasses(p) PROVE Premise(i)'
    BY <1>2, <2>8 DEF TimePasses, database
  <2>9. QED
    BY <2>1, <2>2, <2>3, <2>4, <2>5, <2>6, <2>7, <2>8 DEF Surroundings
<1>3. QED
  BY <1>1, <1>2, NoNewExecutionKeepsLocked

LEMMA NextKeepsLocked == Typed /\ Locked /\ [Next]_vars => Locked'
<1> SUFFICES ASSUME Typed, Locked, [Next]_vars PROVE Locked'
  OBVIOUS
<1>1. CASE Surroundings
  BY <1>1, SurroundingsKeepLocked
<1>2. ASSUME NEW r \in Requests, Begin(r) PROVE Locked'
  BY <1>2, BeginKeepsLocked
<1>3. ASSUME NEW r \in Requests, Proceed(r) PROVE Locked'
  BY <1>3, ProceedKeepsLocked
<1>4. CASE UNCHANGED vars
  <2>1. NoNewExecution
    BY <1>4 DEF vars, ledger, NoNewExecution
  <2>2. QED
    BY <1>4, <2>1, QuietStepKeepsLocked DEF vars, database
<1>5. QED
  BY <1>1, <1>2, <1>3, <1>4 DEF Next

LEMMA SpecKeepsLocked == Spec => [](Typed /\ Locked)
  BY InitTyped, InitLocked, NextKeepsTyped, NextKeepsLocked, PTL DEF Spec

\* What a confirm locked stays as it found it until its transaction ends.
THEOREM PremiseStaysLocked == Spec => []LockedPremise
<1>1. Typed /\ Locked => LockedPremise
  BY DEF Locked
<1>2. QED
  BY <1>1, SpecKeepsLocked, PTL

-----------------------------------------------------------------------------
(***************************************************************************)
(* What the locks are for: at the step that carries a proposal out, its    *)
(* premise holds of the rows as they are then.                             *)
(***************************************************************************)
\* Only an execution raises executed[p], and it is that of the request's proposal.
LEMMA ExecutionsArePremised ==
  ASSUME Typed, Locked, [Next]_vars, NEW p \in Proposals, Executes(p)
  PROVE  /\ intent[p] \in Intents
         /\ Premise(intent[p])
         /\ \E r \in Requests :
              /\ req[r].token = p
              /\ ExecuteTransition(r) \/ ExecuteOpen(r) \/ ExecuteEdit(r)
<1>1. PICK r \in Requests : Proceed(r)
  <2>1. CASE Surroundings
    BY <2>1 DEF Executes, Surroundings, SetAssetActive, RetireCode, SetBinActive, MoveItem,
                RenameOrganization, ForgetSupplier, SetAdmin, TimePasses, ledger
  <2>2. ASSUME NEW r \in Requests, Begin(r) PROVE FALSE
    BY <2>2 DEF Executes, Begin, ProposeLoad, ConfirmLoad, RejectLoad, SweepLoad, DirectLoad,
                ledger
  <2>3. CASE UNCHANGED vars
    BY <2>3 DEF Executes, vars, ledger
  <2>4. QED
    BY <2>1, <2>2, <2>3 DEF Next
<1>2. ExecuteTransition(r) \/ ExecuteOpen(r) \/ ExecuteEdit(r)
  BY <1>1 DEF Executes, Proceed, ProposeReturn, ProposeInsert, ConfirmLapse, ConfirmCheck,
              ConfirmRecheck, ExecuteEditFails, RejectCommit, SweepCommit, DirectCommit,
              MarkStale, ledger
<1>3. req[r].pc = "execute" /\ Resolve(r)
  BY <1>2 DEF ExecuteTransition, ExecuteOpen, ExecuteEdit
<1>4. req[r].token = p
  BY <1>3 DEF Executes, Resolve, Typed, TypeOK
<1>5. intent[p] \in Intents
  BY <1>3, <1>4 DEF Typed, WellFormed, Resolving
<1>6. Secured(intent[p])
  BY <1>3, <1>4 DEF Locked, LockedPremise
<1>7. Premise(intent[p])
  <2>1. PICK i \in Intents : i = intent[p]
    BY <1>5
  <2>2. QED
    BY <1>6, <2>1, SecuredIsPremise
<1>8. QED
  BY <1>2, <1>4, <1>5, <1>7

\* A gated close or void is legal from the status at its commit.
THEOREM GatedTransitionsAreLegal == Spec => GatedTransitionLegal
<1> DEFINE Legal == \A p \in Proposals :
                      Executes(p) /\ intent[p].op \in {"close_work_order", "void_work_order"}
                        => LET w == intent[p].wo IN wo'[w] \in Allowed[wo[w]]
<1>1. ASSUME Typed, Locked, [Next]_vars PROVE Legal
  <2> SUFFICES ASSUME NEW p \in Proposals, Executes(p),
                      intent[p].op \in {"close_work_order", "void_work_order"}
               PROVE  wo'[intent[p].wo] \in Allowed[wo[intent[p].wo]]
    OBVIOUS
  <2> DEFINE i == intent[p]
  <2>1. PICK r \in Requests : /\ req[r].token = p
                              /\ ExecuteTransition(r) \/ ExecuteOpen(r) \/ ExecuteEdit(r)
    BY <1>1, ExecutionsArePremised
  <2>2. i \in Intents /\ MayTransition(i)
    BY <1>1, ExecutionsArePremised DEF Premise
  <2>3. ExecuteTransition(r)
    BY <2>1 DEF ExecuteOpen, ExecuteEdit
  <2>4. i.wo \in WorkOrders
    BY <2>2, IntentsAssumption DEF AllIntents, OpenIntents, CloseIntents, VoidIntents, EditIntents
  <2>5. wo'[i.wo] = Target[i.op]
    BY <1>1, <2>1, <2>3, <2>4 DEF ExecuteTransition, Typed, TypeOK
  <2>6. QED
    BY <2>2, <2>5 DEF MayTransition
<1>2. QED
  BY <1>1, SpecKeepsLocked, PTL DEF Spec, GatedTransitionLegal

\* No confirmed open puts a REACTIVE work order on a retired asset.
THEOREM GatedOpensAreOnLiveAssets == Spec => GatedOpenOnLiveAsset
<1> DEFINE Good == \A p \in Proposals :
                     Executes(p) /\ intent[p].op = "open_work_order" /\ intent[p].type = "REACTIVE"
                       => intent[p].asset \in live'
<1>1. ASSUME Typed, Locked, [Next]_vars PROVE Good
  <2>0. SUFFICES ASSUME NEW p \in Proposals, Executes(p),
                        intent[p].op = "open_work_order" /\ intent[p].type = "REACTIVE"
                 PROVE  intent[p].asset \in live'
    OBVIOUS
  <2>1. intent[p].asset \in live
    BY <1>1, <2>0, ExecutionsArePremised DEF Premise
  <2>2. UNCHANGED live
    BY <1>1, <2>0, ExecutionsArePremised DEF ExecuteTransition, ExecuteOpen, ExecuteEdit, database
  <2>3. QED
    BY <2>1, <2>2
<1>2. QED
  BY <1>1, SpecKeepsLocked, PTL DEF Spec, GatedOpenOnLiveAsset

\* No confirmed close records a retired failure code.
THEOREM GatedClosesAreActive == Spec => GatedCloseReasonActive
<1> DEFINE Good == \A p \in Proposals :
                     Executes(p) /\ intent[p].op = "close_work_order" /\ intent[p].code # None
                       => intent[p].code \in codeActive'
<1>1. ASSUME Typed, Locked, [Next]_vars PROVE Good
  <2>0. SUFFICES ASSUME NEW p \in Proposals, Executes(p),
                        intent[p].op = "close_work_order" /\ intent[p].code # None
                 PROVE  intent[p].code \in codeActive'
    OBVIOUS
  <2>1. intent[p].code \in codeActive
    BY <1>1, <2>0, ExecutionsArePremised DEF Premise, ReasonUsable
  <2>2. UNCHANGED codeActive
    BY <1>1, <2>0, ExecutionsArePremised DEF ExecuteTransition, ExecuteOpen, ExecuteEdit, database
  <2>3. QED
    BY <2>1, <2>2
<1>2. QED
  BY <1>1, SpecKeepsLocked, PTL DEF Spec, GatedCloseReasonActive

\* A confirmed edit is valid against the rows at its commit, those that confirm
\* does not lock included: the second validation of _update_item_impl.
THEOREM GatedEditsAreValid == Spec => GatedEditValid
<1> DEFINE Good == \A p \in Proposals :
                     Executes(p) /\ intent[p].op = "update_item"
                       => LET i == intent[p] IN
                          /\ itemBin'[i.item] \in binActive' \cup {None, itemBin[i.item]}
                          /\ i.supplier # None => known'[i.supplier] # "nowhere"
<1>1. ASSUME Typed, Locked, [Next]_vars PROVE Good
  <2> SUFFICES ASSUME NEW p \in Proposals, Executes(p), intent[p].op = "update_item"
               PROVE  /\ itemBin'[intent[p].item] \in binActive' \cup {None, itemBin[intent[p].item]}
                      /\ intent[p].supplier # None => known'[intent[p].supplier] # "nowhere"
    OBVIOUS
  <2> DEFINE i == intent[p]
  <2>1. PICK r \in Requests : /\ req[r].token = p
                              /\ ExecuteTransition(r) \/ ExecuteOpen(r) \/ ExecuteEdit(r)
    BY <1>1, ExecutionsArePremised
  <2>2. i \in Intents
    BY <1>1, ExecutionsArePremised
  <2>3. ExecuteEdit(r)
    BY <2>1, <2>2, IntentOps DEF ExecuteTransition, ExecuteOpen
  <2>4. i.item \in Items
    BY <2>2, EditsAreEdits DEF EditIntents
  <2>5. /\ BinUsable(i) /\ SupplierKnown(i)
        /\ itemBin' = [itemBin EXCEPT ![i.item] = i.bin]
        /\ UNCHANGED <<binActive, known>>
    BY <2>1, <2>3 DEF ExecuteEdit
  <2>6. itemBin'[i.item] = i.bin
    BY <1>1, <2>4, <2>5 DEF Typed, TypeOK
  <2>7. QED
    BY <2>5, <2>6 DEF BinUsable, SupplierKnown
<1>2. QED
  BY <1>1, SpecKeepsLocked, PTL DEF Spec, GatedEditValid

\* Whatever a confirm carries out is valid at its own commit.
THEOREM ConfirmsStayValid == Spec => ConfirmsAreValid
  BY GatedTransitionsAreLegal, GatedOpensAreOnLiveAssets, GatedClosesAreActive, GatedEditsAreValid
     DEF ConfirmsAreValid

-----------------------------------------------------------------------------
(***************************************************************************)
(* Why a proposal ended.  What a request read of the expiry stays true,    *)
(* because an expiry that has passed does not come back.                   *)
(***************************************************************************)
DueAsRead ==
  \A r \in Requests :
    /\ req[r].pc = "lapse" => req[r].token \in overdue
    /\ req[r].pc = "sweep" => req[r].batch \subseteq overdue

\* What a request that begins has read of the ledger.
LEMMA WhatBeginReads ==
  ASSUME Typed, NEW r \in Requests, Begin(r)
  PROVE  /\ req'[r].pc \in Resolving => status[req'[r].token] = "PENDING"
         /\ req'[r].pc = "lapse" => req'[r].token \in overdue
         /\ req'[r].pc = "sweep" => req'[r].batch = Lapsed
         /\ req'[r].pc = "file" => ~AlreadyPending(req'[r].what)
<1> USE DEF Typed, TypeOK, Idle, Resolving
<1>1. ASSUME NEW i \in Intents, NEW kind \in {"agent", "human"}, NEW k \in Keys \cup {None},
             ProposeLoad(r, i, kind, k)
      PROVE  req'[r].pc = "file" /\ ~AlreadyPending(req'[r].what)
  BY <1>1 DEF ProposeLoad
<1>2. ASSUME NEW p \in Proposals, NEW h \in Humans, ConfirmLoad(r, p, h)
      PROVE  /\ req'[r].pc \in {"lapse", "check"}
             /\ req'[r].token = p
             /\ status[p] = "PENDING"
             /\ req'[r].pc = "lapse" => p \in overdue
  BY <1>2 DEF ConfirmLoad
<1>3. ASSUME NEW p \in Proposals, NEW h \in Humans, RejectLoad(r, p, h)
      PROVE  req'[r].pc = "reject" /\ req'[r].token = p /\ status[p] = "PENDING"
  BY <1>3 DEF RejectLoad
<1>4. CASE SweepLoad(r)
  <2>1. req'[r].pc = "sweep" /\ req'[r].batch = Lapsed
    BY <1>4 DEF SweepLoad
  <2>2. QED
    BY <2>1
<1>5. ASSUME NEW w \in WorkOrders, NEW s \in Status, DirectLoad(r, w, s)
      PROVE  req'[r].pc = "direct"
  BY <1>5 DEF DirectLoad
<1>6. CASE \E i \in Intents, kind \in {"agent", "human"}, k \in Keys \cup {None} :
             ProposeLoad(r, i, kind, k)
  BY <1>1, <1>6
<1>7. CASE \E p \in Proposals, h \in Humans : ConfirmLoad(r, p, h)
  BY <1>2, <1>7
<1>8. CASE \E p \in Proposals, h \in Humans : RejectLoad(r, p, h)
  BY <1>3, <1>8
<1>9. CASE \E w \in WorkOrders, s \in Status : DirectLoad(r, w, s)
  BY <1>5, <1>9
<1>10. QED
  BY <1>4, <1>6, <1>7, <1>8, <1>9 DEF Begin

LEMMA BeginKeepsDueAsRead ==
  ASSUME Typed, DueAsRead, NEW r \in Requests, Begin(r)
  PROVE  DueAsRead'
<1> SUFFICES ASSUME NEW s \in Requests
             PROVE  /\ req'[s].pc = "lapse" => req'[s].token \in overdue'
                    /\ req'[s].pc = "sweep" => req'[s].batch \subseteq overdue'
  BY DEF DueAsRead
<1>1. UNCHANGED overdue
  BY DEF Begin, ProposeLoad, ConfirmLoad, RejectLoad, SweepLoad, DirectLoad
<1>2. CASE s # r
  <2>1. req'[s] = req[s]
    BY <1>2 DEF Begin, ProposeLoad, ConfirmLoad, RejectLoad, SweepLoad, DirectLoad, Typed, TypeOK
  <2>2. QED
    BY <1>1, <2>1 DEF DueAsRead
<1>3. CASE s = r
  <2>1. Lapsed \subseteq overdue
    BY DEF Lapsed
  <2>2. QED
    BY <1>1, <1>3, <2>1, WhatBeginReads
<1>4. QED
  BY <1>2, <1>3

\* A request that goes on neither loads an expiry nor finds one again.
LEMMA ProceedLoadsNothing ==
  ASSUME Typed, NEW r \in Requests, Proceed(r), NEW s \in Requests
  PROVE  req'[s] = req[s] \/ req'[s].pc \in {"idle", "execute", "recheck"}
<1> USE DEF Typed, TypeOK, Idle, Request, Finish
<1>1. CASE \/ ProposeReturn(r) \/ ConfirmLapse(r) \/ ConfirmRecheck(r) \/ RejectCommit(r)
           \/ SweepCommit(r) \/ DirectCommit(r) \/ \E p \in Proposals : ProposeInsert(r, p)
  <2>1. Finish(r)
    BY <1>1 DEF ProposeReturn, ConfirmLapse, ConfirmRecheck, MarkStale, RejectCommit, SweepCommit,
                DirectCommit, ProposeInsert
  <2>2. QED
    BY <2>1
<1>2. CASE ConfirmCheck(r)
  BY <1>2 DEF ConfirmCheck, MarkStale
<1>3. CASE ExecuteTransition(r) \/ ExecuteOpen(r) \/ ExecuteEdit(r)
  <2>1. Finish(r)
    BY <1>3 DEF ExecuteTransition, ExecuteOpen, ExecuteEdit, Resolve
  <2>2. QED
    BY <2>1
<1>4. CASE ExecuteEditFails(r)
  BY <1>4 DEF ExecuteEditFails
<1>5. QED
  BY <1>1, <1>2, <1>3, <1>4 DEF Proceed

LEMMA NextKeepsDueAsRead == Typed /\ DueAsRead /\ [Next]_vars => DueAsRead'
<1> SUFFICES ASSUME Typed, DueAsRead, [Next]_vars PROVE DueAsRead'
  OBVIOUS
<1>1. CASE Surroundings \/ UNCHANGED vars
  <2>1. UNCHANGED req /\ overdue \subseteq overdue'
    BY <1>1 DEF Surroundings, SetAssetActive, RetireCode, SetBinActive, MoveItem,
                RenameOrganization, ForgetSupplier, SetAdmin, TimePasses, vars
  <2>2. QED
    BY <2>1 DEF DueAsRead
<1>2. ASSUME NEW r \in Requests, Begin(r) PROVE DueAsRead'
  BY <1>2, BeginKeepsDueAsRead
<1>3. ASSUME NEW r \in Requests, Proceed(r) PROVE DueAsRead'
  <2>1. UNCHANGED overdue
    BY <1>3 DEF Proceed, ProposeReturn, ProposeInsert, ConfirmLapse, ConfirmCheck, ConfirmRecheck,
                MarkStale, ExecuteTransition, ExecuteOpen, ExecuteEdit, Resolve, ExecuteEditFails,
                RejectCommit, SweepCommit, DirectCommit
  <2>2. QED
    BY <1>3, <2>1, ProceedLoadsNothing DEF DueAsRead
<1>4. QED
  BY <1>1, <1>2, <1>3 DEF Next

\* What a step may do to the standing of one proposal.
Standing(p) == <<status[p], resolver[p], executed[p]>>

LEMMA StandingMoves ==
  ASSUME Typed, DueAsRead, [Next]_vars, NEW p \in Proposals
  PROVE  \/ UNCHANGED Standing(p)
         \/ status'[p] \in {"PENDING", "REJECTED"}
         \/ status'[p] = "EXPIRED" /\ (p \in overdue \/ resolver'[p] # None)
         \/ status'[p] = "CONFIRMED" /\ executed'[p] = executed[p] + 1 /\ resolver'[p] # None
<1> DEFINE Moves ==
             \/ UNCHANGED Standing(p)
             \/ status'[p] \in {"PENDING", "REJECTED"}
             \/ status'[p] = "EXPIRED" /\ (p \in overdue \/ resolver'[p] # None)
             \/ status'[p] = "CONFIRMED" /\ executed'[p] = executed[p] + 1 /\ resolver'[p] # None
<1> USE DEF Standing
<1>1. CASE Surroundings \/ UNCHANGED vars \/ \E r \in Requests : Begin(r)
  BY <1>1 DEF Surroundings, SetAssetActive, RetireCode, SetBinActive, MoveItem,
              RenameOrganization, ForgetSupplier, SetAdmin, TimePasses, vars, ledger,
              Begin, ProposeLoad, ConfirmLoad, RejectLoad, SweepLoad, DirectLoad
<1>2. SUFFICES ASSUME NEW r \in Requests, Proceed(r)
               PROVE  Moves
  BY <1>1 DEF Next
<1>3. CASE ProposeReturn(r) \/ ExecuteEditFails(r) \/ DirectCommit(r)
  BY <1>3 DEF ProposeReturn, ExecuteEditFails, DirectCommit, ledger
<1>4. ASSUME NEW q \in Proposals, ProposeInsert(r, q)
      PROVE  Moves
  BY <1>4 DEF ProposeInsert, Typed, TypeOK
<1>5. CASE ConfirmLapse(r)
  BY <1>5 DEF ConfirmLapse, DueAsRead, Typed, TypeOK
<1>6. CASE MarkStale(r) /\ req[r].pc \in Resolving
  <2>1. req[r].who # None /\ req[r].token \in Proposals
    BY <1>6, NoneAssumption DEF Typed, WellFormed
  <2>2. QED
    BY <1>6, <2>1 DEF MarkStale, Typed, TypeOK
<1>7. CASE ConfirmCheck(r) \/ ConfirmRecheck(r)
  BY <1>6, <1>7 DEF ConfirmCheck, ConfirmRecheck, Resolving, ledger
<1>8. CASE Resolve(r) /\ req[r].pc = "execute"
  <2>1. req[r].who # None /\ req[r].token \in Proposals
    BY <1>8, NoneAssumption DEF Typed, WellFormed, Resolving
  <2>2. QED
    BY <1>8, <2>1 DEF Resolve, Typed, TypeOK
<1>9. CASE ExecuteTransition(r) \/ ExecuteOpen(r) \/ ExecuteEdit(r)
  BY <1>8, <1>9 DEF ExecuteTransition, ExecuteOpen, ExecuteEdit
<1>10. CASE RejectCommit(r)
  BY <1>10 DEF RejectCommit, Typed, TypeOK
<1>11. CASE SweepCommit(r)
  BY <1>11 DEF SweepCommit, DueAsRead, Typed, TypeOK
<1> HIDE DEF Moves
<1>12. QED
  BY <1>2, <1>3, <1>4, <1>5, <1>7, <1>9, <1>10, <1>11 DEF Proceed

LEMMA OverdueStays == [Next]_vars => overdue \subseteq overdue'
  BY DEF Next, Surroundings, SetAssetActive, RetireCode, SetBinActive, MoveItem,
         RenameOrganization, ForgetSupplier, SetAdmin, TimePasses, vars, Begin, ProposeLoad,
         ConfirmLoad, RejectLoad, SweepLoad, DirectLoad, Proceed, ProposeReturn, ProposeInsert,
         ConfirmLapse, ConfirmCheck, ConfirmRecheck, MarkStale, ExecuteTransition, ExecuteOpen,
         ExecuteEdit, Resolve, ExecuteEditFails, RejectCommit, SweepCommit, DirectCommit

\* The status of a proposal and its confirmed_by say whether its expiry passed, its
\* premise failed or its operation was carried out, whichever requests race for it.
THEOREM ResolutionsTellWhy == Spec => []ResolutionTellsWhy
<1>1. Init => DueAsRead /\ ResolutionTellsWhy
  BY DEF Init, DueAsRead, ResolutionTellsWhy, Idle
<1>2. Typed /\ DueAsRead /\ ResolutionTellsWhy /\ [Next]_vars => ResolutionTellsWhy'
  <2>1. SUFFICES ASSUME Typed, DueAsRead, ResolutionTellsWhy, [Next]_vars, NEW p \in Proposals
                 PROVE  /\ status'[p] = "EXPIRED" /\ resolver'[p] = None => p \in overdue'
                        /\ status'[p] = "CONFIRMED" => executed'[p] > 0 /\ resolver'[p] # None
    BY DEF ResolutionTellsWhy
  <2>2. executed[p] \in Nat /\ overdue \subseteq overdue'
    BY <2>1, OverdueStays DEF Typed, TypeOK
  <2>3. CASE UNCHANGED Standing(p)
    BY <2>1, <2>2, <2>3 DEF Standing, ResolutionTellsWhy
  <2>4. QED
    BY <2>1, <2>2, <2>3, StandingMoves
<1>3. QED
  BY <1>1, <1>2, InitTyped, NextKeepsTyped, NextKeepsDueAsRead, PTL DEF Spec

-----------------------------------------------------------------------------
(***************************************************************************)
(* A server that runs one request at a time.  What a request read of the   *)
(* ledger then still holds at its commit: nobody else writes it.           *)
(***************************************************************************)
OneAtATime == \A r, s \in Requests : r = s

ReadStillHolds ==
  \A r \in Requests :
    /\ req[r].pc \in Resolving => status[req[r].token] = "PENDING"
    /\ req[r].pc = "sweep" => \A p \in req[r].batch : status[p] = "PENDING"
    /\ req[r].pc = "file" => ~AlreadyPending(req[r].what)

LEMMA NextKeepsReads ==
  ASSUME OneAtATime
  PROVE  Typed /\ ReadStillHolds /\ [Next]_vars => ReadStillHolds'
<1> SUFFICES ASSUME Typed, ReadStillHolds, [Next]_vars PROVE ReadStillHolds'
  OBVIOUS
<1>1. CASE Surroundings \/ UNCHANGED vars
  <2>1. UNCHANGED <<ledger, req>> /\ overdue \subseteq overdue'
    BY <1>1 DEF Surroundings, SetAssetActive, RetireCode, SetBinActive, MoveItem,
                RenameOrganization, ForgetSupplier, SetAdmin, TimePasses, vars
  <2>2. QED
    BY <2>1 DEF ReadStillHolds, AlreadyPending, SameSubject, ledger
<1>2. ASSUME NEW r \in Requests, Begin(r) PROVE ReadStillHolds'
  <2>1. UNCHANGED <<ledger, overdue>>
    BY <1>2 DEF Begin, ProposeLoad, ConfirmLoad, RejectLoad, SweepLoad, DirectLoad
  <2>2. /\ req'[r].pc \in Resolving => status[req'[r].token] = "PENDING"
        /\ req'[r].pc = "sweep" => \A p \in req'[r].batch : status[p] = "PENDING"
    <3>1. \A p \in Lapsed : status[p] = "PENDING"
      BY DEF Lapsed
    <3>2. QED
      BY <1>2, <3>1, WhatBeginReads
  <2>3. req'[r].pc = "file" => ~AlreadyPending(req'[r].what)
    BY <1>2, WhatBeginReads
  <2>4. req'[r].pc = "file" => ~AlreadyPending(req[r].what)'
    BY <2>1, <2>3 DEF AlreadyPending, SameSubject, ledger
  <2>5. QED
    BY <2>1, <2>2, <2>4, OneAtATime DEF ReadStillHolds, OneAtATime, ledger
<1>3. ASSUME NEW r \in Requests, Proceed(r) PROVE ReadStillHolds'
  <2>1. CASE req'[r].pc = "idle"
    BY <2>1 DEF ReadStillHolds, OneAtATime, Resolving
  <2>2. CASE req'[r].pc # "idle"
    <3>1. UNCHANGED ledger /\ req[r].pc \in Resolving /\ req'[r].pc \in Resolving
          /\ req'[r].token = req[r].token
      BY <1>3, <2>2 DEF Proceed, ProposeReturn, ProposeInsert, ConfirmLapse, ConfirmCheck,
                        ConfirmRecheck, MarkStale, ExecuteTransition, ExecuteOpen, ExecuteEdit,
                        Resolve, ExecuteEditFails, RejectCommit, SweepCommit, DirectCommit,
                        Finish, Idle, Request, Resolving, Typed, TypeOK
    <3>2. QED
      BY <3>1 DEF ReadStillHolds, OneAtATime, Resolving, ledger
  <2>3. QED
    BY <2>1, <2>2
<1>4. QED
  BY <1>1, <1>2, <1>3 DEF Next

LEMMA SpecKeepsReads == ASSUME OneAtATime PROVE Spec => [](Typed /\ ReadStillHolds)
<1>1. Init => ReadStillHolds
  BY DEF Init, ReadStillHolds, Idle, Resolving
<1>2. QED
  BY <1>1, InitTyped, NextKeepsTyped, NextKeepsReads, PTL DEF Spec

\* A step leaves the standing of every proposal, or it is one of these.
LEMMA LedgerMoves ==
  ASSUME [Next]_vars
  PROVE  \/ UNCHANGED ledger
         \/ \E r \in Requests :
              \/ \E p \in Proposals : ProposeInsert(r, p)
              \/ ConfirmLapse(r)
              \/ req[r].pc \in Resolving /\ MarkStale(r)
              \/ req[r].pc = "execute" /\ Resolve(r)
              \/ RejectCommit(r) \/ SweepCommit(r)
<1>1. CASE Surroundings \/ UNCHANGED vars \/ \E r \in Requests : Begin(r)
  BY <1>1 DEF Surroundings, SetAssetActive, RetireCode, SetBinActive, MoveItem,
              RenameOrganization, ForgetSupplier, SetAdmin, TimePasses, vars,
              Begin, ProposeLoad, ConfirmLoad, RejectLoad, SweepLoad, DirectLoad
<1>2. ASSUME NEW r \in Requests, Proceed(r)
      PROVE  \/ UNCHANGED ledger
             \/ \E p \in Proposals : ProposeInsert(r, p)
             \/ ConfirmLapse(r)
             \/ req[r].pc \in Resolving /\ MarkStale(r)
             \/ req[r].pc = "execute" /\ Resolve(r)
             \/ RejectCommit(r) \/ SweepCommit(r)
  BY <1>2 DEF Proceed, ProposeReturn, ConfirmCheck, ConfirmRecheck, ExecuteTransition, ExecuteOpen,
              ExecuteEdit, ExecuteEditFails, DirectCommit, Resolving
<1>3. QED
  BY <1>1, <1>2 DEF Next

\* One step of a serial server is one step of the ledger, or none.
LEMMA LedgerStep ==
  ASSUME Typed, ReadStillHolds, [Next]_vars
  PROVE  [Ledger!Next]_(Ledger!vars)
<1> USE DEF Typed, TypeOK
<1>1. CASE UNCHANGED ledger
  BY <1>1 DEF ledger, Ledger!vars
<1>2. ASSUME NEW r \in Requests, NEW p \in Proposals, ProposeInsert(r, p)
      PROVE  Ledger!File(p)
  BY <1>2 DEF ProposeInsert, Ledger!File
<1>3. ASSUME NEW r \in Requests, req[r].pc \in Resolving,
             status' = [status EXCEPT ![req[r].token] = "EXPIRED"], UNCHANGED executed
      PROVE  Ledger!Next
  <2>1. req[r].token \in Proposals /\ status[req[r].token] = "PENDING"
    BY <1>3 DEF WellFormed, ReadStillHolds
  <2>2. Ledger!Lapse({req[r].token})
    BY <1>3, <2>1 DEF Ledger!Lapse
  <2>3. {req[r].token} \in SUBSET Proposals
    BY <2>1
  <2>4. QED
    BY <2>2, <2>3 DEF Ledger!Next
<1>4. ASSUME NEW r \in Requests, ConfirmLapse(r) \/ (req[r].pc \in Resolving /\ MarkStale(r))
      PROVE  Ledger!Next
  BY <1>3, <1>4 DEF ConfirmLapse, MarkStale, Resolving
<1>5. ASSUME NEW r \in Requests, req[r].pc = "execute", Resolve(r)
      PROVE  req[r].token \in Proposals /\ Ledger!Confirm(req[r].token)
  BY <1>5 DEF Resolve, WellFormed, ReadStillHolds, Resolving, Ledger!Confirm
<1>6. ASSUME NEW r \in Requests, RejectCommit(r)
      PROVE  req[r].token \in Proposals /\ Ledger!Reject(req[r].token)
  BY <1>6 DEF RejectCommit, WellFormed, ReadStillHolds, Resolving, Ledger!Reject
<1>7. ASSUME NEW r \in Requests, SweepCommit(r)
      PROVE  Ledger!Lapse(req[r].batch) /\ req[r].batch \in SUBSET Proposals
  <2>1. Ledger!Lapse(req[r].batch)
    BY <1>7 DEF SweepCommit, ReadStillHolds, Ledger!Lapse
  <2>2. req[r] \in Request
    OBVIOUS
  <2>3. QED
    BY <2>1, <2>2 DEF Request
<1>8. QED
  BY <1>1, <1>2, <1>4, <1>5, <1>6, <1>7, LedgerMoves DEF Ledger!Next

\* A server that runs one request at a time implements the ledger of ADR-016: every
\* resolution is final, and an operation runs once, when its proposal is confirmed.
THEOREM SerialServerKeepsTheLedger == ASSUME OneAtATime PROVE Spec => LedgerSpec
<1>1. Init => Ledger!Init
  BY DEF Init, Ledger!Init
<1>2. QED
  BY <1>1, SpecKeepsReads, LedgerStep, PTL DEF Spec, LedgerSpec, Ledger!Spec

\* And its duplicate guard works: one live request per work order to void, and one
\* live edit per item.
THEOREM SubjectsHaveOnePending == ASSUME OneAtATime PROVE Spec => []OnePendingPerSubject
<1>1. Init => OnePendingPerSubject
  BY DEF Init, OnePendingPerSubject
<1>2. Typed /\ ReadStillHolds /\ OnePendingPerSubject /\ [Next]_vars => OnePendingPerSubject'
  <2> SUFFICES ASSUME Typed, ReadStillHolds, OnePendingPerSubject, [Next]_vars
               PROVE  OnePendingPerSubject'
    OBVIOUS
  <2>1. overdue \subseteq overdue'
    BY OverdueStays
  <2>2. CASE /\ UNCHANGED intent
             /\ \A p \in Proposals : status'[p] = "PENDING" => status[p] = "PENDING"
    BY <2>1, <2>2 DEF OnePendingPerSubject, SameSubject
  <2>3. ASSUME NEW r \in Requests, NEW n \in Proposals, ProposeInsert(r, n)
        PROVE  OnePendingPerSubject'
    <3>1. PICK i : i = req[r].what
      OBVIOUS
    <3>2. ~AlreadyPending(i) /\ UNCHANGED overdue
      BY <2>3, <3>1 DEF ProposeInsert, ReadStillHolds
    <3>3. /\ intent'[n] = i
          /\ \A p \in Proposals : p # n => intent'[p] = intent[p] /\ status'[p] = status[p]
      BY <2>3, <3>1 DEF ProposeInsert, Typed, TypeOK
    <3>4. \A p \in Proposals : status[p] = "PENDING" /\ p \notin overdue => ~SameSubject(intent[p], i)
      BY <3>2 DEF AlreadyPending
    <3>5. SUFFICES ASSUME NEW p \in Proposals, NEW q \in Proposals, p # q,
                          status'[p] = "PENDING", p \notin overdue',
                          status'[q] = "PENDING", q \notin overdue'
                   PROVE  ~SameSubject(intent'[p], intent'[q])
      BY DEF OnePendingPerSubject, SameSubject
    <3>6. CASE p # n /\ q # n
      BY <3>2, <3>3, <3>5, <3>6 DEF OnePendingPerSubject
    <3>7. CASE q = n
      BY <3>2, <3>3, <3>4, <3>5, <3>7
    <3>8. CASE p = n
      <4>1. ~SameSubject(intent[q], i)
        BY <3>2, <3>3, <3>4, <3>5, <3>8
      <4>2. QED
        BY <3>3, <3>5, <3>8, <4>1 DEF SameSubject
    <3>9. QED
      BY <3>6, <3>7, <3>8
  <2>4. ASSUME NEW r \in Requests,
               \/ ConfirmLapse(r)
               \/ req[r].pc \in Resolving /\ MarkStale(r)
               \/ req[r].pc = "execute" /\ Resolve(r)
               \/ RejectCommit(r) \/ SweepCommit(r)
        PROVE  OnePendingPerSubject'
    <3>1. UNCHANGED intent
      BY <2>4 DEF ConfirmLapse, MarkStale, Resolve, RejectCommit, SweepCommit
    <3>2. \A p \in Proposals : status'[p] = "PENDING" => status[p] = "PENDING"
      BY <2>4 DEF ConfirmLapse, MarkStale, Resolve, RejectCommit, SweepCommit, Typed, TypeOK
    <3>3. QED
      BY <2>2, <3>1, <3>2
  <2>5. CASE UNCHANGED ledger
    BY <2>2, <2>5 DEF ledger
  <2>6. QED
    BY <2>3, <2>4, <2>5, LedgerMoves
<1>3. QED
  BY <1>1, <1>2, InitTyped, SpecKeepsReads, PTL DEF Spec

=============================================================================
