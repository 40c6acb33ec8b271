--------------------------- MODULE PmCycleProofs ---------------------------
(***************************************************************************)
(* Theorems about PmCycle: what its schedules and numbers keep however     *)
(* requests race, what holds when they take turns, and the weekend rule.   *)
(***************************************************************************)
EXTENDS PmCycle, SequenceTheorems, TLAPS

\* What a request holds at each of its steps.
Steps ==
  \A r \in Requests :
    /\ req[r].pc \in {"number", "insert", "advance"} => req[r].pm \in Pms
    /\ req[r].pc \in {"close", "advance"} => req[r].no \in DOMAIN order
    /\ req[r].pc = "advance" => req[r].seen \in Pm

Inv == TypeOK /\ Steps /\ SoftLinkIsOwn

LEMMA InitInv == Init => Inv
<1> SUFFICES ASSUME Init PROVE Inv
  OBVIOUS
<1>1. TypeOK
  <2>1. [due : Dues, interval : Intervals, suppressed : {FALSE}, last : {None}] \subseteq Pm
    BY PmAssumption DEF Dues, Pm
  <2>2. pm \in [Pms -> Pm]
    BY <2>1 DEF Init
  <2>3. Idle \in Request
    BY DEF Idle, Request
  <2>4. inUse \in [Pms -> BOOLEAN] /\ order \in Seq(Order) /\ today \in Nat /\ req \in [Requests -> Request]
    BY <2>3, PmAssumption DEF Init
  <2>5. QED
    BY <2>2, <2>4 DEF TypeOK
<1>2. Steps
  BY DEF Init, Steps, Idle
<1>3. SoftLinkIsOwn
  BY DEF Init, SoftLinkIsOwn
<1>4. QED
  BY <1>1, <1>2, <1>3 DEF Inv

\* Where a request goes keeps the types.
LEMMA GoesTo ==
  ASSUME TypeOK, NEW r \in Requests, NEW q \in Request, req' = [req EXCEPT ![r] = q]
  PROVE  /\ req' \in [Requests -> Request]
         /\ req'[r] = q
         /\ \A x \in Requests \ {r} : req'[x] = req[x]
  BY DEF TypeOK

LEMMA FinishKeepsTypes ==
  ASSUME TypeOK, NEW r \in Requests, Finish(r)
  PROVE  /\ req' \in [Requests -> Request]
         /\ req'[r].pc = "idle"
         /\ \A x \in Requests \ {r} : req'[x] = req[x]
<1>1. Idle \in Request /\ Idle.pc = "idle"
  BY DEF Idle, Request
<1>2. QED
  BY <1>1 DEF Finish, TypeOK

LEMMA GoOnKeepsTypes ==
  ASSUME TypeOK, NEW r \in Requests, NEW todo \in SUBSET req[r].todo, GoOn(r, todo)
  PROVE  /\ req' \in [Requests -> Request]
         /\ req'[r].pc \in {"idle", "pick"}
         /\ \A x \in Requests \ {r} : req'[x] = req[x]
<1>1. todo \in SUBSET [pm : Pms, due : Nat \cup {None}]
  BY DEF TypeOK, Request
<1>2. CASE todo = {}
  BY <1>2, FinishKeepsTypes DEF GoOn
<1>3. CASE todo # {}
  <2> DEFINE q == [pc |-> "pick", todo |-> todo, sweep |-> req[r].sweep,
                   pm |-> None, no |-> 0, seen |-> None]
  <2>1. q \in Request /\ q.pc = "pick"
    BY <1>1 DEF TypeOK, Request
  <2>2. req' = [req EXCEPT ![r] = q]
    BY <1>3 DEF GoOn, Continue
  <2> HIDE DEF q
  <2>3. QED
    BY <2>1, <2>2, GoesTo
<1>4. QED
  BY <1>2, <1>3

LEMMA StartKeepsInv ==
  ASSUME Inv, NEW r \in Requests,
         SweepSelect(r) \/ \E p \in Pms : OnDemand(r, p)
  PROVE  Inv'
<1>1. PICK s \in BOOLEAN, todo \in SUBSET [pm : Pms, due : Nat \cup {None}] : Begin(r, s, todo)
  <2>1. CASE SweepSelect(r)
    <3> DEFINE all == {[pm |-> p, due |-> pm[p].due] : p \in {v \in Pms : Selectable(v, today)}}
    <3>1. all \subseteq [pm : Pms, due : Nat \cup {None}]
      BY DEF Inv, TypeOK, Pm
    <3>2. Limited(all) \subseteq all
      BY DEF Limited
    <3>3. Begin(r, TRUE, Limited(all))
      BY <2>1 DEF SweepSelect
    <3>4. QED
      BY <3>1, <3>2, <3>3
  <2>2. ASSUME NEW p \in Pms, OnDemand(r, p)
        PROVE  \E s \in BOOLEAN, todo \in SUBSET [pm : Pms, due : Nat \cup {None}] : Begin(r, s, todo)
    <3>1. {[pm |-> p, due |-> None]} \in SUBSET [pm : Pms, due : Nat \cup {None}]
      OBVIOUS
    <3>2. QED
      BY <2>2, <3>1 DEF OnDemand
  <2>3. QED
    BY <2>1, <2>2
<1> DEFINE q == [Idle EXCEPT !.pc = "pick", !.sweep = s, !.todo = todo]
<1>2. q \in Request /\ q.pc = "pick"
  BY DEF Idle, Request
<1>3. req' = [req EXCEPT ![r] = q]
  BY <1>1 DEF Begin
<1> HIDE DEF q
<1>4. UNCHANGED <<pm, inUse, order, today>>
  BY DEF SweepSelect, OnDemand
<1>5. QED
  BY <1>2, <1>3, <1>4 DEF Inv, TypeOK, Steps, SoftLinkIsOwn

\* A step that changes only the request, to a state with what Steps asks of it.
LEMMA RequestStepKeepsInv ==
  ASSUME Inv, NEW r \in Requests, req' \in [Requests -> Request],
         \A x \in Requests \ {r} : req'[x] = req[x],
         UNCHANGED <<pm, inUse, order, today>>,
         req'[r].pc \in {"number", "insert", "advance"} => req'[r].pm \in Pms,
         req'[r].pc \in {"close", "advance"} => req'[r].no \in DOMAIN order,
         req'[r].pc = "advance" => req'[r].seen \in Pm
  PROVE  Inv'
<1>1. TypeOK'
  BY DEF Inv, TypeOK
<1>2. Steps'
  BY DEF Inv, Steps
<1>3. SoftLinkIsOwn'
  BY DEF Inv, SoftLinkIsOwn
<1>4. QED
  BY <1>1, <1>2, <1>3 DEF Inv

\* A change of one row, to one with this soft link.
LEMMA RowKeepsTypes ==
  ASSUME TypeOK, NEW p \in Pms, NEW new \in Pm, pm' = [pm EXCEPT ![p] = new]
  PROVE  pm' \in [Pms -> Pm] /\ \A x \in Pms : pm'[x].last = IF x = p THEN new.last ELSE pm[x].last
  BY DEF TypeOK

LEMMA GenerateKeepsInv ==
  ASSUME Inv, NEW r \in Requests, Generate(r)
  PROVE  Inv'
<1>0. /\ TypeOK
      /\ req[r].todo \in SUBSET [pm : Pms, due : Nat \cup {None}]
      /\ req[r].pm \in Pms \cup {None}
      /\ Len(order) \in Nat
  BY DEF Inv, TypeOK, Request
<1>1. CASE Pick(r)
  <2>1. PICK x \in req[r].todo : /\ Continue(r, "number", req[r].todo \ {x}, x.pm, 0, None)
                                 /\ UNCHANGED <<pm, inUse, order, today>>
    BY <1>1 DEF Pick
  <2> DEFINE p == x.pm
             todo == req[r].todo \ {x}
  <2>2. p \in Pms /\ todo \in SUBSET [pm : Pms, due : Nat \cup {None}]
    BY <1>0
  <2>3. Continue(r, "number", todo, p, 0, None)
    BY <2>1
  <2> HIDE DEF p, todo
  <2> DEFINE q == [pc |-> "number", todo |-> todo, sweep |-> req[r].sweep,
                   pm |-> p, no |-> 0, seen |-> None]
  <2>4. q \in Request /\ q.pc = "number" /\ q.pm = p
    BY <1>0, <2>2 DEF TypeOK, Request
  <2>5. req' = [req EXCEPT ![r] = q]
    BY <2>3 DEF Continue
  <2> HIDE DEF q
  <2>6. /\ req' \in [Requests -> Request] /\ req'[r] = q
        /\ \A y \in Requests \ {r} : req'[y] = req[y]
    BY <1>0, <2>4, <2>5, GoesTo
  <2>7. QED
    BY <2>1, <2>2, <2>4, <2>6, RequestStepKeepsInv
<1>2. CASE PickNothing(r)
  <2>1. PICK x \in req[r].todo : GoOn(r, req[r].todo \ {x}) /\ UNCHANGED <<pm, inUse, order, today>>
    BY <1>2 DEF PickNothing
  <2>2. /\ req' \in [Requests -> Request] /\ req'[r].pc \in {"idle", "pick"}
        /\ \A y \in Requests \ {r} : req'[y] = req[y]
    BY <1>0, <2>1, GoOnKeepsTypes
  <2>3. QED
    BY <2>1, <2>2, RequestStepKeepsInv
<1>3. CASE TakeNumber(r)
  <2> DEFINE p == req[r].pm
             todo == req[r].todo
             n == Len(order) + 1
  <2>1. /\ Continue(r, "insert", todo, p, n, None)
        /\ UNCHANGED <<pm, inUse, order, today>>
        /\ p \in Pms
    BY <1>3 DEF TakeNumber, Inv, Steps
  <2>2. todo \in SUBSET [pm : Pms, due : Nat \cup {None}] /\ n \in Nat
    BY <1>0
  <2> HIDE DEF p, todo, n
  <2> DEFINE q == [pc |-> "insert", todo |-> todo, sweep |-> req[r].sweep,
                   pm |-> p, no |-> n, seen |-> None]
  <2>3. q \in Request /\ q.pc = "insert" /\ q.pm = p
    BY <1>0, <2>1, <2>2 DEF TypeOK, Request
  <2>4. req' = [req EXCEPT ![r] = q]
    BY <2>1 DEF Continue
  <2> HIDE DEF q
  <2>5. /\ req' \in [Requests -> Request] /\ req'[r] = q
        /\ \A y \in Requests \ {r} : req'[y] = req[y]
    BY <1>0, <2>3, <2>4, GoesTo
  <2>6. QED
    BY <2>1, <2>3, <2>5, RequestStepKeepsInv
<1>4. CASE Insert(r)
  <2> DEFINE new == [status |-> "OPEN", pm |-> req[r].pm]
             n == Len(order) + 1
  <2>1. /\ req[r].pm \in Pms /\ req[r].no = n
        /\ order' = Append(order, new)
        /\ pm' = [pm EXCEPT ![req[r].pm].last = n]
        /\ GoOn(r, req[r].todo)
        /\ UNCHANGED <<inUse, today>>
    BY <1>4 DEF Insert, Inv, Steps
  <2>2. /\ req' \in [Requests -> Request] /\ req'[r].pc \in {"idle", "pick"}
        /\ \A y \in Requests \ {r} : req'[y] = req[y]
    BY <1>0, <2>1, GoOnKeepsTypes
  <2>3. new \in Order /\ new.pm = req[r].pm
    BY <2>1 DEF Order, Status
  <2> HIDE DEF new
  <2>4. /\ order' \in Seq(Order) /\ DOMAIN order' = DOMAIN order \cup {n}
        /\ order'[n] = new /\ \A m \in DOMAIN order : order'[m] = order[m] /\ m # n
    BY <1>0, <2>1, <2>3 DEF TypeOK
  <2>5. pm[req[r].pm] \in Pm /\ n \in Nat
    BY <1>0, <2>1 DEF TypeOK
  <2> HIDE DEF n
  <2> DEFINE row == [pm[req[r].pm] EXCEPT !.last = n]
  <2>6. /\ pm' \in [Pms -> Pm]
        /\ \A p \in Pms : pm'[p].last = IF p = req[r].pm THEN n ELSE pm[p].last
    <3>1. row \in Pm /\ row.last = n
      BY <2>5 DEF Pm
    <3>2. pm' = [pm EXCEPT ![req[r].pm] = row]
      BY <2>1, Zenon
    <3> HIDE DEF row
    <3>3. QED
      BY <1>0, <2>1, <3>1, <3>2, RowKeepsTypes
  <2>7. TypeOK'
    BY <2>1, <2>2, <2>4, <2>6 DEF Inv, TypeOK
  <2>8. Steps'
    BY <2>2, <2>4 DEF Inv, Steps
  <2>9. SoftLinkIsOwn'
    BY <2>3, <2>4, <2>6 DEF Inv, SoftLinkIsOwn
  <2>10. QED
    BY <2>7, <2>8, <2>9 DEF Inv
<1>5. CASE InsertFails(r)
  <2>1. GoOn(r, req[r].todo) /\ UNCHANGED <<pm, inUse, order, today>>
    BY <1>5 DEF InsertFails
  <2>2. /\ req' \in [Requests -> Request] /\ req'[r].pc \in {"idle", "pick"}
        /\ \A y \in Requests \ {r} : req'[y] = req[y]
    BY <1>0, <2>1, GoOnKeepsTypes
  <2>3. QED
    BY <2>1, <2>2, RequestStepKeepsInv
<1>6. QED
  BY <1>1, <1>2, <1>3, <1>4, <1>5 DEF Generate

\* A change of the state of one work order.
LEMMA OrderStepKeepsInv ==
  ASSUME Inv, NEW n \in DOMAIN order, NEW to \in Status, order' = [order EXCEPT ![n].status = to]
  PROVE  /\ order' \in Seq(Order) /\ DOMAIN order' = DOMAIN order
         /\ \A m \in DOMAIN order : order'[m].pm = order[m].pm
         /\ order'[n].status = to
         /\ \A m \in DOMAIN order \ {n} : order'[m] = order[m]
<1>1. order \in [1..Len(order) -> Order] /\ Len(order) \in Nat
  BY DEF Inv, TypeOK
<1>2. [order[n] EXCEPT !.status = to] \in Order /\ [order[n] EXCEPT !.status = to].pm = order[n].pm
      /\ [order[n] EXCEPT !.status = to].status = to
  BY <1>1 DEF Order
<1> DEFINE new == [order[n] EXCEPT !.status = to]
<1>3. order' = [order EXCEPT ![n] = new]
  BY Zenon
<1> HIDE DEF new
<1>4. new \in Order /\ new.pm = order[n].pm /\ new.status = to
  BY <1>2 DEF new
<1>5. order' \in [1..Len(order) -> Order]
  BY <1>1, <1>3, <1>4
<1>6. QED
  BY <1>1, <1>3, <1>4, <1>5

LEMMA NextDueIsDate ==
  ASSUME Inv, NEW due \in Nat \cup {None}, NEW seen \in Pm
  PROVE  NextDue(due, seen) \in Nat \cup {None}
  BY DEF NextDue, Pm, Inv, TypeOK

LEMMA CloseKeepsInv ==
  ASSUME Inv, NEW r \in Requests, Close(r) \/ \E n \in DOMAIN order : CloseLoad(r, n)
  PROVE  Inv'
<1>0. TypeOK /\ order \in [1..Len(order) -> Order] /\ Len(order) \in Nat
  BY DEF Inv, TypeOK
<1>1. ASSUME NEW n \in DOMAIN order, CloseLoad(r, n) PROVE Inv'
  <2>1. Continue(r, "close", {}, None, n, None) /\ UNCHANGED <<pm, inUse, order, today>> /\ n \in Nat
    BY <1>0, <1>1 DEF CloseLoad
  <2> DEFINE q == [pc |-> "close", todo |-> {}, sweep |-> req[r].sweep,
                   pm |-> None, no |-> n, seen |-> None]
  <2>2. q \in Request /\ q.pc = "close" /\ q.no = n
    BY <1>0, <2>1 DEF TypeOK, Request
  <2>3. req' = [req EXCEPT ![r] = q]
    BY <2>1 DEF Continue
  <2> HIDE DEF q
  <2>4. /\ req' \in [Requests -> Request] /\ req'[r] = q
        /\ \A y \in Requests \ {r} : req'[y] = req[y]
    BY <1>0, <2>2, <2>3, GoesTo
  <2>5. QED
    BY <2>1, <2>2, <2>4, RequestStepKeepsInv
<1>2. CASE CloseLock(r)
  <2> DEFINE n == req[r].no
             p == order[n].pm
             seen == pm[p]
  <2>1. /\ Continue(r, "advance", {}, p, n, seen) /\ UNCHANGED <<pm, inUse, order, today>>
        /\ n \in DOMAIN order
    BY <1>2 DEF CloseLock, Inv, Steps
  <2>2. n \in Nat /\ p \in Pms /\ seen \in Pm
    BY <1>0, <2>1 DEF Order, TypeOK
  <2> HIDE DEF n, p, seen
  <2> DEFINE q == [pc |-> "advance", todo |-> {}, sweep |-> req[r].sweep,
                   pm |-> p, no |-> n, seen |-> seen]
  <2>3. q \in Request /\ q.pc = "advance" /\ q.no = n /\ q.pm = p /\ q.seen = seen
    BY <1>0, <2>2 DEF TypeOK, Request
  <2>4. req' = [req EXCEPT ![r] = q]
    BY <2>1 DEF Continue
  <2> HIDE DEF q
  <2>5. /\ req' \in [Requests -> Request] /\ req'[r] = q
        /\ \A y \in Requests \ {r} : req'[y] = req[y]
    BY <1>0, <2>3, <2>4, GoesTo
  <2>6. QED
    BY <2>1, <2>2, <2>3, <2>5, RequestStepKeepsInv
<1>3. CASE CloseCommit(r)
  <2>1. /\ req[r].pm \in Pms /\ req[r].no \in DOMAIN order /\ req[r].seen \in Pm
        /\ order' = [order EXCEPT ![req[r].no].status = "CLOSED"]
        /\ pm' = [pm EXCEPT ![req[r].pm].due = NextDue(@, req[r].seen)]
        /\ Finish(r)
        /\ UNCHANGED <<inUse, today>>
    BY <1>3 DEF CloseCommit, Inv, Steps
  <2>2. /\ order' \in Seq(Order) /\ DOMAIN order' = DOMAIN order
        /\ \A m \in DOMAIN order : order'[m].pm = order[m].pm
    BY <2>1, OrderStepKeepsInv DEF Status
  <2>3. /\ req' \in [Requests -> Request] /\ req'[r].pc = "idle"
        /\ \A y \in Requests \ {r} : req'[y] = req[y]
    BY <1>0, <2>1, FinishKeepsTypes
  <2> DEFINE d == NextDue(pm[req[r].pm].due, req[r].seen)
             row == [pm[req[r].pm] EXCEPT !.due = d]
  <2>4. pm' = [pm EXCEPT ![req[r].pm] = row]
    BY <2>1, Zenon
  <2>5. pm' \in [Pms -> Pm] /\ \A p \in Pms : pm'[p].last = pm[p].last
    <3>1. pm[req[r].pm] \in Pm /\ pm[req[r].pm].due \in Nat \cup {None}
      BY <1>0, <2>1 DEF TypeOK, Pm
    <3>2. d \in Nat \cup {None}
      BY <2>1, <3>1, NextDueIsDate
    <3> HIDE DEF d
    <3>3. row \in Pm /\ row.last = pm[req[r].pm].last
      BY <3>1, <3>2 DEF Pm
    <3> HIDE DEF row
    <3>4. QED
      BY <1>0, <2>1, <2>4, <3>3, RowKeepsTypes
  <2>6. TypeOK'
    BY <2>1, <2>2, <2>3, <2>5 DEF Inv, TypeOK
  <2>7. Steps'
    BY <2>2, <2>3 DEF Inv, Steps
  <2>8. SoftLinkIsOwn'
    BY <2>2, <2>5 DEF Inv, SoftLinkIsOwn
  <2>9. QED
    BY <2>6, <2>7, <2>8 DEF Inv
<1>4. QED
  BY <1>1, <1>2, <1>3 DEF Close

LEMMA OthersKeepInv ==
  ASSUME Inv,
         \/ \E n \in DOMAIN order : ConfirmedClose(n) \/ \E to \in Status : Move(n, to)
         \/ \E p \in Pms : Admin(p)
         \/ NextDay
         \/ UNCHANGED vars
  PROVE  Inv'
<1>0. TypeOK
  BY DEF Inv
<1>1. ASSUME NEW n \in DOMAIN order, NEW to \in Status,
             order' = [order EXCEPT ![n].status = to], UNCHANGED <<pm, inUse, today, req>>
      PROVE  Inv'
  <2>1. /\ order' \in Seq(Order) /\ DOMAIN order' = DOMAIN order
        /\ \A m \in DOMAIN order : order'[m].pm = order[m].pm
    BY <1>1, OrderStepKeepsInv
  <2>2. TypeOK'
    BY <1>0, <1>1, <2>1 DEF TypeOK
  <2>3. Steps' /\ SoftLinkIsOwn'
    BY <1>1, <2>1 DEF Inv, Steps, SoftLinkIsOwn
  <2>4. QED
    BY <2>2, <2>3 DEF Inv
<1>2. ASSUME NEW p \in Pms, Admin(p) PROVE Inv'
  <2>1. UNCHANGED <<order, today, req>>
    BY <1>2 DEF Admin, UpdatePmSchedule, SetSuppressed, SetAssetActive
  <2>2. pm' \in [Pms -> Pm] /\ \A x \in Pms : pm'[x].last = pm[x].last
    <3>1. CASE \E interval \in Intervals, due \in Dues : UpdatePmSchedule(p, interval, due)
      <4>1. PICK interval \in Nat, due \in Nat \cup {None} :
              pm' = [pm EXCEPT ![p].interval = interval, ![p].due = due]
        BY <3>1, PmAssumption DEF UpdatePmSchedule, Dues
      <4> DEFINE row == [pm[p] EXCEPT !.interval = interval, !.due = due]
      <4>2. pm' = [pm EXCEPT ![p] = row]
        BY <1>0, <4>1 DEF TypeOK
      <4>3. row \in Pm /\ row.last = pm[p].last
        BY <1>0, <4>1 DEF TypeOK, Pm
      <4> HIDE DEF row
      <4>4. QED
        BY <1>0, <4>2, <4>3, RowKeepsTypes
    <3>2. CASE SetSuppressed(p)
      <4>1. pm' = [pm EXCEPT ![p].suppressed = ~pm[p].suppressed]
        BY <3>2 DEF SetSuppressed
      <4>2. QED
        BY <1>0, <4>1 DEF TypeOK, Pm
    <3>3. CASE SetAssetActive(p)
      BY <1>0, <3>3 DEF SetAssetActive, TypeOK
    <3>4. QED
      BY <1>2, <3>1, <3>2, <3>3 DEF Admin
  <2>3. inUse' \in [Pms -> BOOLEAN]
    <3>1. inUse' = inUse \/ inUse' = [inUse EXCEPT ![p] = ~inUse[p]]
      BY <1>2 DEF Admin, UpdatePmSchedule, SetSuppressed, SetAssetActive
    <3>2. QED
      BY <1>0, <3>1 DEF TypeOK
  <2>4. QED
    BY <2>1, <2>2, <2>3 DEF Inv, TypeOK, Steps, SoftLinkIsOwn
<1>3. CASE NextDay \/ UNCHANGED vars
  <2>1. UNCHANGED <<pm, inUse, order, req>> /\ today' \in Nat
    BY <1>0, <1>3 DEF NextDay, vars, TypeOK
  <2>2. QED
    BY <2>1 DEF Inv, TypeOK, Steps, SoftLinkIsOwn
<1>4. QED
  <2>1. ASSUME NEW n \in DOMAIN order, ConfirmedClose(n) \/ \E to \in Status : Move(n, to)
        PROVE  Inv'
    BY <1>1, <2>1 DEF ConfirmedClose, Move, Status
  <2>2. QED
    BY <1>2, <1>3, <2>1

LEMMA NextKeepsInv == Inv /\ [Next]_vars => Inv'
<1> SUFFICES ASSUME Inv, [Next]_vars PROVE Inv'
  OBVIOUS
<1>1. ASSUME NEW r \in Requests,
             \/ \E p \in Pms : OnDemand(r, p)
             \/ SweepSelect(r)
             \/ Generate(r)
             \/ \E n \in DOMAIN order : CloseLoad(r, n)
             \/ Close(r)
      PROVE  Inv'
  BY <1>1, StartKeepsInv, GenerateKeepsInv, CloseKeepsInv
<1>2. QED
  BY <1>1, OthersKeepInv DEF Next

LEMMA SpecKeepsInv == Spec => []Inv
  BY InitInv, NextKeepsInv, PTL DEF Spec

\* Every reachable state is well typed.
THEOREM TypeCorrect == Spec => []TypeOK
<1>1. Inv => TypeOK
  BY DEF Inv
<1>2. QED
  BY <1>1, SpecKeepsInv, PTL

\* Two requests that take the same number never give one schedule the other's work order.
THEOREM SoftLinksAreOwn == Spec => []SoftLinkIsOwn
<1>1. Inv => SoftLinkIsOwn
  BY DEF Inv
<1>2. QED
  BY <1>1, SpecKeepsInv, PTL

-----------------------------------------------------------------------------
\* At most one request is under way.
Alone == \A r, x \in Requests : req[r].pc # "idle" /\ req[x].pc # "idle" => r = x

\* A work order that is not over is the one its schedule leads to.
InCycle == \A n \in DOMAIN order : Active(n) => pm[order[n].pm].last = n

\* What a request is about to open, it has found missing.
Missing == \A r \in Requests : req[r].pc \in {"number", "insert"} => ~HasOrder(req[r].pm)

SerialInv == Inv /\ Alone /\ InCycle /\ Missing

\* The next step of a request that is alone leaves the others idle.
LEMMA OthersStayIdle ==
  ASSUME ~Interleaved, Inv, Alone, NEW r \in Requests,
         \/ \E p \in Pms : OnDemand(r, p)
         \/ SweepSelect(r)
         \/ Generate(r)
         \/ \E n \in DOMAIN order : CloseLoad(r, n)
         \/ Close(r)
  PROVE  \A x \in Requests \ {r} : req[x].pc = "idle" /\ req'[x].pc = "idle"
<1>1. \A x \in Requests \ {r} : req[x].pc = "idle"
  BY DEF Alone, Free, OnDemand, SweepSelect, CloseLoad, Generate, Pick, PickNothing, TakeNumber,
         Insert, InsertFails, Close, CloseLock, CloseCommit
<1>2. \E q : req' = [req EXCEPT ![r] = q]
  BY DEF OnDemand, SweepSelect, CloseLoad, Generate, Pick, PickNothing, TakeNumber,
         Insert, InsertFails, Close, CloseLock, CloseCommit, Begin, Continue, GoOn, Finish
<1>3. QED
  BY <1>1, <1>2 DEF Inv, TypeOK

\* A step that opens nothing and only moves work orders along keeps the cycle.
LEMMA MovesKeepCycle ==
  ASSUME Inv, InCycle, DOMAIN order' = DOMAIN order,
         \A n \in DOMAIN order : order'[n].pm = order[n].pm /\ (Active(n)' => Active(n)),
         \A p \in Pms : pm'[p].last = pm[p].last
  PROVE  InCycle'
<1>1. order \in [1..Len(order) -> Order] /\ DOMAIN order = 1..Len(order)
  BY DEF Inv, TypeOK
<1>2. \A n \in DOMAIN order : order[n].pm \in Pms
  BY <1>1 DEF Order
<1>3. QED
  BY <1>2 DEF InCycle

LEMMA RequestKeepsSerialInv ==
  ASSUME ~Interleaved, SerialInv, NEW r \in Requests,
         \/ \E p \in Pms : OnDemand(r, p)
         \/ SweepSelect(r)
         \/ Generate(r)
         \/ \E n \in DOMAIN order : CloseLoad(r, n)
         \/ Close(r)
  PROVE  (Alone /\ InCycle /\ Missing)'
<1>1. Inv /\ Alone /\ InCycle /\ Missing
  BY DEF SerialInv
<1>2. \A x \in Requests \ {r} : req[x].pc = "idle" /\ req'[x].pc = "idle"
  BY <1>1, OthersStayIdle
<1>3. Alone'
  BY <1>2 DEF Alone
<1>4. /\ pm \in [Pms -> Pm] /\ order \in Seq(Order) /\ req \in [Requests -> Request]
  BY <1>1 DEF Inv, TypeOK
<1>5. CASE \/ \E p \in Pms : OnDemand(r, p)
           \/ SweepSelect(r)
           \/ \E n \in DOMAIN order : CloseLoad(r, n)
  <2>1. UNCHANGED <<pm, order>>
    BY <1>5 DEF OnDemand, SweepSelect, CloseLoad
  <2>2. req'[r].pc \in {"pick", "close"}
    <3>1. ASSUME NEW s, NEW todo, Begin(r, s, todo) PROVE req'[r].pc = "pick"
      BY <1>4, <3>1 DEF Begin, Idle
    <3>2. CASE SweepSelect(r) \/ \E p \in Pms : OnDemand(r, p)
      BY <3>1, <3>2 DEF SweepSelect, OnDemand
    <3>3. CASE \E n \in DOMAIN order : CloseLoad(r, n)
      BY <1>4, <3>3 DEF CloseLoad, Continue
    <3>4. QED
      BY <1>5, <3>2, <3>3
  <2>3. QED
    BY <1>1, <1>2, <1>3, <2>1, <2>2 DEF InCycle, Missing, Active
<1>6. CASE Generate(r) /\ ~Insert(r)
  <2>1. UNCHANGED <<pm, order>>
    BY <1>6 DEF Generate, Pick, PickNothing, TakeNumber, InsertFails
  <2>2. req'[r].pc \in {"number", "insert"} => ~HasOrder(req'[r].pm)
    <3>1. CASE Pick(r)
      BY <1>4, <3>1 DEF Pick, Continue
    <3>2. CASE TakeNumber(r)
      BY <1>1, <1>4, <3>2 DEF TakeNumber, Continue, Missing
    <3>3. CASE PickNothing(r) \/ InsertFails(r)
      BY <1>4, <3>3 DEF PickNothing, InsertFails, GoOn, Continue, Finish, Idle
    <3>4. QED
      BY <1>6, <3>1, <3>2, <3>3 DEF Generate
  <2>3. QED
    BY <1>1, <1>2, <1>3, <2>1, <2>2 DEF InCycle, Missing, Active, HasOrder
<1>7. CASE Insert(r)
  <2> DEFINE p == req[r].pm
             n == Len(order) + 1
  <2>1. /\ p \in Pms /\ ~HasOrder(p)
        /\ order' = Append(order, [status |-> "OPEN", pm |-> p])
        /\ pm' = [pm EXCEPT ![p].last = n]
    BY <1>1, <1>7 DEF Insert, Inv, Steps, Missing
  <2>2. /\ DOMAIN order' = DOMAIN order \cup {n}
        /\ order'[n].pm = p
        /\ \A m \in DOMAIN order : order'[m] = order[m] /\ order[m].pm \in Pms /\ m # n /\ m \in Nat
    <3> DEFINE new == [status |-> "OPEN", pm |-> p]
    <3>1. new.pm = p /\ new \in Order
      BY <2>1 DEF Order, Status
    <3>2. order' = Append(order, new)
      BY <2>1
    <3>3. order \in [1..Len(order) -> Order] /\ DOMAIN order = 1..Len(order) /\ Len(order) \in Nat
      BY <1>4
    <3>4. \A m \in DOMAIN order : order[m].pm \in Pms
      BY <3>3 DEF Order
    <3> HIDE DEF new
    <3>5. QED
      BY <1>4, <3>1, <3>2, <3>3, <3>4
  <2>3. \A m \in DOMAIN order : Active(m) => order[m].pm # p
    BY <1>1, <2>1, <2>2, PmAssumption DEF InCycle, HasOrder
  <2>4. pm'[p].last = n /\ \A x \in Pms \ {p} : pm'[x].last = pm[x].last
    BY <1>4, <2>1 DEF Pm
  <2>5. InCycle'
    BY <1>1, <2>2, <2>3, <2>4 DEF InCycle, Active
  <2>6. req'[r].pc \in {"idle", "pick"}
    BY <1>4, <1>7 DEF Insert, GoOn, Continue, Finish, Idle
  <2>7. QED
    BY <1>2, <1>3, <2>5, <2>6 DEF Missing
<1>8. CASE CloseLock(r)
  <2>1. UNCHANGED <<pm, order>> /\ req'[r].pc = "advance"
    BY <1>4, <1>8 DEF CloseLock, Continue
  <2>2. QED
    BY <1>1, <1>2, <1>3, <2>1 DEF InCycle, Missing, Active
<1>9. CASE CloseCommit(r)
  <2>1. /\ req[r].no \in DOMAIN order /\ req[r].pm \in Pms
        /\ order' = [order EXCEPT ![req[r].no].status = "CLOSED"]
        /\ \E d : pm' = [pm EXCEPT ![req[r].pm].due = d]
        /\ req'[r].pc = "idle"
    BY <1>1, <1>4, <1>9 DEF CloseCommit, Inv, Steps, Finish, Idle
  <2>2. /\ DOMAIN order' = DOMAIN order
        /\ \A n \in DOMAIN order : order'[n].pm = order[n].pm
        /\ order'[req[r].no].status = "CLOSED"
        /\ \A n \in DOMAIN order \ {req[r].no} : order'[n] = order[n]
    BY <1>1, <2>1, OrderStepKeepsInv DEF Status
  <2>3. \A n \in DOMAIN order : Active(n)' => Active(n)
    BY <2>2 DEF Active, Terminal
  <2>4. \A p \in Pms : pm'[p].last = pm[p].last
    BY <1>4, <2>1 DEF Pm
  <2>5. InCycle'
    BY <1>1, <2>2, <2>3, <2>4, MovesKeepCycle
  <2>6. QED
    BY <1>2, <1>3, <2>1, <2>5 DEF Missing
<1>10. QED
  BY <1>5, <1>6, <1>7, <1>8, <1>9 DEF Close

LEMMA OthersKeepSerialInv ==
  ASSUME ~Interleaved, SerialInv,
         \/ \E n \in DOMAIN order : ConfirmedClose(n) \/ \E to \in Status : Move(n, to)
         \/ \E p \in Pms : Admin(p)
         \/ NextDay
         \/ UNCHANGED vars
  PROVE  (Alone /\ InCycle /\ Missing)'
<1>1. Inv /\ Alone /\ InCycle /\ Missing /\ pm \in [Pms -> Pm]
  BY DEF SerialInv, Inv, TypeOK
<1>2. ASSUME NEW n \in DOMAIN order, ConfirmedClose(n) \/ \E to \in Status : Move(n, to)
      PROVE  (Alone /\ InCycle /\ Missing)'
  <2>1. PICK to \in Status : /\ order' = [order EXCEPT ![n].status = to]
                             /\ order[n].status \notin Terminal
                             /\ UNCHANGED <<pm, req>>
                             /\ \A r \in Requests : req[r].pc = "idle"
    <3>1. CASE ConfirmedClose(n)
      BY <3>1 DEF ConfirmedClose, Free, Status, Terminal
    <3>2. CASE \E to \in Status : Move(n, to)
      <4>1. PICK to \in Status : Move(n, to)
        BY <3>2
      <4>2. order[n].status \in Status
        <5>1. order \in [1..Len(order) -> Order]
          BY <1>1 DEF Inv, TypeOK
        <5>2. QED
          BY <5>1 DEF Order
      <4>3. order[n].status \notin Terminal
        BY <4>1, <4>2 DEF Move, Allowed, Terminal, Status
      <4>4. QED
        BY <4>1, <4>3 DEF Move, Free
    <3>3. QED
      BY <1>2, <3>1, <3>2
  <2>2. /\ DOMAIN order' = DOMAIN order
        /\ \A m \in DOMAIN order : order'[m].pm = order[m].pm
        /\ \A m \in DOMAIN order \ {n} : order'[m] = order[m]
    BY <1>1, <2>1, OrderStepKeepsInv
  <2>3. \A m \in DOMAIN order : Active(m)' => Active(m)
    BY <2>1, <2>2 DEF Active
  <2>4. InCycle'
    BY <1>1, <2>1, <2>2, <2>3, MovesKeepCycle
  <2>5. QED
    BY <1>1, <2>1, <2>4 DEF Alone, Missing
<1>3. ASSUME NEW p \in Pms, Admin(p) PROVE (Alone /\ InCycle /\ Missing)'
  <2>1. UNCHANGED <<order, req>> /\ \A r \in Requests : req[r].pc = "idle"
    BY <1>3 DEF Admin, UpdatePmSchedule, SetSuppressed, SetAssetActive, Free
  <2>2. \A x \in Pms : pm'[x].last = pm[x].last
    <3>1. ASSUME NEW interval \in Intervals, NEW due \in Dues, UpdatePmSchedule(p, interval, due)
          PROVE  \A x \in Pms : pm'[x].last = pm[x].last
      BY <1>1, <3>1 DEF UpdatePmSchedule, Pm
    <3>2. CASE SetSuppressed(p)
      BY <1>1, <3>2 DEF SetSuppressed, Pm
    <3>3. CASE SetAssetActive(p)
      BY <3>3 DEF SetAssetActive
    <3>4. QED
      BY <1>3, <3>1, <3>2, <3>3 DEF Admin
  <2>3. InCycle'
    <3>1. \A m \in DOMAIN order : order'[m].pm = order[m].pm /\ (Active(m)' => Active(m))
      BY <2>1 DEF Active
    <3>2. QED
      BY <1>1, <2>1, <2>2, <3>1, MovesKeepCycle
  <2>4. QED
    BY <1>1, <2>1, <2>3 DEF Alone, Missing
<1>4. CASE NextDay \/ UNCHANGED vars
  BY <1>1, <1>4 DEF NextDay, vars, Alone, InCycle, Missing, Active, HasOrder
<1>5. QED
  BY <1>2, <1>3, <1>4

LEMMA SpecKeepsSerialInv == ASSUME ~Interleaved PROVE Spec => []SerialInv
<1>1. Init => SerialInv
  <2>1. Init => Alone /\ Missing
    BY DEF Init, Alone, Missing, Idle
  <2>2. Init => InCycle
    BY DEF Init, InCycle
  <2>3. QED
    BY <2>1, <2>2, InitInv DEF SerialInv
<1>2. SerialInv /\ [Next]_vars => SerialInv'
  <2> SUFFICES ASSUME SerialInv, [Next]_vars PROVE SerialInv'
    OBVIOUS
  <2>1. Inv'
    BY NextKeepsInv DEF SerialInv
  <2>2. (Alone /\ InCycle /\ Missing)'
    BY RequestKeepsSerialInv, OthersKeepSerialInv DEF Next
  <2>3. QED
    BY <2>1, <2>2 DEF SerialInv
<1>3. QED
  BY <1>1, <1>2, PTL DEF Spec

\* Where requests take turns, a schedule never has two work orders that are not over: the
\* soft link that generation looks at leads to the one there is.
THEOREM OneOrderWhenSerial == ASSUME ~Interleaved PROVE Spec => []OneOrderPerPm
<1>1. SerialInv => OneOrderPerPm
  BY DEF SerialInv, InCycle, OneOrderPerPm
<1>2. QED
  BY <1>1, SpecKeepsSerialInv, PTL

-----------------------------------------------------------------------------
\* The weekend rule of effective_generation_date is the last working day until the date.
THEOREM WeekendRule == \A d \in Int : EffectiveDate(d) = LastWorkday(d)
  BY DEF EffectiveDate, LastWorkday, Max, Saturday, Sunday

\* The selection in SQL, two days ahead, misses no schedule that the exact test would take.
THEOREM PrefilterIsComplete ==
  \A due, day \in Int : EffectiveDate(due) <= day => due <= day + 2
  BY DEF EffectiveDate, Saturday, Sunday

-----------------------------------------------------------------------------
\* What the scheduler has collected and not generated for is still due.
Collected ==
  \A r \in Requests : req[r].sweep /\ req[r].pc # "idle" =>
    /\ \A x \in req[r].todo : Selectable(x.pm, today)
    /\ req[r].pc \in {"number", "insert"} => Selectable(req[r].pm, today) /\ inUse[req[r].pm]

LEMMA RequestKeepsCollected ==
  ASSUME ~Interleaved, Inv, Alone, Collected, NEW r \in Requests,
         \/ \E p \in Pms : OnDemand(r, p)
         \/ SweepSelect(r)
         \/ Generate(r)
         \/ \E n \in DOMAIN order : CloseLoad(r, n)
         \/ Close(r)
  PROVE  Collected'
<1>1. \A x \in Requests \ {r} : req'[x].pc = "idle"
  BY OthersStayIdle
<1>2. pm \in [Pms -> Pm] /\ req \in [Requests -> Request]
  BY DEF Inv, TypeOK
<1>3. SUFFICES ASSUME req'[r].sweep, req'[r].pc # "idle"
               PROVE  (/\ \A x \in req[r].todo : Selectable(x.pm, today)
                       /\ req[r].pc \in {"number", "insert"} =>
                            Selectable(req[r].pm, today) /\ inUse[req[r].pm])'
  BY <1>1 DEF Collected
<1>4. ASSUME NEW todo, GoOn(r, todo)
      PROVE  req'[r].pc = "pick" /\ req'[r].todo = todo /\ req'[r].sweep = req[r].sweep
  <2>1. todo # {}
    BY <1>2, <1>3, <1>4 DEF GoOn, Finish, Idle
  <2>2. QED
    BY <1>2, <1>4, <2>1 DEF GoOn, Continue
<1>5. ASSUME NEW p \in Pms, OnDemand(r, p) PROVE FALSE
  <2> DEFINE q == [Idle EXCEPT !.pc = "pick", !.sweep = FALSE, !.todo = {[pm |-> p, due |-> None]}]
  <2>1. req' = [req EXCEPT ![r] = q] /\ q.sweep = FALSE
    BY <1>5 DEF OnDemand, Begin, Idle
  <2> HIDE DEF q
  <2>2. QED
    BY <1>2, <1>3, <2>1
<1>6. CASE SweepSelect(r)
  <2> DEFINE all == {[pm |-> p, due |-> pm[p].due] : p \in {v \in Pms : Selectable(v, today)}}
             some == Limited(all)
             q == [Idle EXCEPT !.pc = "pick", !.sweep = TRUE, !.todo = some]
  <2>1. some \subseteq all
    BY DEF Limited
  <2>2. \A x \in all : Selectable(x.pm, today)
    OBVIOUS
  <2>3. req' = [req EXCEPT ![r] = q] /\ UNCHANGED <<pm, inUse, today>>
    BY <1>6 DEF SweepSelect, Begin
  <2> HIDE DEF some
  <2>4. q.pc = "pick" /\ q.todo = some
    BY DEF Idle
  <2> HIDE DEF q, all
  <2>5. req'[r].pc = "pick" /\ req'[r].todo = some
    BY <1>2, <2>3, <2>4
  <2>6. QED
    BY <2>1, <2>2, <2>3, <2>5 DEF Selectable
<1>7. CASE Pick(r)
  <2>1. PICK x \in req[r].todo : /\ req'[r].todo \subseteq req[r].todo /\ req'[r].pm = x.pm
                                 /\ req[r].pc = "pick" /\ req'[r].sweep = req[r].sweep
                                 /\ inUse[x.pm] /\ UNCHANGED <<pm, inUse, today>>
    BY <1>2, <1>7 DEF Pick, Continue
  <2>2. QED
    BY <1>3, <2>1 DEF Collected, Selectable
<1>8. CASE PickNothing(r)
  <2>1. PICK x \in req[r].todo : /\ GoOn(r, req[r].todo \ {x}) /\ req[r].pc = "pick"
                                 /\ UNCHANGED <<pm, inUse, today>>
    BY <1>8 DEF PickNothing
  <2>2. req'[r].pc = "pick" /\ req'[r].todo \subseteq req[r].todo /\ req'[r].sweep = req[r].sweep
    BY <1>4, <2>1
  <2>3. QED
    BY <1>3, <2>1, <2>2 DEF Collected, Selectable
<1>9. CASE TakeNumber(r)
  <2>1. /\ req'[r].todo = req[r].todo /\ req'[r].pm = req[r].pm /\ req'[r].sweep = req[r].sweep
        /\ req[r].pc = "number" /\ UNCHANGED <<pm, inUse, today>>
    BY <1>2, <1>9 DEF TakeNumber, Continue
  <2>2. QED
    BY <1>3, <2>1 DEF Collected, Selectable
<1>10. CASE Insert(r) \/ InsertFails(r)
  <2>1. /\ req'[r].pc = "pick" /\ req'[r].todo = req[r].todo /\ req'[r].sweep = req[r].sweep
        /\ req[r].pc = "insert" /\ UNCHANGED today
    BY <1>4, <1>10 DEF Insert, InsertFails
  <2>2. \A p \in Pms : /\ pm'[p].due = pm[p].due /\ pm'[p].interval = pm[p].interval
                       /\ pm'[p].suppressed = pm[p].suppressed
    BY <1>2, <1>10 DEF Insert, InsertFails, Pm
  <2>3. \A x \in req[r].todo : x.pm \in Pms
    BY <1>2 DEF Request
  <2>4. QED
    BY <1>3, <2>1, <2>2, <2>3 DEF Collected, Selectable
<1>11. CASE (\E n \in DOMAIN order : CloseLoad(r, n)) \/ CloseLock(r)
  BY <1>2, <1>11 DEF CloseLoad, CloseLock, Continue
<1>12. CASE CloseCommit(r)
  BY <1>2, <1>3, <1>12 DEF CloseCommit, Finish, Idle
<1>13. QED
  BY <1>5, <1>6, <1>7, <1>8, <1>9, <1>10, <1>11, <1>12 DEF Generate, Close

LEMMA SpecKeepsCollected == ASSUME ~Interleaved PROVE Spec => []Collected
<1>1. Init => Collected
  BY DEF Init, Collected, Idle
<1>2. SerialInv /\ Collected /\ [Next]_vars => Collected'
  <2> SUFFICES ASSUME SerialInv, Collected, [Next]_vars PROVE Collected'
    OBVIOUS
  <2>1. ASSUME NEW r \in Requests,
               \/ \E p \in Pms : OnDemand(r, p)
               \/ SweepSelect(r)
               \/ Generate(r)
               \/ \E n \in DOMAIN order : CloseLoad(r, n)
               \/ Close(r)
        PROVE  Collected'
    BY <2>1, RequestKeepsCollected DEF SerialInv
  <2>2. CASE \/ \E n \in DOMAIN order : ConfirmedClose(n) \/ \E to \in Status : Move(n, to)
             \/ \E p \in Pms : Admin(p)
             \/ NextDay
    BY <2>2 DEF ConfirmedClose, Move, Admin, UpdatePmSchedule, SetSuppressed, SetAssetActive,
                NextDay, Free, Collected
  <2>3. CASE UNCHANGED vars
    BY <2>3 DEF vars, Collected, Selectable
  <2>4. QED
    BY <2>1, <2>2, <2>3 DEF Next
<1>3. QED
  BY <1>1, <1>2, SpecKeepsSerialInv, PTL DEF Spec

\* Where requests take turns, the scheduler opens a work order only for a schedule that is due.
THEOREM SerialSweepIsDue == ASSUME ~Interleaved PROVE Spec => GeneratedWhenDue
<1> DEFINE Sound == \A r \in Requests :
             Len(order') > Len(order) /\ req[r].sweep /\ req[r].pc = "insert" /\ req'[r].pc # "insert"
               => Due(req[r].pm)
<1>1. Inv /\ Collected => Sound
  <2> SUFFICES ASSUME Inv, Collected, NEW r \in Requests, req[r].sweep, req[r].pc = "insert"
               PROVE  Due(req[r].pm)
    OBVIOUS
  <2>1. Selectable(req[r].pm, today) /\ inUse[req[r].pm] /\ pm[req[r].pm] \in Pm
    BY DEF Collected, Inv, TypeOK, Steps
  <2>2. pm[req[r].pm].due \in Int
    BY <2>1 DEF Selectable, Pm
  <2>3. QED
    BY <2>1, <2>2, WeekendRule DEF Selectable, Due
<1>2. QED
  BY <1>1, SpecKeepsInv, SpecKeepsCollected, PTL DEF GeneratedWhenDue

-----------------------------------------------------------------------------
\* What a request that closes has read of its work order and of the schedule still holds.
ClosesWhatItRead ==
  \A r \in Requests :
    /\ req[r].pc \in {"close", "advance"} => Active(req[r].no)
    /\ req[r].pc = "advance" => /\ req[r].pm = order[req[r].no].pm
                                /\ req[r].seen = pm[req[r].pm]

LEMMA RequestKeepsClosing ==
  ASSUME ~Interleaved, Inv, Alone, ClosesWhatItRead, NEW r \in Requests,
         \/ \E p \in Pms : OnDemand(r, p)
         \/ SweepSelect(r)
         \/ Generate(r)
         \/ \E n \in DOMAIN order : CloseLoad(r, n)
         \/ Close(r)
  PROVE  ClosesWhatItRead'
<1>1. \A x \in Requests \ {r} : req'[x].pc = "idle"
  BY OthersStayIdle
<1>2. pm \in [Pms -> Pm] /\ req \in [Requests -> Request]
  BY DEF Inv, TypeOK
<1>3. ASSUME req'[r].pc \notin {"close", "advance"} PROVE ClosesWhatItRead'
  BY <1>1, <1>3 DEF ClosesWhatItRead
<1>4. ASSUME NEW n \in DOMAIN order, CloseLoad(r, n) PROVE ClosesWhatItRead'
  <2>1. req'[r].pc = "close" /\ req'[r].no = n /\ Active(n) /\ UNCHANGED <<pm, order>>
    BY <1>2, <1>4 DEF CloseLoad, Continue
  <2>2. QED
    BY <1>1, <2>1 DEF ClosesWhatItRead, Active
<1>5. CASE CloseLock(r)
  <2> DEFINE n == req[r].no
  <2>1. /\ req'[r].pc = "advance" /\ req'[r].no = n /\ req'[r].pm = order[n].pm
        /\ req'[r].seen = pm[order[n].pm] /\ req[r].pc = "close" /\ UNCHANGED <<pm, order>>
    BY <1>2, <1>5 DEF CloseLock, Continue
  <2>2. Active(n)
    BY <2>1 DEF ClosesWhatItRead
  <2>3. QED
    BY <1>1, <2>1, <2>2 DEF ClosesWhatItRead, Active
<1>6. CASE CloseCommit(r)
  <2>1. req'[r].pc = "idle"
    BY <1>2, <1>6 DEF CloseCommit, Finish, Idle
  <2>2. QED
    BY <1>3, <2>1
<1>7. ASSUME NEW p \in Pms, OnDemand(r, p) PROVE ClosesWhatItRead'
  <2>1. req'[r].pc = "pick"
    BY <1>2, <1>7 DEF OnDemand, Begin, Idle
  <2>2. QED
    BY <1>3, <2>1
<1>8. CASE SweepSelect(r)
  <2> DEFINE some == Limited({[pm |-> p, due |-> pm[p].due] : p \in {v \in Pms : Selectable(v, today)}})
  <2>1. Begin(r, TRUE, some)
    BY <1>8 DEF SweepSelect
  <2> HIDE DEF some
  <2>2. req'[r].pc = "pick"
    BY <1>2, <2>1 DEF Begin, Idle
  <2>3. QED
    BY <1>3, <2>2
<1>9. CASE Generate(r)
  <2>1. req'[r].pc \in {"idle", "pick", "number", "insert"}
    BY <1>2, <1>9 DEF Generate, Pick, PickNothing, TakeNumber, Insert, InsertFails, GoOn, Finish,
                      Continue, Idle
  <2>2. QED
    BY <1>3, <2>1
<1>10. QED
  BY <1>4, <1>5, <1>6, <1>7, <1>8, <1>9 DEF Close

LEMMA SpecKeepsClosing == ASSUME ~Interleaved PROVE Spec => []ClosesWhatItRead
<1>1. Init => ClosesWhatItRead
  BY DEF Init, ClosesWhatItRead, Idle
<1>2. SerialInv /\ ClosesWhatItRead /\ [Next]_vars => ClosesWhatItRead'
  <2> SUFFICES ASSUME SerialInv, ClosesWhatItRead, [Next]_vars PROVE ClosesWhatItRead'
    OBVIOUS
  <2>1. ASSUME NEW r \in Requests,
               \/ \E p \in Pms : OnDemand(r, p)
               \/ SweepSelect(r)
               \/ Generate(r)
               \/ \E n \in DOMAIN order : CloseLoad(r, n)
               \/ Close(r)
        PROVE  ClosesWhatItRead'
    BY <2>1, RequestKeepsClosing DEF SerialInv
  <2>2. CASE \/ \E n \in DOMAIN order : ConfirmedClose(n) \/ \E to \in Status : Move(n, to)
             \/ \E p \in Pms : Admin(p)
             \/ NextDay
    BY <2>2 DEF ConfirmedClose, Move, Admin, UpdatePmSchedule, SetSuppressed, SetAssetActive,
                NextDay, Free, ClosesWhatItRead
  <2>3. CASE UNCHANGED vars
    BY <2>3 DEF vars, ClosesWhatItRead, Active
  <2>4. QED
    BY <2>1, <2>2, <2>3 DEF Next
<1>3. QED
  BY <1>1, <1>2, SpecKeepsSerialInv, PTL DEF Spec

\* A step of a request that moves a due date is the close of a work order.
LEMMA RequestsMoveDues ==
  ASSUME Inv, NEW r \in Requests, NEW p \in Pms, pm'[p].due # pm[p].due,
         \/ \E x \in Pms : OnDemand(r, x)
         \/ SweepSelect(r)
         \/ Generate(r)
         \/ \E n \in DOMAIN order : CloseLoad(r, n)
         \/ Close(r)
  PROVE  CloseCommit(r)
<1>0. pm \in [Pms -> Pm]
  BY DEF Inv, TypeOK
<1>1. ASSUME UNCHANGED pm PROVE FALSE
  BY <1>1
<1>2. CASE Insert(r)
  <2>1. pm' = [pm EXCEPT ![req[r].pm].last = req[r].no]
    BY <1>2 DEF Insert
  <2>2. QED
    BY <1>0, <2>1 DEF Pm
<1>3. CASE Pick(r) \/ PickNothing(r) \/ TakeNumber(r) \/ InsertFails(r)
  BY <1>1, <1>3 DEF Pick, PickNothing, TakeNumber, InsertFails
<1>4. CASE (\E x \in Pms : OnDemand(r, x)) \/ \E n \in DOMAIN order : CloseLoad(r, n)
  BY <1>1, <1>4 DEF OnDemand, CloseLoad
<1>5. CASE SweepSelect(r) \/ CloseLock(r)
  BY <1>1, <1>5 DEF SweepSelect, CloseLock
<1>6. QED
  BY <1>2, <1>3, <1>4, <1>5 DEF Generate, Close

\* Where requests take turns, the due date of a schedule moves only when it is edited, or by
\* one interval, at the close of a work order of its own that was not closed before.
THEOREM DueDatesMove == ASSUME ~Interleaved PROVE Spec => DueMovesWithCloses
<1> DEFINE Kept == \A p \in Pms :
       pm'[p].due # pm[p].due =>
         \/ order' = order /\ req' = req
         \/ /\ pm'[p].due = (IF pm[p].due = None THEN today ELSE pm[p].due) + pm[p].interval
            /\ \E n \in DOMAIN order :
                 order[n].pm = p /\ order[n].status # "CLOSED" /\ order'[n].status = "CLOSED"
<1>1. Inv /\ ClosesWhatItRead /\ [Next]_vars => Kept
  <2> SUFFICES ASSUME Inv, ClosesWhatItRead, [Next]_vars, NEW p \in Pms, pm'[p].due # pm[p].due
               PROVE  \/ order' = order /\ req' = req
                      \/ /\ pm'[p].due = (IF pm[p].due = None THEN today ELSE pm[p].due) + pm[p].interval
                         /\ \E n \in DOMAIN order : /\ order[n].pm = p
                                                    /\ order[n].status # "CLOSED"
                                                    /\ order'[n].status = "CLOSED"
    OBVIOUS
  <2>1. CASE \E r \in Requests : CloseCommit(r)
    <3>1. PICK r \in Requests : CloseCommit(r)
      BY <2>1
    <3>2. PICK n : n = req[r].no
      OBVIOUS
    <3>3. /\ n \in DOMAIN order /\ Active(n) /\ req[r].pm = order[n].pm
          /\ req[r].seen = pm[req[r].pm] /\ order \in Seq(Order) /\ pm \in [Pms -> Pm]
      BY <3>1, <3>2 DEF CloseCommit, Inv, TypeOK, Steps, ClosesWhatItRead
    <3>4. PICK x \in Pms : x = req[r].pm
      BY <3>1 DEF CloseCommit, Inv, Steps
    <3>5. PICK due : due = NextDue(pm[x].due, req[r].seen)
      OBVIOUS
    <3>6. pm' = [pm EXCEPT ![x].due = due] /\ order' = [order EXCEPT ![n].status = "CLOSED"]
      BY <3>1, <3>2, <3>4, <3>5, Zenon DEF CloseCommit
    <3>7. p = x /\ pm'[p].due = due
      BY <3>3, <3>6 DEF Pm
    <3>8. pm'[p].due = (IF pm[p].due = None THEN today ELSE pm[p].due) + pm[p].interval
      BY <3>3, <3>4, <3>5, <3>7 DEF NextDue
    <3>9. order[n].status # "CLOSED"
      BY <3>3 DEF Active, Terminal
    <3>10. order'[n].status = "CLOSED"
      <4>1. PICK o : o = [order[n] EXCEPT !.status = "CLOSED"]
        OBVIOUS
      <4>2. order[n] \in Order
        BY <3>3
      <4>3. o.status = "CLOSED"
        BY <4>1, <4>2 DEF Order
      <4>4. order' = [order EXCEPT ![n] = o]
        BY <3>6, <4>1, Zenon
      <4>5. QED
        BY <3>3, <4>3, <4>4
    <3>11. QED
      BY <3>3, <3>4, <3>7, <3>8, <3>9, <3>10
  <2>2. ASSUME NEW r \in Requests,
               \/ \E x \in Pms : OnDemand(r, x)
               \/ SweepSelect(r)
               \/ Generate(r)
               \/ \E n \in DOMAIN order : CloseLoad(r, n)
               \/ Close(r)
        PROVE  CloseCommit(r)
    BY <2>2, RequestsMoveDues
  <2>3. CASE \E x \in Pms : Admin(x)
    BY <2>3 DEF Admin, UpdatePmSchedule, SetSuppressed, SetAssetActive
  <2>4. CASE \/ \E n \in DOMAIN order : ConfirmedClose(n) \/ \E to \in Status : Move(n, to)
             \/ NextDay \/ UNCHANGED vars
    BY <2>4 DEF ConfirmedClose, Move, NextDay, vars
  <2>5. QED
    BY <2>1, <2>2, <2>3, <2>4 DEF Next
<1>2. QED
  BY <1>1, SpecKeepsInv, SpecKeepsClosing, PTL DEF Spec, DueMovesWithCloses

=============================================================================
