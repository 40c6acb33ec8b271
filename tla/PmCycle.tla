------------------------------ MODULE PmCycle ------------------------------
(***************************************************************************)
(* The cycle of a preventive-maintenance (PM) schedule: its work order is  *)
(* generated when it is due, on demand or by the daily scheduler, and the  *)
(* close of the work order advances the schedule to its next due date.     *)
(*                                                                         *)
(* Every generation and every close is a transaction at READ COMMITTED     *)
(* that reads with session.get; the scheduler collects the schedules that  *)
(* are due once and then generates for each in a transaction of its own.   *)
(***************************************************************************)
EXTENDS Integers, Sequences, FiniteSets, FiniteSetsExt, WorkOrderStatus

CONSTANTS
  Requests, Pms,
  None,
  FirstDay,     \* the day of the first state; day 0 is a Monday
  Intervals,    \* the values of frequency_interval, in days; 0: not periodic
  Limit,        \* the scheduler's limit option, or None
  Interleaved,  \* whether others act while a request is under way
  DueDates,     \* the due dates that edits set
  MaxDay,       \* bound: the last day
  MaxOrders     \* bound: work orders

ASSUME PmAssumption ==
  /\ Pms \subseteq Nat /\ Intervals \subseteq Nat /\ DueDates \subseteq Nat
  /\ FirstDay \in Nat /\ MaxDay \in Nat /\ MaxOrders \in Nat
  /\ Interleaved \in BOOLEAN
  /\ None \notin Nat /\ Limit \in Nat \cup {None}

VARIABLES
  pm,       \* pm[p]: the row of pm_schedule
  inUse,    \* inUse[p]: is_active of the asset of p
  order,    \* order[n]: the work order numbered n
  today,
  req       \* req[r]: the request under way

vars == <<pm, inUse, order, today, req>>

Pm == [due : Nat \cup {None}, interval : Nat, suppressed : BOOLEAN, last : Nat \cup {None}]
Order == [status : Status, pm : Pms]

Request ==
  [pc : {"idle", "pick", "number", "insert", "close", "advance"},
   todo : SUBSET [pm : Pms, due : Nat \cup {None}],   \* the schedules left to generate for
   sweep : BOOLEAN,                                   \* whether the scheduler generates
   pm : Pms \cup {None}, no : Nat, seen : Pm \cup {None}]

Idle == [pc |-> "idle", todo |-> {}, sweep |-> FALSE, pm |-> None, no |-> 0, seen |-> None]

-----------------------------------------------------------------------------
Saturday(d) == d % 7 = 5
Sunday(d) == d % 7 = 6

\* effective_generation_date: what is due on a weekend is generated on the Friday.
EffectiveDate(due) ==
  IF Saturday(due) THEN due - 1 ELSE IF Sunday(due) THEN due - 2 ELSE due

\* Faulty variant: suppressed schedules are generated too.
SelectableThoughSuppressed(p, day) ==
  /\ pm[p].due # None
  /\ pm[p].due <= day + 2
  /\ pm[p].interval > 0
  /\ EffectiveDate(pm[p].due) <= day

\* The SQL selection of the scheduler, then the exact test of the date.
Selectable(p, day) ==
  /\ pm[p].due # None
  /\ pm[p].due <= day + 2
  /\ ~pm[p].suppressed
  /\ pm[p].interval > 0
  /\ EffectiveDate(pm[p].due) <= day

Active(n) == order[n].status \notin Terminal

\* Faulty variant: completed work orders do not count.
HasOrderUnfinished(p) == pm[p].last # None /\ Active(pm[p].last) /\ order[pm[p].last].status # "COMPLETED"

\* The work order of this cycle, that generation returns instead of a new one.
HasOrder(p) == pm[p].last # None /\ Active(pm[p].last)

Sooner(x, y) == x.due < y.due \/ (x.due = y.due /\ x.pm < y.pm)

\* The first of the schedules in their order, as many as the limit.
Limited(todo) ==
  IF Limit = None THEN todo
  ELSE {x \in todo : Cardinality({y \in todo : Sooner(y, x)}) < Limit}

\* Everyone else may act now.
Free == Interleaved \/ \A r \in Requests : req[r].pc = "idle"

\* No transaction holds the row lock of work order n.
Unlocked(n) == \A r \in Requests : ~(req[r].pc = "advance" /\ req[r].no = n)

Finish(r) == req' = [req EXCEPT ![r] = Idle]

\* Request r goes on with these.
Continue(r, pc, todo, p, no, seen) ==
  req' = [req EXCEPT ![r] = [pc |-> pc, todo |-> todo, sweep |-> req[r].sweep,
                             pm |-> p, no |-> no, seen |-> seen]]

\* On to the next schedule of those left.
GoOn(r, todo) == IF todo = {} THEN Finish(r) ELSE Continue(r, "pick", todo, None, 0, None)

-----------------------------------------------------------------------------
\* A request sets out to generate for these schedules.
Begin(r, sweep, todo) ==
  req' = [req EXCEPT ![r] = [Idle EXCEPT !.pc = "pick", !.sweep = sweep, !.todo = todo]]

\* generate_pm_work_order: on demand, for one schedule, suppressed or not.
OnDemand(r, p) ==
  /\ req[r].pc = "idle" /\ Free
  /\ Begin(r, FALSE, {[pm |-> p, due |-> None]})
  /\ UNCHANGED <<pm, inUse, order, today>>

\* generate_due_pm_work_orders collects the schedules that are due.
SweepSelect(r) ==
  LET due == {p \in Pms : Selectable(p, today)}
  IN  /\ req[r].pc = "idle" /\ Free
      /\ due # {}
      /\ Begin(r, TRUE, Limited({[pm |-> p, due |-> pm[p].due] : p \in due}))
      /\ UNCHANGED <<pm, inUse, order, today>>

\* _generate_pm_impl reads the schedule, its last work order and its asset.
Pick(r) ==
  \E x \in req[r].todo :
    /\ req[r].pc = "pick"
    /\ \A y \in req[r].todo \ {x} : Sooner(x, y)
    /\ ~HasOrder(x.pm) /\ inUse[x.pm]
    /\ Continue(r, "number", req[r].todo \ {x}, x.pm, 0, None)
    /\ UNCHANGED <<pm, inUse, order, today>>

\* Faulty variant: a schedule that is not generated ends the sweep.
PickNothingAndStop(r) ==
  \E x \in req[r].todo :
    /\ req[r].pc = "pick"
    /\ \A y \in req[r].todo \ {x} : Sooner(x, y)
    /\ HasOrder(x.pm) \/ ~inUse[x.pm]
    /\ Finish(r)
    /\ UNCHANGED <<pm, inUse, order, today>>

\* It has its work order already, or its asset is retired.
PickNothing(r) ==
  \E x \in req[r].todo :
    /\ req[r].pc = "pick"
    /\ \A y \in req[r].todo \ {x} : Sooner(x, y)
    /\ HasOrder(x.pm) \/ ~inUse[x.pm]
    /\ GoOn(r, req[r].todo \ {x})
    /\ UNCHANGED <<pm, inUse, order, today>>

\* _open_impl takes the greatest number and one.
TakeNumber(r) ==
  /\ req[r].pc = "number"
  /\ Len(order) < MaxOrders
  /\ Continue(r, "insert", req[r].todo, req[r].pm, Len(order) + 1, None)
  /\ UNCHANGED <<pm, inUse, order, today>>

\* Faulty variants: a state the machine does not have; an upsert on the number.
InsertPlanned(r) ==
  /\ req[r].pc = "insert"
  /\ req[r].no = Len(order) + 1
  /\ order' = Append(order, [status |-> "PLANNED", pm |-> req[r].pm])
  /\ pm' = [pm EXCEPT ![req[r].pm].last = req[r].no]
  /\ GoOn(r, req[r].todo)
  /\ UNCHANGED <<inUse, today>>
InsertOver(r) ==
  /\ req[r].pc = "insert"
  /\ order' = [n \in 1..Max({Len(order), req[r].no}) |->
                 IF n = req[r].no THEN [status |-> "OPEN", pm |-> req[r].pm] ELSE order[n]]
  /\ pm' = [pm EXCEPT ![req[r].pm].last = req[r].no]
  /\ GoOn(r, req[r].todo)
  /\ UNCHANGED <<inUse, today>>

\* The INSERT and the soft link of the schedule to its work order.
Insert(r) ==
  /\ req[r].pc = "insert"
  /\ req[r].no = Len(order) + 1
  /\ order' = Append(order, [status |-> "OPEN", pm |-> req[r].pm])
  /\ pm' = [pm EXCEPT ![req[r].pm].last = req[r].no]
  /\ GoOn(r, req[r].todo)
  /\ UNCHANGED <<inUse, today>>

\* The number is taken: the transaction fails on the primary key.
InsertFails(r) ==
  /\ req[r].pc = "insert"
  /\ req[r].no <= Len(order)
  /\ GoOn(r, req[r].todo)
  /\ UNCHANGED <<pm, inUse, order, today>>

\* close_work_order, from COMPLETED, and finish_work_order, from any active state.
CloseLoad(r, n) ==
  /\ req[r].pc = "idle" /\ Free
  /\ Active(n)
  /\ Continue(r, "close", {}, None, n, None)
  /\ UNCHANGED <<pm, inUse, order, today>>

\* The UPDATE of the work order takes its row lock; then the schedule is read.
CloseLock(r) ==
  LET n == req[r].no
      p == order[n].pm
  IN  /\ req[r].pc = "close"
      /\ Unlocked(n)
      /\ Continue(r, "advance", {}, p, n, pm[p])
      /\ UNCHANGED <<pm, inUse, order, today>>

\* Faulty variant: from the day of the close.
NextDueFloating(due, seen) == IF seen.interval = 0 THEN due ELSE today + seen.interval

\* _advance_pm_schedule: from the due date, or from the day of the close without one.
NextDue(due, seen) ==
  IF seen.interval = 0 THEN due
  ELSE (IF seen.due = None THEN today ELSE seen.due) + seen.interval

CloseCommit(r) ==
  LET p == req[r].pm
  IN  /\ req[r].pc = "advance"
      /\ order' = [order EXCEPT ![req[r].no].status = "CLOSED"]
      /\ pm' = [pm EXCEPT ![p].due = NextDue(@, req[r].seen)]
      /\ Finish(r)
      /\ UNCHANGED <<inUse, today>>

\* A confirmed proposal to close: _execute_proposed makes the transition, no more.
ConfirmedClose(n) ==
  /\ Free
  /\ order[n].status = "COMPLETED" /\ Unlocked(n)
  /\ order' = [order EXCEPT ![n].status = "CLOSED"]
  /\ UNCHANGED <<pm, inUse, today, req>>

\* Any other transition.
Move(n, to) ==
  /\ Free
  /\ to \in Allowed[order[n].status] \ {"CLOSED"} /\ Unlocked(n)
  /\ order' = [order EXCEPT ![n].status = to]
  /\ UNCHANGED <<pm, inUse, today, req>>

\* update_pm_schedule: a periodic schedule has a due date.
UpdatePmSchedule(p, interval, due) ==
  /\ Free
  /\ interval > 0 => due # None
  /\ pm' = [pm EXCEPT ![p].interval = interval, ![p].due = due]
  /\ UNCHANGED <<inUse, order, today, req>>

SetSuppressed(p) ==
  /\ Free
  /\ pm' = [pm EXCEPT ![p].suppressed = ~@]
  /\ UNCHANGED <<inUse, order, today, req>>

SetAssetActive(p) ==
  /\ Free
  /\ inUse' = [inUse EXCEPT ![p] = ~@]
  /\ UNCHANGED <<pm, order, today, req>>

NextDay ==
  /\ today < MaxDay /\ Free
  /\ today' = today + 1
  /\ UNCHANGED <<pm, inUse, order, req>>

-----------------------------------------------------------------------------
Dues == DueDates \cup {None}

Init ==
  /\ pm \in [Pms -> {x \in [due : Dues, interval : Intervals, suppressed : {FALSE}, last : {None}] :
                       x.interval > 0 => x.due # None}]
  /\ inUse = [p \in Pms |-> TRUE]
  /\ order = <<>>
  /\ today = FirstDay
  /\ req = [r \in Requests |-> Idle]

Generate(r) == Pick(r) \/ PickNothing(r) \/ TakeNumber(r) \/ Insert(r) \/ InsertFails(r)

Close(r) == CloseLock(r) \/ CloseCommit(r)

Admin(p) ==
  \/ \E interval \in Intervals, due \in Dues : UpdatePmSchedule(p, interval, due)
  \/ SetSuppressed(p)
  \/ SetAssetActive(p)

Next ==
  \/ \E r \in Requests :
       \/ \E p \in Pms : OnDemand(r, p)
       \/ SweepSelect(r)
       \/ Generate(r)
       \/ \E n \in DOMAIN order : CloseLoad(r, n)
       \/ Close(r)
  \/ \E n \in DOMAIN order : ConfirmedClose(n) \/ \E to \in Status : Move(n, to)
  \/ \E p \in Pms : Admin(p)
  \/ NextDay

Spec == Init /\ [][Next]_vars

\* The scheduler is run every day, and what has begun is not left off.
Fairness(r) == SF_vars(SweepSelect(r)) /\ WF_vars(Generate(r)) /\ WF_vars(Close(r))

-----------------------------------------------------------------------------
TypeOK ==
  /\ pm \in [Pms -> Pm]
  /\ inUse \in [Pms -> BOOLEAN]
  /\ order \in Seq(Order)
  /\ today \in Nat
  /\ req \in [Requests -> Request]

\* The soft link of a schedule leads to a work order of its own, however requests race
\* for numbers.
SoftLinkIsOwn ==
  \A p \in Pms : pm[p].last # None => pm[p].last \in DOMAIN order /\ order[pm[p].last].pm = p

\* generate_pm_work_order: "this cycle's PM work order is returned, not generated again".
OneOrderPerPm ==
  \A m, n \in DOMAIN order : Active(m) /\ Active(n) /\ order[m].pm = order[n].pm => m = n

\* The last working day until the day d, as a reference for EffectiveDate.
LastWorkday(d) == Max({x \in (d - 2)..d : x % 7 < 5})

Due(p) ==
  /\ pm[p].due # None /\ pm[p].interval > 0 /\ ~pm[p].suppressed /\ inUse[p]
  /\ LastWorkday(pm[p].due) <= today

\* generate_due_pm_work_orders: "all of these hold" of a schedule the scheduler generates for.
GeneratedWhenDue ==
  [][\A r \in Requests :
       Len(order') > Len(order) /\ req[r].sweep /\ req[r].pc = "insert" /\ req'[r].pc # "insert"
         => Due(req[r].pm)]_vars

\* A due date moves only when an admin edits it, or by one interval for each close.
DueMovesWithCloses ==
  [][\A p \in Pms :
       pm'[p].due # pm[p].due =>
         \/ order' = order /\ req' = req
         \/ /\ pm'[p].due = (IF pm[p].due = None THEN today ELSE pm[p].due) + pm[p].interval
            /\ \E n \in DOMAIN order :
                 order[n].pm = p /\ order[n].status # "CLOSED" /\ order'[n].status = "CLOSED"]_vars

\* The close of a PM work order advances its schedule.
ClosingAdvances ==
  [][\A n \in DOMAIN order :
       LET p == order[n].pm IN
       order[n].status # "CLOSED" /\ order'[n].status = "CLOSED" /\ pm[p].interval > 0
         => pm'[p].due # pm[p].due]_vars

\* The scheduler never misses a due date, whatever fails for other schedules.
DueGetsOrder ==
  \A p \in Pms : Due(p) ~> (HasOrder(p) \/ ~Due(p) \/ Len(order) = MaxOrders)

=============================================================================
