----------------------------- MODULE WorkOrder -----------------------------
(***************************************************************************)
(* The work-order lifecycle: the operations of WorkOrderService that move  *)
(* a work order through its states, edit it, or change what downtime       *)
(* means, as concurrent requests on one PostgreSQL database.               *)
(*                                                                         *)
(* A request loads the row once.  Its UPDATE is conditional on the primary *)
(* key only and names only the columns that differ from what it loaded, so *)
(* the columns it left alone keep whatever another request wrote meanwhile.*)
(* The confirm of a proposal reads the row under a lock and is one step.   *)
(***************************************************************************)
EXTENDS Integers, Sequences, FiniteSets, FiniteSetsExt, Sums, WorkOrderStatus, Session

CONSTANTS
  Requests, WorkOrders, HoldReasons,
  Admins, Engineers, Operators,   \* the accounts by role
  Details,        \* values of the columns edited beside the lifecycle
  None,
  SlowRequests,   \* whether the clock may tick while a request is under way
  MaxClock,       \* bound: ticks of the clock
  MaxHistory      \* bound: rows of status history per work order

Actors == Admins \cup Engineers \cup Operators

ASSUME BoundsAssumption == MaxClock \in Nat /\ MaxHistory \in Nat /\ SlowRequests \in BOOLEAN
ASSUME NoneAssumption == None \notin HoldReasons \cup Details \cup Nat \cup Status
                                      \cup WorkOrders \cup Actors

VARIABLES
  row,       \* row[w]: the work_order row, status "absent" before the INSERT
  history,   \* history[w]: work_order_status_history in the order of its ids
  holdDown,  \* the hold reasons with is_downtime
  clock,
  lived,     \* lived[w]: the state the work order was in at each tick of its life
  req,       \* req[r]: the request under way
  turns      \* whether requests take turns, the same all along

vars == <<row, history, holdDown, clock, lived, req, turns>>

Row == [status : Status \cup {"absent"}, type : {"REACTIVE", "PM", None},
        hold : HoldReasons \cup {None}, closedAt : Nat \cup {None},
        downtime : Nat \cup {None}, by : Actors \cup {None},
        detail : Details \cup {None}]

Absent == [status |-> "absent", type |-> None, hold |-> None, closedAt |-> None,
           downtime |-> None, by |-> None, detail |-> None]

HistoryRow == [from : Status \cup {None}, to : Status, hold : HoldReasons \cup {None}, at : Nat]

(***************************************************************************)
(* Downtime: segment_is_downtime and _recompute_downtime.                  *)
(***************************************************************************)
IsDown(type, s, h) ==
  \/ s = "ON_HOLD" /\ h \in holdDown \cup {None}
  \/ s = "OPEN" /\ type # "PM"
  \/ s = "IN_PROGRESS"

\* get_status_history: the rows ORDER BY changed_at, id.
Until(hist, n) ==
  {m \in DOMAIN hist : hist[m].at < hist[n].at \/ (hist[m].at = hist[n].at /\ m <= n)}
InTime(hist) ==
  [k \in DOMAIN hist |-> hist[CHOOSE n \in DOMAIN hist : Cardinality(Until(hist, n)) = k]]

\* Faulty variant: a segment is judged by the row that ends it.
SegmentsByNextRow(type, h) ==
  [n \in 1..(Len(h) - 1) |->
     IF IsDown(type, h[n + 1].to, h[n + 1].hold) THEN h[n + 1].at - h[n].at ELSE 0]

\* What each segment between two rows counts; the last row opens none.
Segments(type, h) ==
  [n \in 1..(Len(h) - 1) |-> IF IsDown(type, h[n].to, h[n].hold) THEN h[n + 1].at - h[n].at ELSE 0]

Downtime(type, h) == SeqSum(Segments(type, h))

\* Faulty variant: the window goes on to the last row.
EndsLast(hist) == IF hist = <<>> THEN {} ELSE {hist[Len(hist)].at}

\* _active_window_end: the window ends at the first of these rows.
Ends(hist) == {hist[n].at : n \in {m \in DOMAIN hist : hist[m].to \in Terminal \cup {"COMPLETED"}}}

\* Where there is none, the closing time, or now.
WindowEnd(w) ==
  IF Ends(history[w]) # {} THEN Min(Ends(history[w]))
  ELSE IF row[w].closedAt # None THEN row[w].closedAt ELSE clock

OpenedAt(w) == history[w][1].at

\* list_active_in_window: what the SQL filter leaves, and of that what was active.
Coarse(start, end) ==
  {w \in WorkOrders : /\ row[w].status # "absent" /\ OpenedAt(w) <= end
                      /\ row[w].closedAt = None \/ row[w].closedAt >= start}
ActiveInWindow(start, end) == {w \in Coarse(start, end) : WindowEnd(w) >= start}

(***************************************************************************)
(* Operations.                                                             *)
(***************************************************************************)
\* set_hold goes through IN_PROGRESS, to start the work or to change the reason.
SetHoldPath(s) == (IF s \in {"OPEN", "ON_HOLD"} THEN <<"IN_PROGRESS">> ELSE <<>>) \o <<"ON_HOLD">>

\* finish_work_order makes the transitions that are left.
FinishPath(s) ==
  CASE s = "OPEN"      -> <<"IN_PROGRESS", "COMPLETED", "CLOSED">>
    [] s = "COMPLETED" -> <<"CLOSED">>
    [] OTHER           -> <<"COMPLETED", "CLOSED">>

\* The transitions each operation makes in its transaction, from the status it loads.
Path(kind, s) ==
  CASE kind \in {"start_work", "resume_work"} -> <<"IN_PROGRESS">>
    [] kind = "resume_or_start"    -> IF s = "IN_PROGRESS" THEN <<>> ELSE <<"IN_PROGRESS">>
    [] kind = "hold_work"          -> <<"ON_HOLD">>
    [] kind = "set_hold"           -> SetHoldPath(s)
    [] kind = "complete_work"      -> <<"COMPLETED">>
    [] kind = "close_work_order"   -> <<"CLOSED">>
    [] kind = "finish_work_order"  -> FinishPath(s)
    [] kind = "void_work_order"    -> <<"VOIDED">>
    [] kind = "cancel_reactive_report" -> <<"CANCELLED">>

Kinds == {"start_work", "resume_work", "resume_or_start", "hold_work", "set_hold", "complete_work",
          "close_work_order", "finish_work_order", "void_work_order", "cancel_reactive_report"}

Before(s, path, n) == IF n = 1 THEN s ELSE path[n - 1]

\* Faulty variant: a closed work order can be taken up again.
LegalOrReopening(s, path) == s = "CLOSED" \/ \A n \in DOMAIN path : path[n] \in Allowed[Before(s, path, n)]

\* _transition refuses a step that ALLOWED_TRANSITIONS does not have.
LegalPath(s, path) == \A n \in DOMAIN path : path[n] \in Allowed[Before(s, path, n)]

\* Who may do what: operators only cancel what they opened, voiding is for admins.
MayDo(kind, a, w) ==
  /\ kind = "void_work_order" => a \in Admins
  /\ a \in Operators => kind = "cancel_reactive_report" /\ row[w].by = a

Request ==
  [pc : {"idle", "transition", "edit"}, wo : WorkOrders \cup {None},
   by : Actors \cup {None}, path : Seq(Status), hold : HoldReasons \cup {None}, at : Nat,
   detail : Details \cup {None}, seen : Row]

Idle == [pc |-> "idle", wo |-> None, by |-> None, path |-> <<>>, hold |-> None, at |-> 0,
         detail |-> None, seen |-> Absent]

Finish(r) == req' = [req EXCEPT ![r] = Idle]

-----------------------------------------------------------------------------
\* open_work_order (and the other ways into _open_impl).
OpenWorkOrder(w, type, a) ==
  /\ row[w].status = "absent"
  /\ a \in Operators => type = "REACTIVE"
  /\ row' = [row EXCEPT ![w] = [Absent EXCEPT !.status = "OPEN", !.type = type, !.by = a]]
  /\ history' = [history EXCEPT ![w] = <<[from |-> None, to |-> "OPEN", hold |-> None, at |-> clock]>>]
  /\ UNCHANGED <<holdDown, clock, lived, req>>

\* An operation loads the row, and every transition it is about to make is legal.
LoadTransition(r, w, kind, a, h, d) ==
  LET s == row[w].status
      path == Path(kind, s)
  IN  /\ req[r].pc = "idle"
      /\ s # "absent"
      /\ MayDo(kind, a, w)
      /\ path # <<>>
      /\ LegalPath(s, path)
      /\ Len(history[w]) + Len(path) <= MaxHistory
      /\ d # None => kind \in {"complete_work", "close_work_order", "finish_work_order"}
      /\ req' = [req EXCEPT ![r] = [pc |-> "transition", wo |-> w, by |-> a, path |-> path,
                                     hold |-> h, at |-> clock, detail |-> d, seen |-> row[w]]]
      /\ UNCHANGED <<row, history, holdDown, clock, lived>>

\* Faulty variants: an empty reason instead of NULL; a chain recorded as one step; every
\* row starting where the request found the work order.
RowsBlank(seen, path, h, at) ==
  [n \in DOMAIN path |->
     [from |-> Before(seen.status, path, n), to |-> path[n],
      hold |-> IF path[n] = "ON_HOLD" THEN h ELSE "", at |-> at]]
RowsFirst(seen, path, h, at) ==
  [n \in {1} |-> [from |-> seen.status, to |-> path[1],
                  hold |-> IF path[1] = "ON_HOLD" THEN h ELSE None, at |-> at]]
RowsFromLoaded(seen, path, h, at) ==
  [n \in DOMAIN path |->
     [from |-> seen.status, to |-> path[n],
      hold |-> IF path[n] = "ON_HOLD" THEN h ELSE None, at |-> at]]

\* The history rows of one transaction: all at the same time.
Rows(seen, path, h, at) ==
  [n \in DOMAIN path |->
     [from |-> Before(seen.status, path, n), to |-> path[n],
      hold |-> IF path[n] = "ON_HOLD" THEN h ELSE None, at |-> at]]

\* Faulty variant: resuming keeps the reason.
HoldKept(seen, path, h) == IF path[Len(path)] = "ON_HOLD" THEN h ELSE seen.hold

\* The hold reason is set on the way into ON_HOLD and cleared on that into IN_PROGRESS.
HoldAfter(seen, path, h) ==
  IF "ON_HOLD" \in {path[n] : n \in DOMAIN path} THEN h
  ELSE IF "IN_PROGRESS" \in {path[n] : n \in DOMAIN path} THEN None
  ELSE seen.hold

\* The hold column as it is after the UPDATE: a change of reason is written even
\* to the same value, for it went through IN_PROGRESS.
HoldStored(w, seen, path, h) ==
  IF path = <<"IN_PROGRESS", "ON_HOLD">> THEN h
  ELSE Written(HoldAfter(seen, path, h), seen.hold, row[w].hold)

\* The transitions of a transaction that loaded seen, as its commit makes them.
Apply(w, seen, path, h, at, d) ==
  LET hist    == history[w] \o Rows(seen, path, h, at)
      to      == path[Len(path)]
      old     == row[w]
      closing == to = "CLOSED"
  IN  /\ history' = [history EXCEPT ![w] = hist]
      /\ row' = [row EXCEPT ![w] =
           [status   |-> to,
            type     |-> old.type,
            hold     |-> HoldStored(w, seen, path, h),
            closedAt |-> IF closing THEN at ELSE old.closedAt,
            downtime |-> IF closing
                           THEN Written(Downtime(seen.type, InTime(hist)), seen.downtime, old.downtime)
                           ELSE old.downtime,
            by       |-> old.by,
            detail   |-> IF d = None THEN old.detail ELSE Written(d, seen.detail, old.detail)]]

CommitTransition(r) ==
  /\ req[r].pc = "transition"
  /\ Apply(req[r].wo, req[r].seen, req[r].path, req[r].hold, req[r].at, req[r].detail)
  /\ Finish(r)
  /\ UNCHANGED <<holdDown, clock, lived>>

\* A confirmed close or void: loaded and committed under the row lock, by a request
\* that does nothing else.
ConfirmedTransition(r, w, to) ==
  /\ req[r].pc = "idle"
  /\ to \in {"CLOSED", "VOIDED"}
  /\ row[w].status # "absent"
  /\ LegalPath(row[w].status, <<to>>)
  /\ Len(history[w]) < MaxHistory
  /\ Apply(w, row[w], <<to>>, None, clock, None)
  /\ UNCHANGED <<holdDown, clock, lived, req>>

\* Faulty variant: the freeze forgets voided work orders.
MayEditVoided(kind, w, a) ==
  row[w].status \in {"CLOSED", "CANCELLED"} => kind = "detail" /\ a \in Admins

\* set_confirmed_reason, update_brief_description and set_seed_field are frozen on a
\* terminal work order, except to an admin; set_assignees to everybody.
MayEdit(kind, w, a) == row[w].status \in Terminal => kind = "detail" /\ a \in Admins

LoadEdit(r, w, kind, a, d) ==
  /\ req[r].pc = "idle"
  /\ row[w].status # "absent"
  /\ a \notin Operators
  /\ MayEdit(kind, w, a)
  /\ row[w].detail # d
  /\ req' = [req EXCEPT ![r] = [Idle EXCEPT !.pc = "edit", !.wo = w, !.by = a, !.detail = d,
                                            !.seen = row[w]]]
  /\ UNCHANGED <<row, history, holdDown, clock, lived>>

CommitEdit(r) ==
  /\ req[r].pc = "edit"
  /\ row' = [row EXCEPT ![req[r].wo].detail = req[r].detail]
  /\ Finish(r)
  /\ UNCHANGED <<history, holdDown, clock, lived>>

\* Faulty variant: closed work orders follow the new meaning.
UpdateHoldReasonRecomputing(h) ==
  /\ holdDown' \in {holdDown \cup {h}, holdDown \ {h}}
  /\ row' = [w \in WorkOrders |->
               IF row[w].status = "CLOSED"
                 THEN [row[w] EXCEPT !.downtime = Cardinality({n \in DOMAIN history[w] :
                                                                 history[w][n].hold \in holdDown'})]
                 ELSE row[w]]
  /\ UNCHANGED <<history, clock, lived, req>>

\* update_hold_reason: whether waiting for this reason is downtime.
UpdateHoldReason(h) ==
  /\ holdDown' \in {holdDown \cup {h}, holdDown \ {h}}
  /\ UNCHANGED <<row, history, clock, lived, req>>

\* A tick of the clock.  A transition is dated when its request loads the work order.
Tick ==
  /\ clock < MaxClock
  /\ SlowRequests \/ \A r \in Requests : req[r].pc = "idle"
  /\ clock' = clock + 1
  /\ lived' = [w \in WorkOrders |->
                 IF row[w].status = "absent" THEN lived[w]
                 ELSE Append(lived[w], [status |-> row[w].status,
                                        hold |-> IF row[w].status = "ON_HOLD" THEN row[w].hold ELSE None])]
  /\ UNCHANGED <<row, history, holdDown, req>>

-----------------------------------------------------------------------------
Init ==
  /\ row = [w \in WorkOrders |-> Absent]
  /\ history = [w \in WorkOrders |-> <<>>]
  /\ holdDown \in SUBSET HoldReasons
  /\ clock = 0
  /\ lived = [w \in WorkOrders |-> <<>>]
  /\ req = [r \in Requests |-> Idle]
  /\ turns \in BOOLEAN

Load(r) ==
  \E w \in WorkOrders, a \in Actors :
    \/ \E kind \in Kinds, h \in HoldReasons, d \in Details \cup {None} :
         LoadTransition(r, w, kind, a, h, d)
    \/ \E kind \in {"detail", "assignees"}, d \in Details \cup {None} : LoadEdit(r, w, kind, a, d)

Commit(r) == CommitTransition(r) \/ CommitEdit(r)

Start ==
  \/ \E r \in Requests : Load(r)
  \/ \E w \in WorkOrders, type \in {"REACTIVE", "PM"}, a \in Actors : OpenWorkOrder(w, type, a)
  \/ \E r \in Requests, w \in WorkOrders, to \in Status : ConfirmedTransition(r, w, to)
  \/ \E h \in HoldReasons : UpdateHoldReason(h)
  \/ Tick

Quiet == \A r \in Requests : req[r] = Idle

\* Where requests take turns, nothing happens between the load of one and its commit.
Next ==
  /\ \/ \E r \in Requests : Commit(r)
     \/ (turns => Quiet) /\ Start
  /\ UNCHANGED turns

Spec == Init /\ [][Next]_vars

-----------------------------------------------------------------------------
TypeOK ==
  /\ row \in [WorkOrders -> Row]
  /\ history \in [WorkOrders -> Seq(HistoryRow)]
  /\ holdDown \subseteq HoldReasons
  /\ clock \in Nat
  /\ lived \in [WorkOrders -> Seq([status : Status, hold : HoldReasons \cup {None}])]
  /\ req \in [Requests -> Request]
  /\ turns \in BOOLEAN

\* Whatever requests race, the status column is where the last row of the history
\* leads: _transition writes both, and the row lock of the UPDATE orders the INSERTs.
StatusIsLastRow ==
  \A w \in WorkOrders :
    /\ row[w].status = "absent" <=> history[w] = <<>>
    /\ history[w] # <<>> => history[w][Len(history[w])].to = row[w].status

\* Every row of the history is a transition of ALLOWED_TRANSITIONS, and the first
\* one, and no other, is the opening.
HistoryRowsLegal ==
  \A w \in WorkOrders : \A n \in DOMAIN history[w] :
    LET h == history[w][n] IN
      /\ n = 1 => h.from = None /\ h.to = "OPEN"
      /\ n > 1 => h.from \in Status /\ h.to \in Allowed[h.from]

\* list_active_in_window filters on closed_at in SQL before it looks at the history: no work
\* order that was active in a window is lost, however requests race.
WindowFilterIsSafe ==
  \A start, end \in 0..clock :
    start <= end =>
      ActiveInWindow(start, end) =
        {w \in WorkOrders : /\ row[w].status # "absent"
                            /\ OpenedAt(w) <= end /\ WindowEnd(w) >= start}

(***************************************************************************)
(* What requests that take turns keep.                                     *)
(***************************************************************************)
\* Each row of the history starts where the one before ended.
Chained ==
  \A w \in WorkOrders : \A n \in DOMAIN history[w] :
    n > 1 => history[w][n].from = history[w][n - 1].to

\* A work order on hold has a reason, and one that is worked on has none.
HoldExplained ==
  \A w \in WorkOrders :
    /\ row[w].status = "ON_HOLD" => row[w].hold # None
    /\ row[w].status \in {"OPEN", "IN_PROGRESS"} => row[w].hold = None

\* Requests that take turns record a chain, through the chained transitions of set_hold
\* and finish_work_order, and leave a reason on every hold and on nothing that is worked on.
HistoryTellsWhy == turns => Chained /\ HoldExplained

TerminalKept ==
  \A w \in WorkOrders : row[w].status \in Terminal => row'[w].status = row[w].status

FrozenKept ==
  \A w \in WorkOrders :
    row[w].status \in Terminal /\ row'[w].detail # row[w].detail
      => \E r \in Requests : req[r].wo = w /\ req[r].by \in Admins /\ req'[r].pc = "idle"

\* CLOSED, CANCELLED and VOIDED are terminal: no transition of a request that takes its turn
\* leaves them, and only an admin changes what the work order says.
TerminalIsFrozen == [][turns => TerminalKept /\ FrozenKept]_vars

\* How long the work order was in states that stop the machine.
TimeDown(w) ==
  Cardinality({n \in DOMAIN lived[w] : IsDown(row[w].type, lived[w][n].status, lived[w][n].hold)})

ClosedWithTimeDown ==
  \A w \in WorkOrders :
    row[w].status # "CLOSED" /\ row'[w].status = "CLOSED" => row'[w].downtime = TimeDown(w)

DowntimeKept ==
  \A w \in WorkOrders : row[w].status = "CLOSED" => row'[w].downtime = row[w].downtime

\* The columns keep their types however requests race, and where requests take turns the
\* downtime recorded at the close is the time the work order spent in states that stop the
\* machine, and stays: update_hold_reason does not go back over closed work orders.
DowntimeIsTrue == []TypeOK /\ [][turns => ClosedWithTimeDown /\ DowntimeKept]_vars

=============================================================================
