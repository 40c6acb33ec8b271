------------------------------- MODULE OnBox -------------------------------
(***************************************************************************)
(* Reports from the box beside a machine: a signed message opens a work    *)
(* order under the key of the report, another cancels it, and staff move   *)
(* the order meanwhile.  Messages may be repeated, late or out of order;   *)
(* what the signature says is a message's operation and key.               *)
(***************************************************************************)
EXTENDS Naturals, Sequences, WorkOrderStatus

CONSTANTS
  ReportKeys,   \* idempotency keys of reports
  Posts,        \* requests of the box that may be under way at once
  Hands         \* requests of staff that may be under way at once

VARIABLES
  machine,    \* the machine in the asset master: "active", "retired" or "missing"
  reported,   \* by key: the statuses of the work orders that carry it
  post,       \* the requests of the box under way
  hand,       \* the changes of status by staff under way
  withdrawn,  \* ghost: the keys whose cancellation was answered
  takenOver,  \* ghost: the keys whose order staff began to work on
  raced     \* ghost: the keys two requests changed at once

onBoxVars == <<machine, reported, post, hand, withdrawn, takenOver, raced>>

NoPost == [op |-> "idle"]
NoHand == [to |-> "idle"]

PostState == {NoPost} \cup [op : {"open", "cancel"}, key : ReportKeys]
HandState == {NoHand} \cup [to : Status, key : ReportKeys]

\* Another request is about to change the status of the order.
Busy(k) == (\E p \in Posts : post[p].op = "cancel" /\ post[p].key = k)
             \/ (\E h \in Hands : hand[h] # NoHand /\ hand[h].key = k)

Races(k) == raced' = IF Busy(k) THEN raced \cup {k} ELSE raced

\* The order of a key, as session.scalar finds it.
StatusOf(k) == reported[k][1]

-----------------------------------------------------------------------------
(***************************************************************************)
(* open_reactive_work_order_onbox: a key that has an order is answered     *)
(* with it, and a machine that is unknown or retired is refused.           *)
(***************************************************************************)
BeginReport(p, k) ==
  /\ post[p] = NoPost /\ reported[k] = <<>> /\ machine = "active"
  /\ post' = [post EXCEPT ![p] = [op |-> "open", key |-> k]]
  /\ UNCHANGED <<machine, reported, hand, withdrawn, takenOver, raced>>

\* Faulty variant: the key has no unique index.
NotRefused(k) == TRUE

\* The unique index on the key: the second INSERT fails.
KeyIsFree(k) == reported[k] = <<>>

CommitReport(p) ==
  LET k == post[p].key
  IN  /\ post[p].op = "open"
      /\ reported' = IF KeyIsFree(k) THEN [reported EXCEPT ![k] = Append(@, "OPEN")] ELSE reported
      /\ post' = [post EXCEPT ![p] = NoPost]
      /\ UNCHANGED <<machine, hand, withdrawn, takenOver, raced>>

(***************************************************************************)
(* cancel_reactive_report_onbox: only an order that is still open.         *)
(***************************************************************************)
\* Faulty variant: whatever is not finished may be cancelled.
MayWithdrawAny(k) == StatusOf(k) \notin Terminal

MayWithdraw(k) == "CANCELLED" \in Allowed[StatusOf(k)]

BeginWithdraw(p, k) ==
  /\ post[p] = NoPost /\ reported[k] # <<>> /\ MayWithdraw(k)
  /\ post' = [post EXCEPT ![p] = [op |-> "cancel", key |-> k]]
  /\ Races(k)
  /\ UNCHANGED <<machine, reported, hand, withdrawn, takenOver>>

\* One that is cancelled already is answered as it is.
AnswerWithdrawn(k) ==
  /\ reported[k] # <<>> /\ StatusOf(k) = "CANCELLED"
  /\ withdrawn' = withdrawn \cup {k}
  /\ UNCHANGED <<machine, reported, post, hand, takenOver, raced>>

CommitWithdraw(p) ==
  LET k == post[p].key
  IN  /\ post[p].op = "cancel"
      /\ reported' = [reported EXCEPT ![k][1] = "CANCELLED"]
      /\ withdrawn' = withdrawn \cup {k}
      /\ post' = [post EXCEPT ![p] = NoPost]
      /\ UNCHANGED <<machine, hand, takenOver, raced>>

-----------------------------------------------------------------------------
(***************************************************************************)
(* Staff: the other transitions of the order, and the asset master.        *)
(***************************************************************************)
BeginMove(h, k, to) ==
  /\ hand[h] = NoHand /\ reported[k] # <<>> /\ to \in Allowed[StatusOf(k)]
  /\ hand' = [hand EXCEPT ![h] = [to |-> to, key |-> k]]
  /\ Races(k)
  /\ UNCHANGED <<machine, reported, post, withdrawn, takenOver>>

CommitMove(h) ==
  LET k == hand[h].key
  IN  /\ hand[h] # NoHand
      /\ reported' = [reported EXCEPT ![k][1] = hand[h].to]
      /\ takenOver' = IF hand[h].to = "IN_PROGRESS" THEN takenOver \cup {k} ELSE takenOver
      /\ hand' = [hand EXCEPT ![h] = NoHand]
      /\ UNCHANGED <<machine, post, withdrawn, raced>>

ChangeMachine(m) ==
  /\ m # "missing" /\ machine' = m
  /\ UNCHANGED <<reported, post, hand, withdrawn, takenOver, raced>>

-----------------------------------------------------------------------------
OnBoxInit ==
  /\ machine \in {"active", "retired", "missing"}
  /\ reported = [k \in ReportKeys |-> <<>>]
  /\ post = [p \in Posts |-> NoPost] /\ hand = [h \in Hands |-> NoHand]
  /\ withdrawn = {} /\ takenOver = {} /\ raced = {}

OnBoxNext ==
  \/ \E p \in Posts : \/ \E k \in ReportKeys : BeginReport(p, k) \/ BeginWithdraw(p, k)
                      \/ CommitReport(p) \/ CommitWithdraw(p)
  \/ \E k \in ReportKeys : AnswerWithdrawn(k)
  \/ \E h \in Hands : \/ \E k \in ReportKeys, to \in Status : BeginMove(h, k, to)
                      \/ CommitMove(h)
  \/ \E m \in {"active", "retired"} : ChangeMachine(m)

OnBoxSpec == OnBoxInit /\ [][OnBoxNext]_onBoxVars

-----------------------------------------------------------------------------
OnBoxTypeOK ==
  /\ machine \in {"active", "retired", "missing"}
  /\ \A k \in ReportKeys : \A n \in DOMAIN reported[k] : reported[k][n] \in Status
  /\ post \in [Posts -> PostState] /\ hand \in [Hands -> HandState]
  /\ withdrawn \cup takenOver \cup raced \subseteq ReportKeys

\* However often a report is sent, it has one work order; one whose cancellation the box was
\* told of stays cancelled, whatever arrives after; and one that staff began to work on is
\* never cancelled, unless two requests changed the order at once.
ReportsAreKept ==
  \A k \in ReportKeys :
    /\ Len(reported[k]) <= 1
    /\ k \in withdrawn \ raced => StatusOf(k) = "CANCELLED"
    /\ k \in takenOver \ raced => StatusOf(k) # "CANCELLED"

=============================================================================
