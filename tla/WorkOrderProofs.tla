-------------------------- MODULE WorkOrderProofs --------------------------
(***************************************************************************)
(* Theorems about WorkOrder, for any sets of requests, work orders, hold   *)
(* reasons and accounts: what its history says holds however requests race.*)
(***************************************************************************)
EXTENDS WorkOrder, SequenceLemmas

\* The fields of a row, whatever their values.
IsRow(x) ==
  x = [status |-> x.status, type |-> x.type, hold |-> x.hold, closedAt |-> x.closedAt,
       downtime |-> x.downtime, by |-> x.by, detail |-> x.detail]

\* What a request about to commit transitions has loaded.
Loaded(q) ==
  /\ q.wo \in WorkOrders
  /\ q.seen.status \in Status
  /\ q.path \in Seq(Status)
  /\ q.path # <<>>
  /\ LegalPath(q.seen.status, q.path)
  /\ q.hold \in HoldReasons \cup {None}
  /\ q.at \in Nat
  /\ history[q.wo] # <<>>

Shape ==
  /\ row = [w \in WorkOrders |-> row[w]]
  /\ \A w \in WorkOrders : IsRow(row[w]) /\ row[w].status \in Status \cup {"absent"}
  /\ history \in [WorkOrders -> Seq(HistoryRow)]
  /\ clock \in Nat
  /\ req = [r \in Requests |-> req[r]]
  /\ \A r \in Requests :
       /\ req[r].pc = "transition" => Loaded(req[r])
       /\ req[r].pc = "edit" => req[r].wo \in WorkOrders

Inv == Shape /\ StatusIsLastRow /\ HistoryRowsLegal

LEMMA InitInv == Init => Inv
<1> SUFFICES ASSUME Init PROVE Inv
  OBVIOUS
<1>1. Shape
  BY DEF Init, Shape, Absent, IsRow, Idle
<1>2. StatusIsLastRow
  BY DEF Init, StatusIsLastRow, Absent
<1>3. HistoryRowsLegal
  BY DEF Init, HistoryRowsLegal
<1>4. QED
  BY <1>1, <1>2, <1>3 DEF Inv

\* The rows of one transaction: as many as its path has steps, each of them legal.
FollowPath(R, seen, path, at) ==
  /\ R \in Seq(HistoryRow)
  /\ Len(R) = Len(path)
  /\ \A n \in 1..Len(path) :
       /\ R[n].to = path[n] /\ R[n].from \in Status /\ R[n].to \in Allowed[R[n].from]
       /\ R[n].from = Before(seen.status, path, n) /\ R[n].at = at

LEMMA RowsOfAPath ==
  ASSUME NEW seen, NEW path \in Seq(Status), NEW h \in HoldReasons \cup {None},
         NEW at \in Nat, seen.status \in Status, LegalPath(seen.status, path)
  PROVE  FollowPath(Rows(seen, path, h, at), seen, path, at)
<1>0. PICK R : R = Rows(seen, path, h, at)
  OBVIOUS
<1>1. DOMAIN path = 1..Len(path) /\ Len(path) \in Nat
  OBVIOUS
<1>2. \A n \in 1..Len(path) : Before(seen.status, path, n) \in Status
  BY <1>1 DEF Before
<1>3. \A n \in 1..Len(path) :
        /\ R[n] = [from |-> Before(seen.status, path, n), to |-> path[n],
                   hold |-> IF path[n] = "ON_HOLD" THEN h ELSE None, at |-> at]
        /\ R[n] \in HistoryRow
  BY <1>0, <1>1, <1>2 DEF Rows, HistoryRow
<1>4. \A n \in 1..Len(path) :
        R[n].from = Before(seen.status, path, n) /\ R[n].to = path[n] /\ R[n].at = at
  BY <1>0, <1>1 DEF Rows
<1>5. R \in [1..Len(path) -> HistoryRow]
  BY <1>0, <1>1, <1>3 DEF Rows
<1>6. R \in Seq(HistoryRow) /\ Len(R) = Len(path)
  BY <1>1, <1>5
<1>7. \A n \in 1..Len(path) : path[n] \in Allowed[Before(seen.status, path, n)]
  BY <1>1 DEF LegalPath
<1>8. \A n \in 1..Len(path) :
        R[n].to = path[n] /\ R[n].from \in Status /\ R[n].to \in Allowed[R[n].from]
  <2> SUFFICES ASSUME NEW n \in 1..Len(path)
               PROVE  R[n].to = path[n] /\ R[n].from \in Status /\ R[n].to \in Allowed[R[n].from]
    OBVIOUS
  <2>1. R[n].from = Before(seen.status, path, n) /\ R[n].to = path[n]
    BY <1>4
  <2>2. QED
    BY <1>2, <1>7, <2>1
<1>9. QED
  BY <1>0, <1>4, <1>6, <1>8 DEF FollowPath

\* The commit of a transaction keeps the invariant, whatever the row has become
\* since the transaction loaded it.
LEMMA ApplyKeepsHistory ==
  ASSUME Inv, NEW w \in WorkOrders, NEW seen, NEW path \in Seq(Status), path # <<>>,
         NEW h \in HoldReasons \cup {None}, NEW at \in Nat, NEW d, seen.status \in Status,
         LegalPath(seen.status, path), history[w] # <<>>, Apply(w, seen, path, h, at, d)
  PROVE  /\ history' \in [WorkOrders -> Seq(HistoryRow)]
         /\ \A v \in WorkOrders : history[v] # <<>> => history'[v] # <<>>
         /\ row' = [v \in WorkOrders |-> row'[v]]
         /\ \A v \in WorkOrders : IsRow(row'[v]) /\ row'[v].status \in Status \cup {"absent"}
         /\ StatusIsLastRow'
         /\ HistoryRowsLegal'
<1>0. PICK R : R = Rows(seen, path, h, at)
  OBVIOUS
<1> DEFINE hist == history[w] \o R
           to == path[Len(path)]
<1>1. /\ history[w] \in Seq(HistoryRow)
      /\ R \in Seq(HistoryRow)
      /\ Len(R) = Len(path)
      /\ Len(path) \in Nat \ {0}
      /\ \A n \in 1..Len(path) :
           R[n].to = path[n] /\ R[n].from \in Status /\ R[n].to \in Allowed[R[n].from]
  <2>1. history[w] \in Seq(HistoryRow)
    BY DEF Inv, Shape
  <2>2. Len(path) \in Nat \ {0}
    OBVIOUS
  <2>3. /\ R \in Seq(HistoryRow)
        /\ Len(R) = Len(path)
        /\ \A n \in 1..Len(path) :
             R[n].to = path[n] /\ R[n].from \in Status /\ R[n].to \in Allowed[R[n].from]
    <3>1. FollowPath(R, seen, path, at)
      BY <1>0, RowsOfAPath
    <3>2. QED
      BY <3>1 DEF FollowPath
  <2>4. QED
    BY <2>1, <2>2, <2>3
<1>2. /\ hist \in Seq(HistoryRow)
      /\ Len(hist) = Len(history[w]) + Len(path)
      /\ \A n \in 1..Len(hist) :
           hist[n] = IF n <= Len(history[w]) THEN history[w][n] ELSE R[n - Len(history[w])]
  <2> DEFINE h1 == history[w]
  <2> HIDE DEF h1
  <2>1. h1 \in Seq(HistoryRow) /\ R \in Seq(HistoryRow)
    BY <1>1 DEF h1
  <2>2. /\ h1 \o R \in Seq(HistoryRow)
        /\ Len(h1 \o R) = Len(h1) + Len(R)
        /\ \A n \in 1..Len(h1) + Len(R) : (h1 \o R)[n] = IF n <= Len(h1) THEN h1[n] ELSE R[n - Len(h1)]
    BY <2>1, ConcatProperties
  <2>3. QED
    BY <1>1, <2>2 DEF h1
<1>3. history' = [history EXCEPT ![w] = hist]
  BY <1>0 DEF Apply
<1>4. to \in Status
  BY <1>1
<1>5. /\ row' = [v \in WorkOrders |-> row'[v]]
      /\ \A v \in WorkOrders : v # w => row'[v] = row[v]
      /\ IsRow(row'[w]) /\ row'[w].status = to
  BY DEF Apply, Inv, Shape, IsRow
<1>6. Len(history[w]) \in Nat \ {0}
  BY <1>1
<1> HIDE DEF hist, to
<1>7. history' \in [WorkOrders -> Seq(HistoryRow)]
  BY <1>2, <1>3 DEF Inv, Shape
<1>8. hist[Len(hist)].to = to
  <2>1. Len(hist) \in 1..Len(hist) /\ ~(Len(hist) <= Len(history[w]))
    BY <1>1, <1>2, <1>6
  <2>2. Len(hist) - Len(history[w]) = Len(path)
    BY <1>1, <1>2, <1>6
  <2>3. hist[Len(hist)] = R[Len(path)]
    BY <1>2, <2>1, <2>2
  <2>4. QED
    BY <1>1, <2>3 DEF to
<1>9. hist # <<>>
  BY <1>1, <1>2, <1>6
<1>10. StatusIsLastRow'
  <2>1. \A v \in WorkOrders : v # w => history'[v] = history[v]
    BY <1>3 DEF Inv, Shape
  <2>2. history'[w] = hist
    BY <1>3 DEF Inv, Shape
  <2>3. to # "absent"
    BY <1>4 DEF Status
  <2>4. QED
    BY <1>5, <1>8, <1>9, <2>1, <2>2, <2>3 DEF Inv, StatusIsLastRow
<1>11. \A n \in DOMAIN hist :
         /\ n = 1 => hist[n].from = None /\ hist[n].to = "OPEN"
         /\ n > 1 => hist[n].from \in Status /\ hist[n].to \in Allowed[hist[n].from]
  <2> SUFFICES ASSUME NEW n \in DOMAIN hist
               PROVE  /\ n = 1 => hist[n].from = None /\ hist[n].to = "OPEN"
                      /\ n > 1 => hist[n].from \in Status /\ hist[n].to \in Allowed[hist[n].from]
    OBVIOUS
  <2>0. n \in 1..Len(hist) /\ n \in Nat
    BY <1>2
  <2>1. CASE n <= Len(history[w])
    <3>1. hist[n] = history[w][n] /\ n \in DOMAIN history[w]
      BY <1>1, <1>2, <2>0, <2>1
    <3>2. QED
      BY <3>1 DEF Inv, HistoryRowsLegal
  <2>2. CASE n > Len(history[w])
    <3>1. hist[n] = R[n - Len(history[w])] /\ n - Len(history[w]) \in 1..Len(path)
      BY <1>1, <1>2, <1>6, <2>0, <2>2
    <3>2. n > 1
      BY <1>6, <2>0, <2>2
    <3>3. QED
      BY <1>1, <3>1, <3>2
  <2>3. QED
    BY <1>6, <2>0, <2>1, <2>2
<1>12. HistoryRowsLegal'
  <2>1. \A v \in WorkOrders : history'[v] = IF v = w THEN hist ELSE history[v]
    BY <1>3 DEF Inv, Shape
  <2>2. QED
    BY <1>11, <2>1 DEF Inv, HistoryRowsLegal
<1>13. QED
  BY <1>3, <1>4, <1>5, <1>7, <1>9, <1>10, <1>12 DEF Inv, Shape

\* The transitions an operation makes are statuses.
LEMMA PathIsStatuses ==
  ASSUME NEW kind \in Kinds, NEW s
  PROVE  Path(kind, s) \in Seq(Status)
<1>1. \A x \in Status : <<x>> \in Seq(Status)
  OBVIOUS
<1>2. \A x, y \in Status : <<x, y>> \in Seq(Status)
  OBVIOUS
<1>3. \A x, y, z \in Status : <<x, y, z>> \in Seq(Status)
  OBVIOUS
<1>4. <<>> \in Seq(Status)
  OBVIOUS
<1>5. {"IN_PROGRESS", "ON_HOLD", "COMPLETED", "CLOSED", "VOIDED", "CANCELLED"} \subseteq Status
  BY DEF Status
<1>6. SetHoldPath(s) \in Seq(Status) /\ FinishPath(s) \in Seq(Status)
  BY <1>1, <1>2, <1>3, <1>4, <1>5 DEF SetHoldPath, FinishPath
<1>7. QED
  BY <1>1, <1>4, <1>5, <1>6 DEF Path, Kinds

LEMMA LoadKeepsInv ==
  ASSUME Inv, NEW r \in Requests, Load(r)
  PROVE  Inv'
<1>2. ASSUME NEW w \in WorkOrders, NEW a \in Actors, NEW kind \in Kinds, NEW h \in HoldReasons,
             NEW d \in Details \cup {None}, LoadTransition(r, w, kind, a, h, d)
      PROVE  Shape' /\ UNCHANGED <<row, history, clock>>
  <2> DEFINE s == row[w].status
             path == Path(kind, s)
             q == [pc |-> "transition", wo |-> w, by |-> a, path |-> path,
                   hold |-> h, at |-> clock, detail |-> d, seen |-> row[w]]
  <2>0. UNCHANGED <<row, history, clock>>
    BY <1>2 DEF LoadTransition
  <2>1. path # <<>> /\ LegalPath(s, path) /\ s # "absent" /\ req' = [req EXCEPT ![r] = q]
    BY <1>2 DEF LoadTransition
  <2>2. path \in Seq(Status)
    BY PathIsStatuses
  <2>3. s \in Status /\ history[w] # <<>>
    BY <2>1 DEF Inv, Shape, StatusIsLastRow
  <2>4. Loaded(q) /\ q.pc = "transition"
    <3>1. q.wo = w /\ q.seen = row[w] /\ q.path = path /\ q.hold = h /\ q.at = clock /\ q.pc = "transition"
      OBVIOUS
    <3> HIDE DEF q, path
    <3>2. QED
      BY <2>1, <2>2, <2>3, <3>1 DEF Loaded, Inv, Shape
  <2> HIDE DEF q, path, s
  <2>5. \A x \in Requests : req'[x] = IF x = r THEN q ELSE req[x]
    BY <2>1 DEF Inv, Shape
  <2>6. Shape'
    BY <2>0, <2>1, <2>4, <2>5 DEF Inv, Shape, Loaded
  <2>7. QED
    BY <2>0, <2>6
<1>3. ASSUME NEW w \in WorkOrders, NEW a \in Actors, NEW kind \in {"detail", "assignees"},
             NEW d \in Details \cup {None}, LoadEdit(r, w, kind, a, d)
      PROVE  Shape' /\ UNCHANGED <<row, history, clock>>
  BY <1>3 DEF LoadEdit, Idle, Inv, Shape, Loaded
<1>4. Shape' /\ UNCHANGED <<row, history, clock>>
  BY <1>2, <1>3 DEF Load
<1>5. StatusIsLastRow' /\ HistoryRowsLegal'
  BY <1>4 DEF Inv, StatusIsLastRow, HistoryRowsLegal
<1>6. QED
  BY <1>4, <1>5 DEF Inv

\* Changing the detail of a row leaves it a row in the same state.
LEMMA DetailKeepsRow ==
  ASSUME NEW x, NEW d, IsRow(x)
  PROVE  IsRow([x EXCEPT !.detail = d]) /\ [x EXCEPT !.detail = d].status = x.status
<1>1. PICK s, t, h, c, m, b, e :
        x = [status |-> s, type |-> t, hold |-> h, closedAt |-> c, downtime |-> m, by |-> b, detail |-> e]
  BY DEF IsRow
<1>2. [x EXCEPT !.detail = d]
        = [status |-> s, type |-> t, hold |-> h, closedAt |-> c, downtime |-> m, by |-> b, detail |-> d]
  BY <1>1
<1>3. QED
  BY <1>1, <1>2 DEF IsRow

LEMMA CommitKeepsInv ==
  ASSUME Inv, NEW r \in Requests, Commit(r)
  PROVE  Inv'
<1>1. CASE CommitTransition(r)
  <2>1. Loaded(req[r]) /\ req' = [req EXCEPT ![r] = Idle] /\ UNCHANGED clock
        /\ Apply(req[r].wo, req[r].seen, req[r].path, req[r].hold, req[r].at, req[r].detail)
    BY <1>1 DEF CommitTransition, Finish, Inv, Shape
  <2>2. /\ history' \in [WorkOrders -> Seq(HistoryRow)]
        /\ \A v \in WorkOrders : history[v] # <<>> => history'[v] # <<>>
        /\ row' = [v \in WorkOrders |-> row'[v]]
        /\ \A v \in WorkOrders : IsRow(row'[v]) /\ row'[v].status \in Status \cup {"absent"}
        /\ StatusIsLastRow'
        /\ HistoryRowsLegal'
    BY <2>1, ApplyKeepsHistory DEF Loaded
  <2>3. Shape'
    BY <2>1, <2>2 DEF Inv, Shape, Loaded, Idle
  <2>4. QED
    BY <2>2, <2>3 DEF Inv
<1>2. CASE CommitEdit(r)
  <2>1. /\ UNCHANGED <<history, clock>>
        /\ req' = [req EXCEPT ![r] = Idle]
        /\ row' = [row EXCEPT ![req[r].wo].detail = req[r].detail]
    BY <1>2 DEF CommitEdit, Finish
  <2>2. \A w \in WorkOrders : IsRow(row'[w]) /\ row'[w].status = row[w].status
    <3>1. req[r].wo \in WorkOrders
      BY <1>2 DEF CommitEdit, Inv, Shape
    <3> DEFINE new == [row[req[r].wo] EXCEPT !.detail = req[r].detail]
    <3>2. row' = [row EXCEPT ![req[r].wo] = new]
      BY <2>1, Zenon
    <3>3. IsRow(new) /\ new.status = row[req[r].wo].status
      BY <3>1, DetailKeepsRow, Zenon DEF Inv, Shape
    <3> HIDE DEF new
    <3>4. \A w \in WorkOrders : row'[w] = IF w = req[r].wo THEN new ELSE row[w]
      <4>1. DOMAIN row = WorkOrders
        BY Zenon DEF Inv, Shape
      <4>2. QED
        BY <3>2, <4>1, Zenon
    <3>5. QED
      BY <3>3, <3>4, Zenon DEF Inv, Shape
  <2>3. Shape'
    BY <2>1, <2>2 DEF Inv, Shape, Loaded, Idle
  <2>4. StatusIsLastRow' /\ HistoryRowsLegal'
    BY <2>1, <2>2 DEF Inv, StatusIsLastRow, HistoryRowsLegal
  <2>5. QED
    BY <2>3, <2>4 DEF Inv
<1>3. QED
  BY <1>1, <1>2 DEF Commit

LEMMA OpenKeepsInv ==
  ASSUME Inv, NEW w \in WorkOrders, NEW type \in {"REACTIVE", "PM"}, NEW a \in Actors,
         OpenWorkOrder(w, type, a)
  PROVE  Inv'
<1> DEFINE first == [from |-> None, to |-> "OPEN", hold |-> None, at |-> clock]
<1>1. first \in HistoryRow
  BY DEF HistoryRow, Status, Inv, Shape
<1>2. /\ history' = [history EXCEPT ![w] = <<first>>]
      /\ UNCHANGED <<clock, req>>
  BY DEF OpenWorkOrder
<1>3. /\ row' = [v \in WorkOrders |-> row'[v]]
      /\ \A v \in WorkOrders : v # w => row'[v] = row[v]
      /\ row'[w].status = "OPEN" /\ IsRow(row'[w])
  BY DEF OpenWorkOrder, Absent, Inv, Shape, IsRow
<1>4. <<first>> \in Seq(HistoryRow) /\ Len(<<first>>) = 1 /\ <<first>>[1] = first /\ <<first>> # <<>>
  BY <1>1
<1>5. first.from = None /\ first.to = "OPEN"
  OBVIOUS
<1> HIDE DEF first
<1>6. Shape'
  BY <1>2, <1>3, <1>4 DEF Inv, Shape, Loaded, Status
<1>7. StatusIsLastRow'
  BY <1>2, <1>3, <1>4, <1>5 DEF Inv, Shape, StatusIsLastRow
<1>8. HistoryRowsLegal'
  <2>1. \A v \in WorkOrders : history'[v] = IF v = w THEN <<first>> ELSE history[v]
    BY <1>2 DEF Inv, Shape
  <2>2. \A n \in DOMAIN <<first>> : n = 1
    BY <1>4
  <2>3. QED
    BY <1>4, <1>5, <2>1, <2>2 DEF Inv, HistoryRowsLegal
<1>9. QED
  BY <1>6, <1>7, <1>8 DEF Inv

LEMMA NextKeepsInv == Inv /\ [Next]_vars => Inv'
<1> SUFFICES ASSUME Inv, [Next]_vars PROVE Inv'
  OBVIOUS
<1>1. ASSUME NEW r \in Requests, Load(r) PROVE Inv'
  BY <1>1, LoadKeepsInv
<1>2. ASSUME NEW r \in Requests, Commit(r) PROVE Inv'
  BY <1>2, CommitKeepsInv
<1>3. ASSUME NEW w \in WorkOrders, NEW type \in {"REACTIVE", "PM"}, NEW a \in Actors,
             OpenWorkOrder(w, type, a)
      PROVE  Inv'
  BY <1>3, OpenKeepsInv
<1>4. ASSUME NEW r \in Requests, NEW w \in WorkOrders, NEW to \in Status,
             ConfirmedTransition(r, w, to)
      PROVE  Inv'
  <2>1. /\ row[w].status \in Status /\ history[w] # <<>>
        /\ LegalPath(row[w].status, <<to>>)
        /\ Apply(w, row[w], <<to>>, None, clock, None)
        /\ clock \in Nat
        /\ UNCHANGED <<clock, req>>
    BY <1>4 DEF ConfirmedTransition, Inv, Shape, StatusIsLastRow
  <2>2. <<to>> \in Seq(Status) /\ <<to>> # <<>>
    OBVIOUS
  <2>3. /\ history' \in [WorkOrders -> Seq(HistoryRow)]
        /\ \A v \in WorkOrders : history[v] # <<>> => history'[v] # <<>>
        /\ row' = [v \in WorkOrders |-> row'[v]]
        /\ \A v \in WorkOrders : IsRow(row'[v]) /\ row'[v].status \in Status \cup {"absent"}
        /\ StatusIsLastRow'
        /\ HistoryRowsLegal'
    BY <2>1, <2>2, ApplyKeepsHistory
  <2>4. Shape'
    BY <2>1, <2>3 DEF Inv, Shape, Loaded
  <2>5. QED
    BY <2>3, <2>4 DEF Inv
<1>5. CASE Tick \/ (\E h \in HoldReasons : UpdateHoldReason(h)) \/ UNCHANGED vars
  <2>1. UNCHANGED <<row, history, req>> /\ clock' \in Nat
    BY <1>5 DEF Tick, UpdateHoldReason, vars, Inv, Shape
  <2>2. QED
    BY <2>1 DEF Inv, Shape, Loaded, StatusIsLastRow, HistoryRowsLegal
<1>6. QED
  BY <1>1, <1>2, <1>3, <1>4, <1>5 DEF Next, Start

LEMMA SpecKeepsInv == Spec => []Inv
  BY InitInv, NextKeepsInv, PTL DEF Spec

\* The status column never parts from the history.
THEOREM StatusFollowsHistory == Spec => []StatusIsLastRow
<1>1. Inv => StatusIsLastRow
  BY DEF Inv
<1>2. QED
  BY <1>1, SpecKeepsInv, PTL

\* No history ever holds a transition that the table does not have.
THEOREM HistoryIsLegal == Spec => []HistoryRowsLegal
<1>1. Inv => HistoryRowsLegal
  BY DEF Inv
<1>2. QED
  BY <1>1, SpecKeepsInv, PTL

-----------------------------------------------------------------------------
(***************************************************************************)
(* The window of a work order.  Its closing time, once written, is that of *)
(* a row of its history, so the first row that ends its activity is not    *)
(* later, whoever wrote the two.                                           *)
(***************************************************************************)
ClosedIsRecorded ==
  \A w \in WorkOrders : row[w].closedAt # None => row[w].closedAt \in Ends(history[w])

\* The natural numbers are well ordered, so Min is what its name says.
LEMMA MinOfNats ==
  ASSUME NEW S \in SUBSET Nat, S # {}
  PROVE  Min(S) \in S /\ \A y \in S : Min(S) <= y
  BY LeastOf DEF Min

\* What comes after in a history takes no end away.
LEMMA EndsGrow ==
  ASSUME NEW a \in Seq(HistoryRow), NEW b \in Seq(HistoryRow)
  PROVE  /\ Ends(a) \subseteq Ends(a \o b)
         /\ \A n \in 1..Len(b) : b[n].to \in Terminal \cup {"COMPLETED"} => b[n].at \in Ends(a \o b)
<1>1. /\ a \o b \in Seq(HistoryRow)
      /\ Len(a \o b) = Len(a) + Len(b)
      /\ \A n \in 1..Len(a) + Len(b) : (a \o b)[n] = IF n <= Len(a) THEN a[n] ELSE b[n - Len(a)]
  BY ConcatProperties
<1>2. PICK c : c = a \o b
  OBVIOUS
<1>3. Len(a) \in Nat /\ Len(b) \in Nat /\ DOMAIN a = 1..Len(a) /\ DOMAIN c = 1..Len(a) + Len(b)
  BY <1>1, <1>2
<1>4. ASSUME NEW n \in DOMAIN a, a[n].to \in Terminal \cup {"COMPLETED"}
      PROVE  a[n].at \in Ends(c)
  <2>1. n \in DOMAIN c /\ c[n] = a[n]
    BY <1>1, <1>2, <1>3
  <2>2. QED
    BY <1>4, <2>1 DEF Ends
<1>5. ASSUME NEW n \in 1..Len(b), b[n].to \in Terminal \cup {"COMPLETED"}
      PROVE  b[n].at \in Ends(c)
  <2>1. n + Len(a) \in DOMAIN c /\ ~(n + Len(a) <= Len(a)) /\ (n + Len(a)) - Len(a) = n
    BY <1>3
  <2>2. c[n + Len(a)] = b[n]
    BY <1>1, <1>2, <1>3, <2>1
  <2>3. QED
    BY <1>5, <2>1, <2>2 DEF Ends
<1>6. Ends(a) \subseteq Ends(c)
  BY <1>4 DEF Ends
<1>7. QED
  BY <1>2, <1>5, <1>6

LEMMA ApplyKeepsClosed ==
  ASSUME Inv, ClosedIsRecorded, NEW w \in WorkOrders, NEW seen, NEW path \in Seq(Status),
         path # <<>>, NEW h \in HoldReasons \cup {None}, NEW at \in Nat, NEW d,
         seen.status \in Status, LegalPath(seen.status, path), Apply(w, seen, path, h, at, d)
  PROVE  ClosedIsRecorded'
<1>1. PICK R : R = Rows(seen, path, h, at)
  OBVIOUS
<1>2. /\ R \in Seq(HistoryRow) /\ Len(R) = Len(path)
      /\ \A n \in 1..Len(path) : R[n].to = path[n] /\ R[n].at = at
  <2>1. FollowPath(R, seen, path, at)
    BY <1>1, RowsOfAPath
  <2>2. QED
    BY <2>1 DEF FollowPath
<1>3. Len(path) \in 1..Len(path)
  OBVIOUS
<1>4. history[w] \in Seq(HistoryRow)
  BY DEF Inv, Shape
<1>5. \A v \in WorkOrders : history'[v] = IF v = w THEN history[w] \o R ELSE history[v]
  BY <1>1 DEF Apply, Inv, Shape
<1>6. /\ \A v \in WorkOrders : v # w => row'[v] = row[v]
      /\ row'[w].closedAt = IF path[Len(path)] = "CLOSED" THEN at ELSE row[w].closedAt
  BY DEF Apply, Inv, Shape
<1>7. /\ Ends(history[w]) \subseteq Ends(history[w] \o R)
      /\ R[Len(path)].to \in Terminal \cup {"COMPLETED"}
           => R[Len(path)].at \in Ends(history[w] \o R)
  BY <1>2, <1>3, <1>4, EndsGrow
<1>8. path[Len(path)] = "CLOSED" => at \in Ends(history[w] \o R)
  BY <1>2, <1>3, <1>7 DEF Terminal
<1>9. \A v \in WorkOrders : history'[v] = history[v] => Ends(history[v])' = Ends(history[v])
  BY DEF Ends
<1>10. ASSUME NEW v \in WorkOrders, row'[v].closedAt # None
       PROVE  row'[v].closedAt \in Ends(history'[v])
  <2>1. CASE v # w
    BY <1>5, <1>6, <1>10, <2>1 DEF ClosedIsRecorded
  <2>2. CASE v = w
    BY <1>5, <1>6, <1>7, <1>8, <1>10, <2>2 DEF ClosedIsRecorded
  <2>3. QED
    BY <2>1, <2>2
<1>11. QED
  BY <1>10 DEF ClosedIsRecorded, Ends

LEMMA LoadsWriteNothing ==
  ASSUME NEW r \in Requests, Load(r)
  PROVE  UNCHANGED <<row, history, holdDown, clock, lived>>
<1>1. ASSUME NEW w \in WorkOrders, NEW a \in Actors, NEW kind \in Kinds, NEW h \in HoldReasons,
             NEW d \in Details \cup {None}, LoadTransition(r, w, kind, a, h, d)
      PROVE  UNCHANGED <<row, history, holdDown, clock, lived>>
  BY <1>1 DEF LoadTransition
<1>2. ASSUME NEW w \in WorkOrders, NEW a \in Actors, NEW kind \in {"detail", "assignees"},
             NEW d \in Details \cup {None}, LoadEdit(r, w, kind, a, d)
      PROVE  UNCHANGED <<row, history, holdDown, clock, lived>>
  BY <1>2 DEF LoadEdit
<1>3. QED
  BY <1>1, <1>2 DEF Load

LEMMA NextKeepsClosed == Inv /\ ClosedIsRecorded /\ [Next]_vars => ClosedIsRecorded'
<1> SUFFICES ASSUME Inv, ClosedIsRecorded, [Next]_vars PROVE ClosedIsRecorded'
  OBVIOUS
<1>1. ASSUME UNCHANGED history, \A w \in WorkOrders : row'[w].closedAt = row[w].closedAt
      PROVE  ClosedIsRecorded'
  BY <1>1 DEF ClosedIsRecorded, Ends
<1>2. ASSUME NEW r \in Requests, CommitTransition(r) PROVE ClosedIsRecorded'
  BY <1>2, ApplyKeepsClosed DEF CommitTransition, Inv, Shape, Loaded
<1>3. ASSUME NEW r \in Requests, CommitEdit(r) PROVE ClosedIsRecorded'
  <2>1. \A w \in WorkOrders : row'[w].closedAt = row[w].closedAt
    BY <1>3 DEF CommitEdit, Inv, Shape, IsRow
  <2>2. QED
    BY <1>1, <1>3, <2>1 DEF CommitEdit
<1>4. ASSUME NEW w \in WorkOrders, NEW type \in {"REACTIVE", "PM"}, NEW a \in Actors,
             OpenWorkOrder(w, type, a)
      PROVE  ClosedIsRecorded'
  <2>1. /\ row'[w].closedAt = None
        /\ \A v \in WorkOrders : v # w => row'[v] = row[v] /\ history'[v] = history[v]
    BY <1>4 DEF OpenWorkOrder, Absent, Inv, Shape
  <2>2. QED
    BY <2>1 DEF ClosedIsRecorded, Ends
<1>5. ASSUME NEW r \in Requests, NEW w \in WorkOrders, NEW to \in Status,
             ConfirmedTransition(r, w, to)
      PROVE  ClosedIsRecorded'
  <2>1. /\ row[w].status \in Status
        /\ LegalPath(row[w].status, <<to>>)
        /\ Apply(w, row[w], <<to>>, None, clock, None)
        /\ clock \in Nat
    BY <1>5 DEF ConfirmedTransition, Inv, Shape
  <2>2. <<to>> \in Seq(Status) /\ <<to>> # <<>>
    OBVIOUS
  <2>3. QED
    BY <2>1, <2>2, ApplyKeepsClosed
<1>6. CASE Tick \/ (\E h \in HoldReasons : UpdateHoldReason(h)) \/ UNCHANGED vars
           \/ \E r \in Requests : Load(r)
  <2>1. ASSUME NEW r \in Requests, Load(r) PROVE UNCHANGED <<row, history>>
    BY <2>1, LoadsWriteNothing
  <2>2. Tick \/ (\E h \in HoldReasons : UpdateHoldReason(h)) \/ UNCHANGED vars
          => UNCHANGED <<row, history>>
    BY DEF Tick, UpdateHoldReason, vars
  <2>3. UNCHANGED <<row, history>>
    BY <1>6, <2>1, <2>2
  <2>4. QED
    BY <1>1, <2>3
<1>7. QED
  BY <1>2, <1>3, <1>4, <1>5, <1>6 DEF Next, Start, Commit

\* No work order that was active in a window is lost to the SQL filter on closed_at of
\* list_active_in_window, however requests race and whatever the clock did under them.
THEOREM WindowsAreComplete == Spec => []WindowFilterIsSafe
<1>1. Init => ClosedIsRecorded
  BY DEF Init, ClosedIsRecorded, Absent
<1>2. Inv /\ ClosedIsRecorded => WindowFilterIsSafe
  <2> SUFFICES ASSUME Inv, ClosedIsRecorded, NEW start \in 0..clock, NEW end \in 0..clock,
                      NEW w \in WorkOrders, row[w].closedAt # None, WindowEnd(w) >= start
               PROVE  row[w].closedAt >= start
    BY DEF WindowFilterIsSafe, ActiveInWindow, Coarse
  <2>1. row[w].closedAt \in Ends(history[w])
    BY DEF ClosedIsRecorded
  <2>2. Ends(history[w]) \in SUBSET Nat
    <3>1. history[w] \in Seq(HistoryRow)
      BY DEF Inv, Shape
    <3>2. \A n \in DOMAIN history[w] : history[w][n] \in HistoryRow
      BY <3>1
    <3>3. \A n \in DOMAIN history[w] : history[w][n].at \in Nat
      BY <3>2 DEF HistoryRow
    <3>4. QED
      BY <3>3 DEF Ends
  <2>3. PICK m : m = Min(Ends(history[w]))
    OBVIOUS
  <2>4. m <= row[w].closedAt /\ m \in Nat /\ row[w].closedAt \in Nat
    BY <2>1, <2>2, <2>3, MinOfNats
  <2>5. m >= start
    BY <2>1, <2>3 DEF WindowEnd
  <2>6. QED
    BY <2>4, <2>5 DEF Inv, Shape
<1>3. QED
  BY <1>1, <1>2, InitInv, NextKeepsInv, NextKeepsClosed, PTL DEF Spec

-----------------------------------------------------------------------------
(***************************************************************************)
(* Requests that take turns.  One at most is under way, and the row it     *)
(* loaded is the row that its commit changes.                              *)
(***************************************************************************)
\* The operations that end in IN_PROGRESS make no other transition; none ends in OPEN.
EndsWell(path) ==
  /\ path[Len(path)] # "OPEN"
  /\ path[Len(path)] = "IN_PROGRESS" => path = <<"IN_PROGRESS">>

Prepared(q) == q.seen = row[q.wo] /\ q.hold \in HoldReasons /\ EndsWell(q.path)

OneUnderWay == \A r, s \in Requests : req[r] # Idle /\ req[s] # Idle => r = s

Turns ==
  /\ OneUnderWay
  /\ \A r \in Requests :
       /\ req[r].pc = "transition" => Prepared(req[r])
       /\ req[r].pc = "edit" /\ row[req[r].wo].status \in Terminal => req[r].by \in Admins
  /\ Chained
  /\ HoldExplained

TurnInv == turns => Turns

LEMMA PathsEndWell ==
  ASSUME NEW kind \in Kinds, NEW s, Path(kind, s) # <<>>
  PROVE  EndsWell(Path(kind, s))
<1>1. ASSUME NEW x, x # "OPEN"
      PROVE  EndsWell(<<x>>)
  BY <1>1 DEF EndsWell
<1>2. ASSUME NEW x, NEW y, y \notin {"OPEN", "IN_PROGRESS"}
      PROVE  EndsWell(<<x, y>>)
  BY <1>2 DEF EndsWell
<1>3. ASSUME NEW x, NEW y, NEW z, z \notin {"OPEN", "IN_PROGRESS"}
      PROVE  EndsWell(<<x, y, z>>)
  BY <1>3 DEF EndsWell
<1>4. EndsWell(SetHoldPath(s))
  <2>1. PICK p \in Seq(Status) : SetHoldPath(s) = p \o <<"ON_HOLD">>
    <3>1. <<"IN_PROGRESS">> \in Seq(Status) /\ <<>> \in Seq(Status)
      <4>1. "IN_PROGRESS" \in Status
        BY DEF Status
      <4>2. QED
        BY <4>1
    <3>2. CASE s \in {"OPEN", "ON_HOLD"}
      BY <3>1, <3>2, Zenon DEF SetHoldPath
    <3>3. CASE s \notin {"OPEN", "ON_HOLD"}
      BY <3>1, <3>3, Zenon DEF SetHoldPath
    <3>4. QED
      BY <3>2, <3>3
  <2>2. PICK last \in Seq(Status) : last = <<"ON_HOLD">>
    <3>1. "ON_HOLD" \in Status
      BY DEF Status
    <3>2. <<"ON_HOLD">> \in Seq(Status)
      BY <3>1
    <3>3. QED
      BY <3>2
  <2>3. Len(last) = 1 /\ last[1] = "ON_HOLD" /\ Len(p) \in Nat
    BY <2>2
  <2>4. Len(p \o last) = Len(p) + 1 /\ (p \o last)[Len(p) + 1] = "ON_HOLD"
    <3>1. /\ Len(p \o last) = Len(p) + Len(last)
          /\ \A n \in 1..Len(p) + Len(last) :
               (p \o last)[n] = IF n <= Len(p) THEN p[n] ELSE last[n - Len(p)]
      BY ConcatProperties
    <3>2. Len(p) + 1 \in 1..Len(p) + Len(last) /\ ~(Len(p) + 1 <= Len(p)) /\ (Len(p) + 1) - Len(p) = 1
      BY <2>3
    <3>3. QED
      BY <2>3, <3>1, <3>2
  <2>5. QED
    BY <2>1, <2>2, <2>4 DEF EndsWell
<1>5. EndsWell(FinishPath(s))
  BY <1>1, <1>2, <1>3 DEF FinishPath
<1>6. QED
  BY <1>1, <1>4, <1>5 DEF Path, Kinds

\* Terminal states have no successor.
LEMMA TerminalEnds ==
  ASSUME NEW s \in Status, NEW path \in Seq(Status), path # <<>>, LegalPath(s, path)
  PROVE  s \notin Terminal
<1>1. 1 \in DOMAIN path
  OBVIOUS
<1>2. path[1] \in Allowed[s]
  BY <1>1 DEF LegalPath, Before
<1>3. QED
  BY <1>2 DEF Allowed, Terminal

\* What a commit writes into the row it loaded, if nobody wrote it meanwhile.
LEMMA ApplyInTurn ==
  ASSUME Inv, Chained, HoldExplained, NEW w \in WorkOrders, NEW path \in Seq(Status), path # <<>>,
         NEW h \in HoldReasons \cup {None}, NEW at \in Nat, NEW d, row[w].status \in Status,
         LegalPath(row[w].status, path), EndsWell(path),
         path[Len(path)] = "ON_HOLD" => h \in HoldReasons,
         history[w] # <<>>, Apply(w, row[w], path, h, at, d)
  PROVE  /\ Chained'
         /\ HoldExplained'
         /\ \A v \in WorkOrders : v # w => row'[v] = row[v]
         /\ row[w].status \notin Terminal
<1>1. PICK R : R = Rows(row[w], path, h, at)
  OBVIOUS
<1>2. FollowPath(R, row[w], path, at)
  BY <1>1, RowsOfAPath
<1>3. PICK old : old = history[w]
  OBVIOUS
<1>4. /\ old \in Seq(HistoryRow) /\ Len(old) \in Nat \ {0}
      /\ old[Len(old)].to = row[w].status
  BY <1>3 DEF Inv, Shape, StatusIsLastRow
<1>5. PICK hist : hist = old \o R
  OBVIOUS
<1>6. /\ Len(hist) = Len(old) + Len(R)
      /\ hist \in Seq(HistoryRow)
      /\ \A n \in 1..Len(old) + Len(R) : hist[n] = IF n <= Len(old) THEN old[n] ELSE R[n - Len(old)]
  <2>1. old \in Seq(HistoryRow) /\ R \in Seq(HistoryRow)
    BY <1>2, <1>4 DEF FollowPath
  <2>2. /\ Len(old \o R) = Len(old) + Len(R)
        /\ old \o R \in Seq(HistoryRow)
        /\ \A n \in 1..Len(old) + Len(R) :
             (old \o R)[n] = IF n <= Len(old) THEN old[n] ELSE R[n - Len(old)]
    BY <2>1, ConcatProperties
  <2>3. QED
    BY <1>5, <2>2
<1>7. \A v \in WorkOrders : history'[v] = IF v = w THEN hist ELSE history[v]
  BY <1>1, <1>3, <1>5 DEF Apply, Inv, Shape
<1>8. /\ \A v \in WorkOrders : v # w => row'[v] = row[v]
      /\ row'[w].status = path[Len(path)]
      /\ row'[w].hold = HoldStored(w, row[w], path, h)
  BY DEF Apply, Inv, Shape
<1>9. \A n \in DOMAIN hist : n > 1 => hist[n].from = hist[n - 1].to
  <2> SUFFICES ASSUME NEW n \in DOMAIN hist, n > 1 PROVE hist[n].from = hist[n - 1].to
    OBVIOUS
  <2>0. n \in 1..(Len(old) + Len(R)) /\ n - 1 \in 1..(Len(old) + Len(R))
        /\ Len(R) \in Nat /\ n \in Nat
    BY <1>2, <1>4, <1>6 DEF FollowPath
  <2>1. CASE n <= Len(old)
    <3>1. hist[n] = old[n] /\ hist[n - 1] = old[n - 1] /\ n \in DOMAIN old
      BY <1>4, <1>6, <2>0, <2>1
    <3>2. QED
      BY <1>3, <3>1 DEF Chained
  <2>2. CASE n = Len(old) + 1
    <3>1. hist[n] = R[1] /\ hist[n - 1] = old[Len(old)]
      BY <1>4, <1>6, <2>0, <2>2
    <3>2. R[1].from = row[w].status
      BY <1>2, <1>4, <2>0, <2>2 DEF FollowPath, Before
    <3>3. QED
      BY <1>4, <3>1, <3>2
  <2>3. CASE n > Len(old) + 1
    <3> DEFINE k == n - Len(old)
    <3>1. k \in 1..Len(R) /\ k - 1 \in 1..Len(R) /\ k # 1
      BY <1>4, <2>0, <2>3
    <3>2. hist[n] = R[k]
      BY <1>4, <1>6, <2>0, <2>3
    <3>3. hist[n - 1] = R[k - 1]
      <4>1. ~(n - 1 <= Len(old)) /\ (n - 1) - Len(old) = k - 1
        BY <1>4, <2>0, <2>3
      <4>2. QED
        BY <1>6, <2>0, <4>1
    <3> HIDE DEF k
    <3>4. R[k].from = path[k - 1] /\ R[k - 1].to = path[k - 1]
      BY <1>2, <3>1 DEF FollowPath, Before
    <3>5. QED
      BY <3>2, <3>3, <3>4
  <2>4. QED
    BY <1>4, <2>0, <2>1, <2>2, <2>3
<1>10. Chained'
  BY <1>7, <1>9 DEF Chained
<1>11. row'[w].status = "ON_HOLD" => row'[w].hold # None
  <2>1. SUFFICES ASSUME path[Len(path)] = "ON_HOLD" PROVE row'[w].hold # None
    BY <1>8
  <2>2. h # None
    BY <2>1, NoneAssumption
  <2>3. Len(path) \in DOMAIN path
    OBVIOUS
  <2>4. HoldAfter(row[w], path, h) = h
    BY <2>1, <2>3 DEF HoldAfter
  <2>5. HoldStored(w, row[w], path, h) = h
    BY <2>4 DEF HoldStored, Written
  <2>6. QED
    BY <1>8, <2>2, <2>5
<1>12. row'[w].status \in {"OPEN", "IN_PROGRESS"} => row'[w].hold = None
  <2>1. SUFFICES ASSUME path = <<"IN_PROGRESS">> PROVE row'[w].hold = None
    BY <1>8 DEF EndsWell
  <2>2. {path[n] : n \in DOMAIN path} = {"IN_PROGRESS"}
    BY <2>1
  <2>3. HoldAfter(row[w], path, h) = None
    BY <2>2 DEF HoldAfter
  <2>4. path # <<"IN_PROGRESS", "ON_HOLD">>
    BY <2>1
  <2>5. HoldStored(w, row[w], path, h) = None
    BY <2>3, <2>4 DEF HoldStored, Written
  <2>6. QED
    BY <1>8, <2>5
<1>13. HoldExplained'
  BY <1>8, <1>11, <1>12 DEF HoldExplained
<1>14. QED
  BY <1>8, <1>10, <1>13, TerminalEnds

\* A step that leaves rows, histories and requests alone.
LEMMA IdleStepKeepsTurns ==
  ASSUME Turns, UNCHANGED <<row, history, req>>
  PROVE  Turns'
  BY DEF Turns, OneUnderWay, Prepared, Chained, HoldExplained

LEMMA LoadKeepsTurns ==
  ASSUME Inv, Turns, Quiet, NEW r \in Requests, Load(r)
  PROVE  Turns'
<1>1. UNCHANGED <<row, history>>
  BY LoadsWriteNothing
<1>2. ASSUME NEW w \in WorkOrders, NEW a \in Actors, NEW kind \in Kinds, NEW h \in HoldReasons,
             NEW d \in Details \cup {None}, LoadTransition(r, w, kind, a, h, d)
      PROVE  Turns'
  <2> DEFINE path == Path(kind, row[w].status)
  <2>1. PICK q : q = [pc |-> "transition", wo |-> w, by |-> a, path |-> path,
                      hold |-> h, at |-> clock, detail |-> d, seen |-> row[w]]
    OBVIOUS
  <2>2. q.pc = "transition" /\ q.wo = w /\ q.seen = row[w] /\ q.hold = h /\ q.path = path
    BY <2>1
  <2>3. path # <<>> /\ req' = [req EXCEPT ![r] = q]
    BY <1>2, <2>1 DEF LoadTransition
  <2>4. EndsWell(path)
    BY <2>3, PathsEndWell
  <2> HIDE DEF path
  <2>5. \A s \in Requests : req'[s] = IF s = r THEN q ELSE Idle
    BY <2>3 DEF Inv, Shape, Quiet
  <2>6. Prepared(q)
    BY <2>2, <2>4 DEF Prepared
  <2>7. Idle.pc = "idle"
    BY DEF Idle
  <2>8. QED
    BY <1>1, <2>2, <2>5, <2>6, <2>7
       DEF Turns, OneUnderWay, Prepared, Chained, HoldExplained
<1>3. ASSUME NEW w \in WorkOrders, NEW a \in Actors, NEW kind \in {"detail", "assignees"},
             NEW d \in Details \cup {None}, LoadEdit(r, w, kind, a, d)
      PROVE  Turns'
  <2>1. PICK q : q = [Idle EXCEPT !.pc = "edit", !.wo = w, !.by = a, !.detail = d, !.seen = row[w]]
    OBVIOUS
  <2>2. q.pc = "edit" /\ q.wo = w /\ q.by = a
    BY <2>1 DEF Idle
  <2>3. row[w].status \in Terminal => a \in Admins
    BY <1>3 DEF LoadEdit, MayEdit
  <2>4. \A s \in Requests : req'[s] = IF s = r THEN q ELSE Idle
    BY <1>3, <2>1 DEF LoadEdit, Inv, Shape, Quiet
  <2>5. Idle.pc = "idle"
    BY DEF Idle
  <2>6. QED
    BY <1>1, <2>2, <2>3, <2>4, <2>5 DEF Turns, OneUnderWay, Chained, HoldExplained
<1>4. QED
  BY <1>2, <1>3 DEF Load

\* After a commit no request is under way.
LEMMA CommitEndsTheTurn ==
  ASSUME Inv, Turns, NEW r \in Requests, Commit(r)
  PROVE  \A s \in Requests : req'[s] = Idle
<1>1. req[r] # Idle /\ req' = [req EXCEPT ![r] = Idle]
  BY DEF Commit, CommitTransition, CommitEdit, Finish, Idle
<1>2. QED
  BY <1>1 DEF Turns, OneUnderWay, Inv, Shape

LEMMA CommitInTurn ==
  ASSUME Inv, Turns, NEW r \in Requests, Commit(r)
  PROVE  Turns' /\ TerminalKept /\ FrozenKept
<1>1. \A s \in Requests : req'[s] = Idle
  BY CommitEndsTheTurn
<1>2. Idle.pc = "idle"
  BY DEF Idle
<1>3. CASE CommitTransition(r)
  <2>1. PICK w : w = req[r].wo
    OBVIOUS
  <2>2. PICK path, h, at, d :
          path = req[r].path /\ h = req[r].hold /\ at = req[r].at /\ d = req[r].detail
    OBVIOUS
  <2>3. /\ Loaded(req[r]) /\ Prepared(req[r])
        /\ Apply(w, req[r].seen, path, h, at, d)
    BY <1>3, <2>1, <2>2 DEF CommitTransition, Inv, Shape, Turns
  <2>4. /\ w \in WorkOrders /\ path \in Seq(Status) /\ path # <<>> /\ h \in HoldReasons
        /\ at \in Nat /\ row[w].status \in Status /\ LegalPath(row[w].status, path)
        /\ history[w] # <<>> /\ EndsWell(path) /\ Apply(w, row[w], path, h, at, d)
    BY <2>1, <2>2, <2>3 DEF Loaded, Prepared
  <2>5. /\ Chained' /\ HoldExplained'
        /\ \A v \in WorkOrders : v # w => row'[v] = row[v]
        /\ row[w].status \notin Terminal
    BY <2>4, ApplyInTurn DEF Turns
  <2>6. Turns'
    BY <1>1, <1>2, <2>5 DEF Turns, OneUnderWay
  <2>7. QED
    BY <2>5, <2>6 DEF TerminalKept, FrozenKept
<1>4. CASE CommitEdit(r)
  <2>1. req[r].wo \in WorkOrders
    BY <1>4 DEF CommitEdit, Inv, Shape
  <2>2. PICK w \in WorkOrders : w = req[r].wo
    BY <2>1
  <2>3. PICK new : new = [row[w] EXCEPT !.detail = req[r].detail]
    OBVIOUS
  <2>4. row' = [row EXCEPT ![w] = new] /\ UNCHANGED history
    BY <1>4, <2>2, <2>3, Zenon DEF CommitEdit
  <2>5. new.status = row[w].status /\ new.hold = row[w].hold
    BY <2>3 DEF Inv, Shape, IsRow
  <2>6. \A v \in WorkOrders : row'[v] = IF v = w THEN new ELSE row[v]
    BY <2>4 DEF Inv, Shape
  <2>7. Turns'
    BY <1>1, <1>2, <2>4, <2>5, <2>6 DEF Turns, OneUnderWay, Chained, HoldExplained
  <2>8. row[w].status \in Terminal => req[r].by \in Admins
    BY <1>4, <2>2 DEF CommitEdit, Turns
  <2>9. QED
    BY <1>1, <1>2, <2>2, <2>5, <2>6, <2>7, <2>8 DEF TerminalKept, FrozenKept
<1>5. QED
  BY <1>3, <1>4 DEF Commit

LEMMA StartInTurn ==
  ASSUME Inv, Turns, Quiet, Start
  PROVE  Turns' /\ TerminalKept /\ FrozenKept
<1>1. ASSUME NEW r \in Requests, Load(r) PROVE Turns' /\ TerminalKept /\ FrozenKept
  BY <1>1, LoadKeepsTurns, LoadsWriteNothing DEF TerminalKept, FrozenKept
<1>2. ASSUME NEW w \in WorkOrders, NEW type \in {"REACTIVE", "PM"}, NEW a \in Actors,
             OpenWorkOrder(w, type, a)
      PROVE  Turns' /\ TerminalKept /\ FrozenKept
  <2>1. PICK first : first = [from |-> None, to |-> "OPEN", hold |-> None, at |-> clock]
    OBVIOUS
  <2>2. /\ row'[w].status = "OPEN" /\ row'[w].hold = None /\ row[w].status = "absent"
        /\ \A v \in WorkOrders : v # w => row'[v] = row[v]
        /\ \A v \in WorkOrders : history'[v] = IF v = w THEN <<first>> ELSE history[v]
        /\ UNCHANGED req
    BY <1>2, <2>1 DEF OpenWorkOrder, Absent, Inv, Shape
  <2>3. \A n \in DOMAIN <<first>> : ~(n > 1)
    OBVIOUS
  <2>4. Chained'
    BY <2>2, <2>3 DEF Turns, Chained
  <2>5. HoldExplained'
    BY <2>2 DEF Turns, HoldExplained
  <2>6. \A r \in Requests : req'[r] = Idle
    BY <2>2 DEF Quiet
  <2>7. Turns'
    BY <2>4, <2>5, <2>6 DEF Turns, OneUnderWay, Idle
  <2>8. QED
    BY <2>2, <2>7 DEF TerminalKept, FrozenKept, Terminal
<1>3. ASSUME NEW r \in Requests, NEW w \in WorkOrders, NEW to \in Status,
             ConfirmedTransition(r, w, to)
      PROVE  Turns' /\ TerminalKept /\ FrozenKept
  <2>1. /\ row[w].status \in Status /\ history[w] # <<>>
        /\ LegalPath(row[w].status, <<to>>) /\ to \in {"CLOSED", "VOIDED"}
        /\ Apply(w, row[w], <<to>>, None, clock, None)
        /\ clock \in Nat
        /\ UNCHANGED req
    BY <1>3 DEF ConfirmedTransition, Inv, Shape, StatusIsLastRow
  <2>2. <<to>> \in Seq(Status) /\ <<to>> # <<>> /\ Len(<<to>>) = 1 /\ <<to>>[1] = to
    OBVIOUS
  <2>3. EndsWell(<<to>>) /\ <<to>>[Len(<<to>>)] # "ON_HOLD"
    BY <2>1, <2>2 DEF EndsWell
  <2>4. PICK path : path = <<to>>
    OBVIOUS
  <2>5. /\ path \in Seq(Status) /\ path # <<>> /\ EndsWell(path)
        /\ path[Len(path)] # "ON_HOLD" /\ LegalPath(row[w].status, path)
        /\ Apply(w, row[w], path, None, clock, None)
    BY <2>1, <2>2, <2>3, <2>4
  <2>6. /\ Chained' /\ HoldExplained'
        /\ \A v \in WorkOrders : v # w => row'[v] = row[v]
        /\ row[w].status \notin Terminal
    BY <2>1, <2>5, ApplyInTurn DEF Turns
  <2>7. \A s \in Requests : req'[s] = Idle
    BY <2>1 DEF Quiet
  <2>8. Turns'
    BY <2>6, <2>7 DEF Turns, OneUnderWay, Idle
  <2>9. QED
    BY <2>6, <2>8 DEF TerminalKept, FrozenKept
<1>4. CASE Tick \/ \E h \in HoldReasons : UpdateHoldReason(h)
  <2>1. UNCHANGED <<row, history, req>>
    BY <1>4 DEF Tick, UpdateHoldReason
  <2>2. QED
    BY <2>1, IdleStepKeepsTurns DEF TerminalKept, FrozenKept
<1>5. QED
  BY <1>1, <1>2, <1>3, <1>4 DEF Start

LEMMA StepInTurn ==
  ASSUME Inv, TurnInv, [Next]_vars
  PROVE  TurnInv' /\ (turns => TerminalKept /\ FrozenKept)
<1>1. UNCHANGED turns
  BY DEF Next, vars
<1>2. SUFFICES ASSUME turns PROVE Turns' /\ TerminalKept /\ FrozenKept
  BY <1>1 DEF TurnInv
<1>3. Turns
  BY <1>2 DEF TurnInv
<1>4. CASE UNCHANGED vars
  <2>1. UNCHANGED <<row, history, req>>
    BY <1>4 DEF vars
  <2>2. QED
    BY <1>3, <2>1, IdleStepKeepsTurns DEF TerminalKept, FrozenKept
<1>5. ASSUME NEW r \in Requests, Commit(r) PROVE Turns' /\ TerminalKept /\ FrozenKept
  BY <1>3, <1>5, CommitInTurn
<1>6. CASE Quiet /\ Start
  BY <1>3, <1>6, StartInTurn
<1>7. QED
  BY <1>2, <1>4, <1>5, <1>6 DEF Next

LEMMA SpecKeepsTurns == Spec => [](Inv /\ TurnInv)
<1>1. Init => TurnInv
  BY DEF Init, TurnInv, Turns, OneUnderWay, Chained, HoldExplained, Idle, Absent
<1>2. Inv /\ TurnInv /\ [Next]_vars => TurnInv'
  BY StepInTurn
<1>3. QED
  BY <1>1, <1>2, InitInv, NextKeepsInv, PTL DEF Spec

\* Requests that take turns leave a history that tells why: each row starts where the one
\* before ended, every hold has a reason, and nothing that is worked on has one.
THEOREM HistoryExplains == Spec => []HistoryTellsWhy
<1>1. Inv /\ TurnInv => HistoryTellsWhy
  BY DEF TurnInv, Turns, HistoryTellsWhy
<1>2. QED
  BY <1>1, SpecKeepsTurns, PTL

\* And they leave a terminal work order where it is; only an admin edits it.
THEOREM TerminalStates == Spec => TerminalIsFrozen
<1>1. Inv /\ TurnInv /\ [Next]_vars => (turns => TerminalKept /\ FrozenKept)
  BY StepInTurn
<1>2. QED
  BY <1>1, SpecKeepsTurns, PTL DEF Spec, TerminalIsFrozen

-----------------------------------------------------------------------------
(***************************************************************************)
(* Downtime.  A history whose rows stand in the order of their times is    *)
(* read as it stands, and any history is read so that no segment is        *)
(* shorter than nothing.                                                   *)
(***************************************************************************)
InOrder(h) == \A i, j \in DOMAIN h : i <= j => h[i].at <= h[j].at

\* Counting the rows up to it gives each row a place of its own.
LEMMA RowsHavePlaces ==
  ASSUME NEW h \in Seq(HistoryRow)
  PROVE  /\ \A n \in 1..Len(h) : IsFiniteSet(Until(h, n)) /\ Until(h, n) \subseteq 1..Len(h)
         /\ \A i \in 1..Len(h) : \E n \in 1..Len(h) : Cardinality(Until(h, n)) = i
<1>1. PICK S : S = 1..Len(h)
  OBVIOUS
<1>2. /\ Len(h) \in Nat /\ DOMAIN h = S /\ \A n \in S : n \in Nat /\ h[n].at \in Nat
      /\ IsFiniteSet(S) /\ Cardinality(S) = Len(h)
  <2>1. Len(h) \in Nat /\ DOMAIN h = S /\ \A n \in S : n \in Nat /\ h[n] \in HistoryRow
    BY <1>1
  <2>2. \A n \in S : h[n].at \in Nat
    BY <2>1 DEF HistoryRow
  <2>3. IsFiniteSet(S) /\ Cardinality(S) = Len(h)
    BY <1>1, <2>1, FS_Interval
  <2>4. QED
    BY <2>1, <2>2, <2>3
<1>3. PICK below : below = [n \in S |-> Until(h, n)]
  OBVIOUS
<1>4. \A n \in S : below[n] = {m \in S : h[m].at < h[n].at \/ (h[m].at = h[n].at /\ m <= n)}
  BY <1>2, <1>3 DEF Until
<1>5. below \in [S -> SUBSET S]
  BY <1>2, <1>3, <1>4
<1>6. \A x \in S : x \in below[x]
  BY <1>2, <1>4
<1>7. \A x, y \in S : y \in below[x] => below[y] \subseteq below[x]
  BY <1>2, <1>4
<1>8. \A x, y \in S : x # y => (x \in below[y] <=> y \notin below[x])
  BY <1>2, <1>4
<1>9. \A i \in 1..Cardinality(S) : \E x \in S : Cardinality(below[x]) = i
  <2>1. IsFiniteSet(S) /\ below \in [S -> SUBSET S]
    BY <1>2, <1>5
  <2>2. QED
    BY <1>6, <1>7, <1>8, <2>1, PlacesAreOneToOne
<1>10. \A n \in S : IsFiniteSet(below[n])
  BY <1>2, <1>5, FS_Subset
<1>11. QED
  BY <1>1, <1>2, <1>3, <1>5, <1>9, <1>10

LEMMA InTimeIsInOrder ==
  ASSUME NEW h \in Seq(HistoryRow)
  PROVE  InTime(h) \in Seq(HistoryRow) /\ Len(InTime(h)) = Len(h) /\ InOrder(InTime(h))
<1>1. PICK t : t = InTime(h)
  OBVIOUS
<1>2. Len(h) \in Nat /\ DOMAIN h = 1..Len(h) /\ (\A n \in 1..Len(h) : h[n] \in HistoryRow /\ h[n].at \in Nat)
  <2>1. \A n \in 1..Len(h) : h[n] \in HistoryRow
    OBVIOUS
  <2>2. QED
    BY <2>1 DEF HistoryRow
<1>3. ASSUME NEW k \in 1..Len(h)
      PROVE  \E n \in 1..Len(h) : Cardinality(Until(h, n)) = k /\ t[k] = h[n]
  <2>1. \E n \in 1..Len(h) : Cardinality(Until(h, n)) = k
    BY RowsHavePlaces
  <2>2. PICK n : n = CHOOSE m \in 1..Len(h) : Cardinality(Until(h, m)) = k
    OBVIOUS
  <2>3. n \in 1..Len(h) /\ Cardinality(Until(h, n)) = k
    BY <2>1, <2>2
  <2>4. t[k] = h[n]
    BY <1>1, <1>2, <2>2 DEF InTime
  <2>5. QED
    BY <2>3, <2>4
<1>4. t = [k \in 1..Len(h) |-> t[k]]
  BY <1>1, <1>2 DEF InTime
<1>5. \A k \in 1..Len(h) : t[k] \in HistoryRow
  BY <1>2, <1>3
<1>6. t \in Seq(HistoryRow) /\ Len(t) = Len(h) /\ DOMAIN t = 1..Len(h)
  BY <1>2, <1>4, <1>5
<1>7. ASSUME NEW i \in 1..Len(h), NEW j \in 1..Len(h), i <= j
      PROVE  t[i].at <= t[j].at
  <2>1. PICK n \in 1..Len(h) : Cardinality(Until(h, n)) = i /\ t[i] = h[n]
    BY <1>3
  <2>2. PICK m \in 1..Len(h) : Cardinality(Until(h, m)) = j /\ t[j] = h[m]
    BY <1>3
  <2>3. CASE h[m].at < h[n].at
    <3>1. Until(h, m) \subseteq Until(h, n)
      BY <1>2, <2>3 DEF Until
    <3>2. IsFiniteSet(Until(h, n))
      BY RowsHavePlaces
    <3>3. Cardinality(Until(h, m)) <= Cardinality(Until(h, n))
      BY <3>1, <3>2, FS_Subset
    <3>4. i = j
      BY <1>7, <2>1, <2>2, <3>3
    <3>5. QED
      BY <1>2, <2>1, <3>4
  <2>4. CASE h[n].at <= h[m].at
    BY <2>1, <2>2, <2>4
  <2>5. h[n].at \in Nat /\ h[m].at \in Nat
    BY <1>2
  <2>6. QED
    BY <2>3, <2>4, <2>5
<1>8. QED
  BY <1>1, <1>6, <1>7 DEF InOrder

LEMMA InOrderStays ==
  ASSUME NEW h \in Seq(HistoryRow), InOrder(h)
  PROVE  InTime(h) = h
<1>1. Len(h) \in Nat /\ DOMAIN h = 1..Len(h) /\ (\A n \in 1..Len(h) : h[n].at \in Nat) /\ h = [n \in 1..Len(h) |-> h[n]]
  <2>1. \A n \in 1..Len(h) : h[n] \in HistoryRow
    OBVIOUS
  <2>2. QED
    BY <2>1 DEF HistoryRow
<1>2. ASSUME NEW n \in 1..Len(h) PROVE Cardinality(Until(h, n)) = n
  <2>1. Until(h, n) = 1..n
    <3>1. ASSUME NEW m \in 1..Len(h) PROVE m \in Until(h, n) <=> m <= n
      <4>1. CASE m <= n
        <5>1. h[m].at <= h[n].at /\ h[m].at \in Nat /\ h[n].at \in Nat
          BY <1>1, <4>1 DEF InOrder
        <5>2. QED
          BY <1>1, <4>1, <5>1 DEF Until
      <4>2. CASE ~(m <= n)
        <5>1. n <= m
          BY <4>2
        <5>2. h[n].at <= h[m].at /\ h[m].at \in Nat /\ h[n].at \in Nat
          BY <1>1, <5>1 DEF InOrder
        <5>3. QED
          BY <1>1, <4>2, <5>2 DEF Until
      <4>3. QED
        BY <4>1, <4>2
    <3>2. Until(h, n) \subseteq 1..Len(h)
      BY <1>1 DEF Until
    <3>3. \A m : m \in 1..n <=> m \in 1..Len(h) /\ m <= n
      BY <1>1
    <3>4. QED
      BY <3>1, <3>2, <3>3, Zenon
  <2>2. QED
    BY <2>1, FS_Interval
<1>3. \A k \in 1..Len(h) : (CHOOSE n \in 1..Len(h) : Cardinality(Until(h, n)) = k) = k
  BY <1>2
<1>4. QED
  BY <1>1, <1>3 DEF InTime

\* What counts as down, and what the segments count, where D are the reasons that do.
DownIn(D, type, s, h) ==
  \/ s = "ON_HOLD" /\ h \in D \cup {None}
  \/ s = "OPEN" /\ type # "PM"
  \/ s = "IN_PROGRESS"

SegmentsIn(D, type, h) ==
  [n \in 1..(Len(h) - 1) |->
     IF DownIn(D, type, h[n].to, h[n].hold) THEN h[n + 1].at - h[n].at ELSE 0]

LivedState == [status : Status, hold : HoldReasons \cup {None}]

\* The ticks of a life at which the machine stood.
DownTicks(D, type, lv) == {n \in DOMAIN lv : DownIn(D, type, lv[n].status, lv[n].hold)}

LEMMA SegmentsAreNaturals ==
  ASSUME NEW h \in Seq(HistoryRow), InOrder(h), NEW D, NEW type
  PROVE  /\ SegmentsIn(D, type, h) \in Seq(Nat)
         /\ h # <<>> => Len(SegmentsIn(D, type, h)) = Len(h) - 1
         /\ \A n \in 1..(Len(h) - 1) :
              SegmentsIn(D, type, h)[n] =
                IF DownIn(D, type, h[n].to, h[n].hold) THEN h[n + 1].at - h[n].at ELSE 0
<1>1. Len(h) \in Nat /\ DOMAIN h = 1..Len(h) /\ \A n \in 1..Len(h) : h[n].at \in Nat
  <2>1. \A n \in 1..Len(h) : h[n] \in HistoryRow
    OBVIOUS
  <2>2. QED
    BY <2>1 DEF HistoryRow
<1>2. PICK d : d = SegmentsIn(D, type, h)
  OBVIOUS
<1>3. \A n \in 1..(Len(h) - 1) :
        d[n] = IF DownIn(D, type, h[n].to, h[n].hold) THEN h[n + 1].at - h[n].at ELSE 0
  BY <1>2 DEF SegmentsIn
<1>4. ASSUME NEW n \in 1..(Len(h) - 1) PROVE d[n] \in Nat
  <2>1. n \in DOMAIN h /\ n + 1 \in DOMAIN h /\ n <= n + 1
    BY <1>1
  <2>2. h[n].at <= h[n + 1].at /\ h[n].at \in Nat /\ h[n + 1].at \in Nat
    BY <1>1, <2>1 DEF InOrder
  <2>3. QED
    BY <1>3, <2>2
<1>5. d = [n \in 1..(Len(h) - 1) |-> d[n]]
  BY <1>2 DEF SegmentsIn
<1>6. CASE h = <<>>
  <2>1. 1..(Len(h) - 1) = 1..0
    BY <1>6
  <2>2. d \in [1..0 -> Nat]
    BY <1>5, <2>1
  <2>3. d \in Seq(Nat)
    BY <2>2
  <2>4. QED
    BY <1>2, <1>3, <1>6, <2>3
<1>7. CASE h # <<>>
  <2>1. Len(h) - 1 \in Nat
    BY <1>1, <1>7
  <2>2. PICK a \in Nat : a = Len(h) - 1
    BY <2>1
  <2>3. d \in [1..a -> Nat]
    BY <1>4, <1>5, <2>2
  <2>4. d \in Seq(Nat) /\ Len(d) = a
    BY <2>3
  <2>5. QED
    BY <1>2, <1>3, <2>2, <2>4
<1>8. QED
  BY <1>6, <1>7

\* Read by their times, the rows sum to a natural number.
LEMMA DowntimeIsNatural ==
  ASSUME NEW h \in Seq(HistoryRow), NEW type
  PROVE  Downtime(type, InTime(h)) \in Nat
<1>1. PICK t : t = InTime(h)
  OBVIOUS
<1>2. t \in Seq(HistoryRow) /\ InOrder(t)
  BY <1>1, InTimeIsInOrder
<1>3. SegmentsIn(holdDown, type, t) = Segments(type, t)
  BY DEF SegmentsIn, Segments, DownIn, IsDown
<1>4. SegmentsIn(holdDown, type, t) \in Seq(Nat)
  BY <1>2, SegmentsAreNaturals
<1>5. QED
  BY <1>1, <1>3, <1>4, SumOfNaturals DEF Downtime

\* A tick more is a tick down or is not.
LEMMA OneTickMore ==
  ASSUME NEW lv \in Seq(LivedState), NEW x \in LivedState, NEW D, NEW type
  PROVE  /\ Cardinality(DownTicks(D, type, lv)) \in Nat
         /\ Cardinality(DownTicks(D, type, Append(lv, x))) =
              Cardinality(DownTicks(D, type, lv)) + (IF DownIn(D, type, x.status, x.hold) THEN 1 ELSE 0)
<1>1. PICK more : more = Append(lv, x)
  OBVIOUS
<1>2. /\ Len(lv) \in Nat /\ DOMAIN lv = 1..Len(lv) /\ DOMAIN more = 1..(Len(lv) + 1)
      /\ more[Len(lv) + 1] = x /\ \A n \in 1..Len(lv) : more[n] = lv[n]
  BY <1>1
<1>3. PICK S : S = DownTicks(D, type, lv)
  OBVIOUS
<1>4. S \subseteq 1..Len(lv) /\ IsFiniteSet(S) /\ Cardinality(S) \in Nat
  <2>1. S \in SUBSET (1..Len(lv))
    BY <1>2, <1>3 DEF DownTicks
  <2>2. IsFiniteSet(1..Len(lv))
    BY <1>2, FS_Interval
  <2>3. QED
    BY <2>1, <2>2, FS_Subset, FS_CardinalityType
<1>5. Len(lv) + 1 \notin S
  BY <1>2, <1>4
<1>6. CASE DownIn(D, type, x.status, x.hold)
  <2>1. DownTicks(D, type, more) = S \cup {Len(lv) + 1}
    <3>1. ASSUME NEW n PROVE n \in DownTicks(D, type, more) <=> n \in S \cup {Len(lv) + 1}
      <4>1. CASE n = Len(lv) + 1
        BY <1>2, <1>6, <4>1 DEF DownTicks
      <4>2. CASE n # Len(lv) + 1
        <5>1. n \in 1..(Len(lv) + 1) <=> n \in 1..Len(lv)
          BY <1>2, <4>2
        <5>2. QED
          BY <1>2, <1>3, <4>2, <5>1 DEF DownTicks
      <4>3. QED
        BY <4>1, <4>2
    <3>2. QED
      BY <3>1
  <2>2. Cardinality(S \cup {Len(lv) + 1}) = Cardinality(S) + 1
    BY <1>4, <1>5, FS_AddElement
  <2>3. QED
    BY <1>1, <1>3, <1>4, <1>6, <2>1, <2>2
<1>7. CASE ~DownIn(D, type, x.status, x.hold)
  <2>1. DownTicks(D, type, more) = S
    <3>1. ASSUME NEW n PROVE n \in DownTicks(D, type, more) <=> n \in S
      <4>1. CASE n = Len(lv) + 1
        BY <1>2, <1>5, <1>7, <4>1 DEF DownTicks
      <4>2. CASE n # Len(lv) + 1
        <5>1. n \in 1..(Len(lv) + 1) <=> n \in 1..Len(lv)
          BY <1>2, <4>2
        <5>2. QED
          BY <1>2, <1>3, <4>2, <5>1 DEF DownTicks
      <4>3. QED
        BY <4>1, <4>2
    <3>2. QED
      BY <3>1
  <2>2. QED
    BY <1>1, <1>3, <1>4, <1>7, <2>1
<1>8. QED
  BY <1>6, <1>7

\* The time a history accounts for is the time lived: what its segments count, and the time
\* since its last row, whatever reasons were downtime.
TimeAdds(type, h, lv, now) ==
  /\ h # <<>>
  /\ InOrder(h)
  /\ h[Len(h)].at <= now
  /\ \A D \in SUBSET HoldReasons :
       Cardinality(DownTicks(D, type, lv)) =
         SeqSum(SegmentsIn(D, type, h))
           + (IF DownIn(D, type, h[Len(h)].to, h[Len(h)].hold) THEN now - h[Len(h)].at ELSE 0)

LEMMA TickAddsTime ==
  ASSUME NEW type, NEW h \in Seq(HistoryRow), NEW lv \in Seq(LivedState), NEW now \in Nat,
         TimeAdds(type, h, lv, now),
         NEW x \in LivedState, x.status = h[Len(h)].to, x.hold = h[Len(h)].hold
  PROVE  TimeAdds(type, h, Append(lv, x), now + 1)
<1>1. PICK last : last = h[Len(h)]
  OBVIOUS
<1>2. h # <<>> /\ InOrder(h) /\ last.at <= now
  BY <1>1 DEF TimeAdds
<1>3. last.at \in Nat
  <2>1. Len(h) \in 1..Len(h)
    BY <1>2
  <2>2. last \in HistoryRow
    BY <1>1, <2>1
  <2>3. QED
    BY <2>2 DEF HistoryRow
<1>4. ASSUME NEW D \in SUBSET HoldReasons
      PROVE  Cardinality(DownTicks(D, type, Append(lv, x))) =
               SeqSum(SegmentsIn(D, type, h))
                 + (IF DownIn(D, type, last.to, last.hold) THEN (now + 1) - last.at ELSE 0)
  <2>1. PICK down \in BOOLEAN : down = DownIn(D, type, last.to, last.hold)
    BY DEF DownIn
  <2>2. PICK sum : sum = SeqSum(SegmentsIn(D, type, h))
    OBVIOUS
  <2>3. PICK a : a = Cardinality(DownTicks(D, type, lv))
    OBVIOUS
  <2>4. PICK b : b = Cardinality(DownTicks(D, type, Append(lv, x)))
    OBVIOUS
  <2>5. sum \in Nat
    BY <1>2, <2>2, SegmentsAreNaturals, SumOfNaturals
  <2>6. a = sum + (IF down THEN now - last.at ELSE 0)
    BY <1>1, <2>1, <2>2, <2>3 DEF TimeAdds
  <2>7. a \in Nat /\ b = a + (IF down THEN 1 ELSE 0)
    BY <1>1, <2>1, <2>3, <2>4, OneTickMore
  <2>8. b = sum + (IF down THEN (now + 1) - last.at ELSE 0)
    BY <1>3, <2>5, <2>6, <2>7
  <2>9. QED
    BY <2>1, <2>2, <2>4, <2>8
<1>5. QED
  BY <1>1, <1>2, <1>3, <1>4 DEF TimeAdds

\* The rows of a transaction come after the others, all at one time.
LEMMA RowsGoOn ==
  ASSUME NEW old \in Seq(HistoryRow), NEW R \in Seq(HistoryRow), NEW now \in Nat,
         old # <<>>, R # <<>>, InOrder(old), old[Len(old)].at <= now,
         \A n \in 1..Len(R) : R[n].at = now
  PROVE  /\ old \o R \in Seq(HistoryRow) /\ old \o R # <<>> /\ InOrder(old \o R)
         /\ Len(old \o R) > Len(old)
         /\ \A n \in 1..Len(old) : (old \o R)[n] = old[n]
         /\ \A n \in 1..Len(old \o R) : n > Len(old) => (old \o R)[n].at = now
<1>1. PICK h : h = old \o R
  OBVIOUS
<1>2. /\ h \in Seq(HistoryRow) /\ Len(h) = Len(old) + Len(R)
      /\ \A n \in 1..(Len(old) + Len(R)) : h[n] = IF n <= Len(old) THEN old[n] ELSE R[n - Len(old)]
  BY <1>1, ConcatProperties
<1>3. Len(old) \in Nat \ {0} /\ Len(R) \in Nat \ {0} /\ DOMAIN old = 1..Len(old) /\ DOMAIN h = 1..Len(h)
  BY <1>2
<1>4. \A n \in 1..Len(old) : h[n] = old[n] /\ old[n].at \in Nat /\ old[n].at <= now
  <2>1. ASSUME NEW n \in 1..Len(old) PROVE h[n] = old[n] /\ old[n].at \in Nat /\ old[n].at <= now
    <3>1. n \in 1..(Len(old) + Len(R)) /\ n <= Len(old)
      BY <1>3
    <3>2. n \in DOMAIN old /\ Len(old) \in DOMAIN old
      BY <1>3
    <3>3. old[n].at <= old[Len(old)].at
      BY <3>1, <3>2 DEF InOrder
    <3>4. old[n] \in HistoryRow /\ old[Len(old)] \in HistoryRow
      BY <1>3, <3>2
    <3>5. old[n].at \in Nat /\ old[Len(old)].at \in Nat
      BY <3>4 DEF HistoryRow
    <3>6. QED
      BY <1>2, <3>1, <3>3, <3>5
  <2>2. QED
    BY <2>1
<1>5. ASSUME NEW n \in 1..Len(h), n > Len(old) PROVE h[n].at = now
  <2>1. n \in 1..(Len(old) + Len(R)) /\ ~(n <= Len(old)) /\ n - Len(old) \in 1..Len(R)
    BY <1>2, <1>3, <1>5
  <2>2. QED
    BY <1>2, <2>1
<1>6. ASSUME NEW i \in 1..Len(h), NEW j \in 1..Len(h), i <= j
      PROVE  h[i].at <= h[j].at
  <2>1. CASE j <= Len(old)
    <3>1. i \in DOMAIN old /\ j \in DOMAIN old
      BY <1>3, <1>6, <2>1
    <3>2. old[i].at <= old[j].at
      BY <1>6, <3>1 DEF InOrder
    <3>3. QED
      BY <1>3, <1>4, <3>1, <3>2
  <2>2. CASE j > Len(old) /\ i <= Len(old)
    <3>1. i \in 1..Len(old)
      BY <1>3, <2>2
    <3>2. QED
      BY <1>4, <1>5, <2>2, <3>1
  <2>3. CASE i > Len(old) /\ j > Len(old)
    BY <1>5, <2>3
  <2>4. QED
    BY <1>3, <1>6, <2>1, <2>2, <2>3
<1>7. h # <<>> /\ Len(h) > Len(old)
  BY <1>2, <1>3
<1>8. QED
  BY <1>1, <1>2, <1>3, <1>4, <1>5, <1>6, <1>7 DEF InOrder

LEMMA RowsAddTime ==
  ASSUME NEW type, NEW old \in Seq(HistoryRow), NEW R \in Seq(HistoryRow), NEW lv, NEW now \in Nat,
         R # <<>>, \A n \in 1..Len(R) : R[n].at = now, TimeAdds(type, old, lv, now)
  PROVE  /\ TimeAdds(type, old \o R, lv, now)
         /\ \A D \in SUBSET HoldReasons :
              SeqSum(SegmentsIn(D, type, old \o R)) = Cardinality(DownTicks(D, type, lv))
<1>1. PICK h : h = old \o R
  OBVIOUS
<1>2. old # <<>> /\ InOrder(old) /\ old[Len(old)].at <= now
  BY DEF TimeAdds
<1>3. /\ h \in Seq(HistoryRow) /\ h # <<>> /\ InOrder(h) /\ Len(h) > Len(old)
      /\ \A n \in 1..Len(old) : h[n] = old[n]
      /\ \A n \in 1..Len(h) : n > Len(old) => h[n].at = now
  BY <1>1, <1>2, RowsGoOn
<1>4. PICK a, b : a = Len(old) /\ b = Len(h)
  OBVIOUS
<1>5. a \in Nat /\ b \in Nat /\ a > 0 /\ b > a
  BY <1>2, <1>3, <1>4
<1>6. h[b].at = now /\ h[a + 1].at = now /\ h[a] = old[a]
  <2>1. b \in 1..b /\ b > a /\ a + 1 \in 1..b /\ a + 1 > a /\ a \in 1..a
    BY <1>5
  <2>2. QED
    BY <1>3, <1>4, <2>1
<1>7. ASSUME NEW D \in SUBSET HoldReasons
      PROVE  SeqSum(SegmentsIn(D, type, h)) = Cardinality(DownTicks(D, type, lv))
  <2>1. PICK d : d = SegmentsIn(D, type, old)
    OBVIOUS
  <2>2. PICK e : e = SegmentsIn(D, type, h)
    OBVIOUS
  <2>3. /\ d \in Seq(Nat) /\ Len(d) = a - 1
        /\ \A n \in 1..(a - 1) : d[n] = IF DownIn(D, type, old[n].to, old[n].hold) THEN old[n + 1].at - old[n].at ELSE 0
    BY <1>2, <1>4, <2>1, SegmentsAreNaturals
  <2>4. /\ e \in Seq(Nat) /\ Len(e) = b - 1
        /\ \A n \in 1..(b - 1) : e[n] = IF DownIn(D, type, h[n].to, h[n].hold) THEN h[n + 1].at - h[n].at ELSE 0
    BY <1>3, <1>4, <2>2, SegmentsAreNaturals
  <2>5. ASSUME NEW n \in 1..Len(d) PROVE e[n] = d[n]
    <3>1. n \in 1..(a - 1) /\ n \in 1..(b - 1) /\ n \in 1..Len(old) /\ n + 1 \in 1..Len(old)
      BY <1>4, <1>5, <2>3
    <3>2. h[n] = old[n] /\ h[n + 1] = old[n + 1]
      BY <1>3, <3>1
    <3>3. QED
      BY <2>3, <2>4, <3>1, <3>2
  <2>6. ASSUME NEW n \in 1..Len(e), n > Len(d) + 1 PROVE e[n] = 0
    <3>1. n \in 1..(b - 1) /\ n \in 1..b /\ n + 1 \in 1..b /\ n > a /\ n + 1 > a
      BY <1>5, <2>3, <2>4, <2>6
    <3>2. h[n].at = now /\ h[n + 1].at = now
      BY <1>3, <1>4, <3>1
    <3>3. QED
      BY <2>4, <3>1, <3>2
  <2>7. e[a] = IF DownIn(D, type, old[a].to, old[a].hold) THEN now - old[a].at ELSE 0
    <3>1. a \in 1..(b - 1)
      BY <1>5
    <3>2. QED
      BY <1>6, <2>4, <3>1
  <2>8. Len(d) < Len(e) /\ Len(d) + 1 = a /\ d \in Seq(Int) /\ e \in Seq(Int)
    BY <1>5, <2>3, <2>4
  <2>9. SeqSum(e) = SeqSum(d) + e[a]
    <3>1. SeqSum(e) = SeqSum(d) + e[Len(d) + 1]
      BY <2>5, <2>6, <2>8, SumOfExtended
    <3>2. QED
      BY <2>8, <3>1
  <2>10. Cardinality(DownTicks(D, type, lv)) = SeqSum(d) + e[a]
    BY <1>4, <2>1, <2>7 DEF TimeAdds
  <2>11. QED
    BY <2>2, <2>9, <2>10
<1>8. ASSUME NEW D \in SUBSET HoldReasons
      PROVE  Cardinality(DownTicks(D, type, lv)) =
               SeqSum(SegmentsIn(D, type, h))
                 + (IF DownIn(D, type, h[Len(h)].to, h[Len(h)].hold) THEN now - h[Len(h)].at ELSE 0)
  <2>1. PICK sum : sum = SeqSum(SegmentsIn(D, type, h))
    OBVIOUS
  <2>2. sum \in Nat
    BY <1>3, <2>1, SegmentsAreNaturals, SumOfNaturals
  <2>3. sum = sum + (IF DownIn(D, type, h[Len(h)].to, h[Len(h)].hold) THEN now - h[Len(h)].at ELSE 0)
    BY <1>4, <1>6, <2>2
  <2>4. QED
    BY <1>7, <2>1, <2>3
<1>9. h[Len(h)].at <= now
  BY <1>4, <1>6
<1>10. QED
  BY <1>1, <1>3, <1>7, <1>8, <1>9 DEF TimeAdds

\* A life begins with one row and no tick.
LEMMA OpeningAddsTime ==
  ASSUME NEW type, NEW x \in HistoryRow
  PROVE  TimeAdds(type, <<x>>, <<>>, x.at)
<1>1. PICK h : h = <<x>>
  OBVIOUS
<1>2. h \in Seq(HistoryRow) /\ Len(h) = 1 /\ h[1] = x /\ h # <<>> /\ DOMAIN h = {1} /\ x.at \in Nat
  <2>1. x.at \in Nat
    BY DEF HistoryRow
  <2>2. QED
    BY <1>1, <2>1
<1>3. InOrder(h)
  BY <1>2 DEF InOrder
<1>4. ASSUME NEW D PROVE Cardinality(DownTicks(D, type, <<>>)) = 0 /\ SeqSum(SegmentsIn(D, type, h)) = 0
  <2>1. DownTicks(D, type, <<>>) = {}
    BY DEF DownTicks
  <2>2. SegmentsIn(D, type, h) \in Seq(Nat) /\ Len(SegmentsIn(D, type, h)) = 0
    BY <1>2, <1>3, SegmentsAreNaturals
  <2>3. SegmentsIn(D, type, h) = <<>>
    BY <2>2
  <2>4. QED
    BY <2>1, <2>3, FS_EmptySet, SumOfNothing
<1>5. \A D : 0 = 0 + (IF DownIn(D, type, h[Len(h)].to, h[Len(h)].hold) THEN x.at - h[Len(h)].at ELSE 0)
  BY <1>2
<1>6. QED
  BY <1>1, <1>2, <1>3, <1>4, <1>5 DEF TimeAdds

-----------------------------------------------------------------------------
(***************************************************************************)
(* The columns keep their types, whatever races.                           *)
(***************************************************************************)
LEMMA RowFits ==
  ASSUME NEW s \in Status \cup {"absent"}, NEW t \in {"REACTIVE", "PM", None},
         NEW h \in HoldReasons \cup {None}, NEW c \in Nat \cup {None}, NEW m \in Nat \cup {None},
         NEW b \in Actors \cup {None}, NEW e \in Details \cup {None}
  PROVE  [status |-> s, type |-> t, hold |-> h, closedAt |-> c, downtime |-> m, by |-> b, detail |-> e] \in Row
  BY DEF Row

LEMMA FieldsOfRow ==
  ASSUME NEW x \in Row
  PROVE  /\ x.status \in Status \cup {"absent"} /\ x.type \in {"REACTIVE", "PM", None}
         /\ x.hold \in HoldReasons \cup {None} /\ x.closedAt \in Nat \cup {None}
         /\ x.downtime \in Nat \cup {None} /\ x.by \in Actors \cup {None} /\ x.detail \in Details \cup {None}
         /\ IsRow(x)
  BY DEF Row, IsRow

LEMMA DetailFits ==
  ASSUME NEW x \in Row, NEW d \in Details \cup {None}
  PROVE  [x EXCEPT !.detail = d] \in Row
<1>1. IsRow(x)
  BY FieldsOfRow
<1>2. PICK s, t, h, c, m, b, e :
        x = [status |-> s, type |-> t, hold |-> h, closedAt |-> c, downtime |-> m, by |-> b, detail |-> e]
  BY <1>1 DEF IsRow
<1>3. /\ x.status = s /\ x.type = t /\ x.hold = h /\ x.closedAt = c /\ x.downtime = m /\ x.by = b
  BY <1>2
<1>4. /\ s \in Status \cup {"absent"} /\ t \in {"REACTIVE", "PM", None}
      /\ h \in HoldReasons \cup {None} /\ c \in Nat \cup {None} /\ m \in Nat \cup {None}
      /\ b \in Actors \cup {None}
  BY <1>3, FieldsOfRow
<1>5. [x EXCEPT !.detail = d]
        = [status |-> s, type |-> t, hold |-> h, closedAt |-> c, downtime |-> m, by |-> b, detail |-> d]
  BY <1>2
<1>6. [status |-> s, type |-> t, hold |-> h, closedAt |-> c, downtime |-> m, by |-> b, detail |-> d] \in Row
  BY <1>4 DEF Row
<1>7. QED
  BY <1>5, <1>6, Zenon

LEMMA RequestFits ==
  ASSUME NEW p \in {"idle", "transition", "edit"}, NEW w \in WorkOrders \cup {None},
         NEW b \in Actors \cup {None}, NEW path \in Seq(Status), NEW h \in HoldReasons \cup {None},
         NEW n \in Nat, NEW d \in Details \cup {None}, NEW x \in Row
  PROVE  [pc |-> p, wo |-> w, by |-> b, path |-> path, hold |-> h, at |-> n, detail |-> d, seen |-> x]
           \in Request
  BY DEF Request

LEMMA NothingFits == Absent \in Row /\ Idle \in Request
<1>1. Absent \in Row
  BY RowFits DEF Absent
<1>2. <<>> \in Seq(Status) /\ 0 \in Nat
  OBVIOUS
<1>3. QED
  BY <1>1, <1>2, RequestFits DEF Idle

LEMMA ApplyFits ==
  ASSUME Inv, TypeOK, NEW w \in WorkOrders, NEW seen \in Row, NEW path \in Seq(Status), path # <<>>,
         NEW h \in HoldReasons \cup {None}, NEW at \in Nat, NEW d \in Details \cup {None},
         seen.status \in Status, LegalPath(seen.status, path), history[w] # <<>>,
         Apply(w, seen, path, h, at, d)
  PROVE  row' \in [WorkOrders -> Row] /\ history' \in [WorkOrders -> Seq(HistoryRow)]
<1>1. history' \in [WorkOrders -> Seq(HistoryRow)]
  BY ApplyKeepsHistory
<1>2. PICK hist : hist = history[w] \o Rows(seen, path, h, at)
  OBVIOUS
<1>3. history' = [history EXCEPT ![w] = hist]
  BY <1>2 DEF Apply
<1>4. hist \in Seq(HistoryRow)
  <2>1. history'[w] = hist
    BY <1>3 DEF TypeOK
  <2>2. QED
    BY <1>1, <2>1
<1>5. PICK old \in Row : old = row[w]
  BY DEF TypeOK
<1>6. PICK s : s = path[Len(path)]
  OBVIOUS
<1>7. PICK hold : hold = HoldStored(w, seen, path, h)
  OBVIOUS
<1>8. PICK c : c = IF s = "CLOSED" THEN at ELSE old.closedAt
  OBVIOUS
<1>9. PICK m : m = IF s = "CLOSED"
                     THEN Written(Downtime(seen.type, InTime(hist)), seen.downtime, old.downtime)
                     ELSE old.downtime
  OBVIOUS
<1>10. PICK e : e = IF d = None THEN old.detail ELSE Written(d, seen.detail, old.detail)
  OBVIOUS
<1>11. row' = [row EXCEPT ![w] = [status |-> s, type |-> old.type, hold |-> hold, closedAt |-> c,
                                  downtime |-> m, by |-> old.by, detail |-> e]]
  BY <1>2, <1>5, <1>6, <1>7, <1>8, <1>9, <1>10, Zenon DEF Apply
<1>12. s \in Status
  BY <1>6
<1>13. hold \in HoldReasons \cup {None}
  BY <1>5, <1>7, FieldsOfRow DEF HoldStored, HoldAfter, Written
<1>14. c \in Nat \cup {None}
  BY <1>5, <1>8, FieldsOfRow
<1>15. m \in Nat \cup {None}
  <2>1. Downtime(seen.type, InTime(hist)) \in Nat
    BY <1>4, DowntimeIsNatural
  <2>2. old.downtime \in Nat \cup {None}
    BY <1>5, FieldsOfRow
  <2>3. QED
    BY <1>9, <2>1, <2>2 DEF Written
<1>16. e \in Details \cup {None}
  BY <1>5, <1>10, FieldsOfRow DEF Written
<1>17. [status |-> s, type |-> old.type, hold |-> hold, closedAt |-> c,
        downtime |-> m, by |-> old.by, detail |-> e] \in Row
  BY <1>5, <1>12, <1>13, <1>14, <1>15, <1>16, FieldsOfRow, RowFits
<1>18. QED
  BY <1>1, <1>11, <1>17 DEF TypeOK

LEMMA LoadFits ==
  ASSUME Inv, TypeOK, NEW r \in Requests, Load(r)
  PROVE  req' \in [Requests -> Request] /\ UNCHANGED <<row, history, holdDown, clock, lived>>
<1>1. ASSUME NEW w \in WorkOrders, NEW a \in Actors, NEW kind \in Kinds, NEW h \in HoldReasons,
             NEW d \in Details \cup {None}, LoadTransition(r, w, kind, a, h, d)
      PROVE  req' \in [Requests -> Request] /\ UNCHANGED <<row, history, holdDown, clock, lived>>
  <2>1. PICK path \in Seq(Status) : path = Path(kind, row[w].status)
    BY PathIsStatuses
  <2>2. PICK q : q = [pc |-> "transition", wo |-> w, by |-> a, path |-> path, hold |-> h, at |-> clock,
                      detail |-> d, seen |-> row[w]]
    OBVIOUS
  <2>3. row[w] \in Row /\ clock \in Nat
    BY DEF TypeOK
  <2>4. q \in Request
    BY <2>1, <2>2, <2>3, RequestFits
  <2>5. req' = [req EXCEPT ![r] = q] /\ UNCHANGED <<row, history, holdDown, clock, lived>>
    BY <1>1, <2>1, <2>2 DEF LoadTransition
  <2>6. QED
    BY <2>4, <2>5 DEF TypeOK
<1>2. ASSUME NEW w \in WorkOrders, NEW a \in Actors, NEW kind \in {"detail", "assignees"},
             NEW d \in Details \cup {None}, LoadEdit(r, w, kind, a, d)
      PROVE  req' \in [Requests -> Request] /\ UNCHANGED <<row, history, holdDown, clock, lived>>
  <2>1. PICK q : q = [Idle EXCEPT !.pc = "edit", !.wo = w, !.by = a, !.detail = d, !.seen = row[w]]
    OBVIOUS
  <2>2. q = [pc |-> "edit", wo |-> w, by |-> a, path |-> <<>>, hold |-> None, at |-> 0,
             detail |-> d, seen |-> row[w]]
    BY <2>1 DEF Idle
  <2>3. row[w] \in Row /\ <<>> \in Seq(Status) /\ 0 \in Nat
    BY DEF TypeOK
  <2>4. q \in Request
    BY <2>2, <2>3, RequestFits
  <2>5. req' = [req EXCEPT ![r] = q] /\ UNCHANGED <<row, history, holdDown, clock, lived>>
    BY <1>2, <2>1 DEF LoadEdit
  <2>6. QED
    BY <2>4, <2>5 DEF TypeOK
<1>3. QED
  BY <1>1, <1>2 DEF Load

LEMMA CommitFits ==
  ASSUME Inv, TypeOK, NEW r \in Requests, Commit(r)
  PROVE  /\ row' \in [WorkOrders -> Row] /\ history' \in [WorkOrders -> Seq(HistoryRow)]
         /\ req' \in [Requests -> Request] /\ UNCHANGED <<holdDown, clock, lived>>
<1>1. req' \in [Requests -> Request] /\ UNCHANGED <<holdDown, clock, lived>>
  <2>1. req' = [req EXCEPT ![r] = Idle] /\ UNCHANGED <<holdDown, clock, lived>>
    BY DEF Commit, CommitTransition, CommitEdit, Finish
  <2>2. QED
    BY <2>1, NothingFits DEF TypeOK
<1>2. PICK q \in Request : q = req[r]
  BY DEF TypeOK
<1>3. CASE CommitTransition(r)
  <2>1. Loaded(q) /\ Apply(q.wo, q.seen, q.path, q.hold, q.at, q.detail)
    BY <1>2, <1>3 DEF CommitTransition, Inv, Shape
  <2>2. q.seen \in Row /\ q.detail \in Details \cup {None}
    BY <1>2 DEF Request
  <2>3. QED
    BY <1>1, <2>1, <2>2, ApplyFits DEF Loaded
<1>4. CASE CommitEdit(r)
  <2>1. PICK w \in WorkOrders : w = q.wo
    BY <1>2, <1>4 DEF CommitEdit, Inv, Shape
  <2>2. PICK new : new = [row[w] EXCEPT !.detail = q.detail]
    OBVIOUS
  <2>3. row' = [row EXCEPT ![w] = new] /\ UNCHANGED history
    BY <1>2, <1>4, <2>1, <2>2, Zenon DEF CommitEdit
  <2>4. q.detail \in Details \cup {None} /\ row[w] \in Row
    BY <1>2 DEF Request, TypeOK
  <2>5. new \in Row
    BY <2>2, <2>4, DetailFits
  <2>6. QED
    BY <1>1, <2>3, <2>5 DEF TypeOK
<1>5. QED
  BY <1>3, <1>4 DEF Commit

LEMMA StepFits == Inv /\ TypeOK /\ [Next]_vars => TypeOK'
<1> SUFFICES ASSUME Inv, TypeOK, [Next]_vars PROVE TypeOK'
  OBVIOUS
<1>1. UNCHANGED turns
  BY DEF Next, vars
<1>2. ASSUME NEW r \in Requests, Load(r) PROVE TypeOK'
  BY <1>1, <1>2, LoadFits DEF TypeOK
<1>3. ASSUME NEW r \in Requests, Commit(r) PROVE TypeOK'
  BY <1>1, <1>3, CommitFits DEF TypeOK
<1>4. ASSUME NEW w \in WorkOrders, NEW type \in {"REACTIVE", "PM"}, NEW a \in Actors,
             OpenWorkOrder(w, type, a)
      PROVE  TypeOK'
  <2>1. PICK new : new = [Absent EXCEPT !.status = "OPEN", !.type = type, !.by = a]
    OBVIOUS
  <2>2. new = [status |-> "OPEN", type |-> type, hold |-> None, closedAt |-> None,
               downtime |-> None, by |-> a, detail |-> None]
    BY <2>1 DEF Absent
  <2>3. "OPEN" \in Status /\ new \in Row
    BY <2>2, RowFits DEF Status
  <2>4. PICK first : first = [from |-> None, to |-> "OPEN", hold |-> None, at |-> clock]
    OBVIOUS
  <2>5. first \in HistoryRow
    BY <2>3, <2>4 DEF HistoryRow, TypeOK
  <2>6. <<first>> \in Seq(HistoryRow)
    BY <2>5
  <2>7. /\ row' = [row EXCEPT ![w] = new] /\ history' = [history EXCEPT ![w] = <<first>>]
        /\ UNCHANGED <<holdDown, clock, lived, req>>
    BY <1>4, <2>1, <2>4 DEF OpenWorkOrder
  <2>8. row' \in [WorkOrders -> Row] /\ history' \in [WorkOrders -> Seq(HistoryRow)]
    BY <2>3, <2>6, <2>7 DEF TypeOK
  <2>9. QED
    BY <1>1, <2>7, <2>8 DEF TypeOK
<1>5. ASSUME NEW r \in Requests, NEW w \in WorkOrders, NEW to \in Status,
             ConfirmedTransition(r, w, to)
      PROVE  TypeOK'
  <2>1. /\ row[w].status \in Status /\ history[w] # <<>> /\ row[w] \in Row
        /\ LegalPath(row[w].status, <<to>>)
        /\ Apply(w, row[w], <<to>>, None, clock, None)
        /\ clock \in Nat
        /\ UNCHANGED <<holdDown, clock, lived, req>>
    BY <1>5 DEF ConfirmedTransition, Inv, Shape, StatusIsLastRow, TypeOK
  <2>2. <<to>> \in Seq(Status) /\ <<to>> # <<>>
    OBVIOUS
  <2>3. row' \in [WorkOrders -> Row] /\ history' \in [WorkOrders -> Seq(HistoryRow)]
    BY <2>1, <2>2, ApplyFits
  <2>4. QED
    BY <1>1, <2>1, <2>3 DEF TypeOK
<1>6. ASSUME NEW h \in HoldReasons, UpdateHoldReason(h) PROVE TypeOK'
  <2>1. holdDown' \subseteq HoldReasons /\ UNCHANGED <<row, history, clock, lived, req>>
    BY <1>6 DEF UpdateHoldReason, TypeOK
  <2>2. QED
    BY <1>1, <2>1 DEF TypeOK
<1>7. CASE Tick
  <2>1. /\ clock' \in Nat /\ UNCHANGED <<row, history, holdDown, req>>
        /\ lived' = [w \in WorkOrders |->
             IF row[w].status = "absent" THEN lived[w]
             ELSE Append(lived[w], [status |-> row[w].status,
                                    hold |-> IF row[w].status = "ON_HOLD" THEN row[w].hold ELSE None])]
    BY <1>7 DEF Tick, TypeOK
  <2>2. ASSUME NEW w \in WorkOrders, row[w].status # "absent"
        PROVE  [status |-> row[w].status, hold |-> IF row[w].status = "ON_HOLD" THEN row[w].hold ELSE None]
                 \in LivedState
    <3>1. row[w] \in Row
      BY DEF TypeOK
    <3>2. row[w].status \in Status /\ row[w].hold \in HoldReasons \cup {None}
      BY <2>2, <3>1, FieldsOfRow
    <3>3. QED
      BY <3>2 DEF LivedState
  <2>3. lived \in [WorkOrders -> Seq(LivedState)]
    BY DEF TypeOK, LivedState
  <2>4. \A w \in WorkOrders : lived'[w] \in Seq(LivedState)
    BY <2>1, <2>2, <2>3
  <2>5. lived' \in [WorkOrders -> Seq(LivedState)]
    BY <2>1, <2>4
  <2>6. QED
    BY <1>1, <2>1, <2>5 DEF TypeOK, LivedState
<1>8. CASE UNCHANGED vars
  BY <1>8 DEF TypeOK, vars
<1>9. QED
  BY <1>2, <1>3, <1>4, <1>5, <1>6, <1>7, <1>8 DEF Next, Start

LEMMA SpecKeepsTypes == Spec => [](Inv /\ TypeOK)
<1>1. Init => TypeOK
  <2> SUFFICES ASSUME Init PROVE TypeOK
    OBVIOUS
  <2>1. row \in [WorkOrders -> Row] /\ req \in [Requests -> Request]
    BY NothingFits DEF Init
  <2>2. <<>> \in Seq(HistoryRow) /\ <<>> \in Seq([status : Status, hold : HoldReasons \cup {None}])
    OBVIOUS
  <2>3. history \in [WorkOrders -> Seq(HistoryRow)]
    BY <2>2 DEF Init
  <2>4. lived \in [WorkOrders -> Seq([status : Status, hold : HoldReasons \cup {None}])]
    BY <2>2, Zenon DEF Init
  <2>5. holdDown \subseteq HoldReasons /\ clock \in Nat /\ turns \in BOOLEAN
    BY DEF Init
  <2>6. QED
    BY <2>1, <2>3, <2>4, <2>5 DEF TypeOK
<1>2. QED
  BY <1>1, StepFits, InitInv, NextKeepsInv, PTL DEF Spec

\* However requests race, every column holds a value of its type.
THEOREM ColumnsKeepTypes == Spec => []TypeOK
  BY SpecKeepsTypes, PTL

-----------------------------------------------------------------------------
(***************************************************************************)
(* Requests that take turns.  The time that the history accounts for is    *)
(* the time the work order lived, at every tick: so it is at the close.    *)
(***************************************************************************)
\* The last row tells what the columns say, and all rows what happened since the opening.
LifeOf(w) ==
  /\ row[w].status = "absent" => lived[w] = <<>>
  /\ history[w] # <<>> =>
       /\ TimeAdds(row[w].type, history[w], lived[w], clock)
       /\ history[w][Len(history[w])].hold = IF row[w].status = "ON_HOLD" THEN row[w].hold ELSE None

Lives ==
  /\ \A w \in WorkOrders : LifeOf(w)
  /\ \A r \in Requests : req[r].pc = "transition" => req[r].at = clock

LEMMA LifeUnchanged ==
  ASSUME NEW w \in WorkOrders, LifeOf(w), UNCHANGED <<history, lived, clock>>,
         row'[w].status = row[w].status, row'[w].type = row[w].type, row'[w].hold = row[w].hold
  PROVE  LifeOf(w)'
  BY DEF LifeOf

\* A commit dated now, of a request that loaded what it writes over.
LEMMA ApplyKeepsLives ==
  ASSUME Inv, TypeOK, \A v \in WorkOrders : LifeOf(v), UNCHANGED <<lived, clock>>,
         NEW w \in WorkOrders, NEW path \in Seq(Status), path # <<>>,
         NEW h \in HoldReasons \cup {None}, NEW d, row[w].status \in Status,
         LegalPath(row[w].status, path), history[w] # <<>>, Apply(w, row[w], path, h, clock, d)
  PROVE  (\A v \in WorkOrders : LifeOf(v))' /\ ClosedWithTimeDown /\ DowntimeKept
<1>1. PICK R : R = Rows(row[w], path, h, clock)
  OBVIOUS
<1>2. PICK old \in Seq(HistoryRow) : old = history[w]
  BY DEF TypeOK
<1>3. /\ R \in Seq(HistoryRow) /\ R # <<>> /\ Len(R) = Len(path) /\ Len(path) \in Nat \ {0}
      /\ \A n \in 1..Len(R) : R[n].at = clock
  <2>1. clock \in Nat /\ Len(path) \in Nat \ {0}
    BY DEF TypeOK
  <2>2. FollowPath(R, row[w], path, clock)
    BY <1>1, <2>1, RowsOfAPath
  <2>3. QED
    BY <2>1, <2>2 DEF FollowPath
<1>4. PICK hist : hist = old \o R
  OBVIOUS
<1>5. /\ hist \in Seq(HistoryRow) /\ hist # <<>> /\ Len(hist) = Len(old) + Len(R)
      /\ hist[Len(hist)] = R[Len(path)]
  <2>1. /\ hist \in Seq(HistoryRow) /\ Len(hist) = Len(old) + Len(R)
        /\ \A n \in 1..(Len(old) + Len(R)) : hist[n] = IF n <= Len(old) THEN old[n] ELSE R[n - Len(old)]
    <3>1. old \in Seq(HistoryRow) /\ R \in Seq(HistoryRow)
      BY <1>2, <1>3
    <3>2. QED
      BY <1>4, <3>1, ConcatProperties
  <2>2. /\ Len(old) \in Nat /\ Len(old) + Len(R) \in 1..(Len(old) + Len(R))
        /\ ~(Len(old) + Len(R) <= Len(old)) /\ (Len(old) + Len(R)) - Len(old) = Len(path)
    BY <1>2, <1>3
  <2>3. hist[Len(hist)] = R[Len(path)]
    BY <2>1, <2>2
  <2>4. QED
    BY <1>3, <2>1, <2>2, <2>3
<1>6. PICK type : type = row[w].type
  OBVIOUS
<1>7. TimeAdds(type, old, lived[w], clock) /\ clock \in Nat
  BY <1>2, <1>6 DEF LifeOf, TypeOK
<1>8. /\ TimeAdds(type, hist, lived[w], clock)
      /\ \A D \in SUBSET HoldReasons :
           SeqSum(SegmentsIn(D, type, hist)) = Cardinality(DownTicks(D, type, lived[w]))
  BY <1>2, <1>3, <1>4, <1>7, RowsAddTime
<1>9. /\ \A v \in WorkOrders : history'[v] = IF v = w THEN hist ELSE history[v]
      /\ \A v \in WorkOrders : v # w => row'[v] = row[v]
      /\ row'[w].status = path[Len(path)] /\ row'[w].type = type
      /\ row'[w].hold = HoldStored(w, row[w], path, h)
      /\ path[Len(path)] = "CLOSED" => row'[w].downtime = Written(Downtime(type, InTime(hist)), row[w].downtime, row[w].downtime)
  BY <1>1, <1>2, <1>4, <1>6 DEF Apply, TypeOK
<1>10. R[Len(path)].hold = IF path[Len(path)] = "ON_HOLD" THEN h ELSE None
  <2>1. Len(path) \in DOMAIN path
    BY <1>3
  <2>2. QED
    BY <1>1, <2>1 DEF Rows
<1>11. path[Len(path)] = "ON_HOLD" => row'[w].hold = h
  <2>1. SUFFICES ASSUME path[Len(path)] = "ON_HOLD" PROVE HoldStored(w, row[w], path, h) = h
    BY <1>9
  <2>2. Len(path) \in DOMAIN path
    BY <1>3
  <2>3. HoldAfter(row[w], path, h) = h
    BY <2>1, <2>2 DEF HoldAfter
  <2>4. QED
    BY <2>3 DEF HoldStored, Written
<1>12. row'[w].status # "absent"
  BY <1>3, <1>9 DEF Status
<1>13. LifeOf(w)'
  BY <1>5, <1>8, <1>9, <1>10, <1>11, <1>12 DEF LifeOf
<1>14. ASSUME NEW v \in WorkOrders, v # w PROVE LifeOf(v)'
  BY <1>9, <1>14 DEF LifeOf
<1>15. row[w].status \notin Terminal
  BY TerminalEnds
<1>16. path[Len(path)] = "CLOSED" => row'[w].downtime = TimeDown(w)
  <2>1. InTime(hist) = hist
    BY <1>5, <1>8, InOrderStays DEF TimeAdds
  <2>2. Segments(type, hist) = SegmentsIn(holdDown, type, hist)
    BY DEF SegmentsIn, Segments, DownIn, IsDown
  <2>3. DownTicks(holdDown, type, lived[w]) = {n \in DOMAIN lived[w] : IsDown(row[w].type, lived[w][n].status, lived[w][n].hold)}
    BY <1>6 DEF DownTicks, DownIn, IsDown
  <2>4. holdDown \in SUBSET HoldReasons
    BY DEF TypeOK
  <2>5. Downtime(type, InTime(hist)) = TimeDown(w)
    BY <1>8, <2>1, <2>2, <2>3, <2>4 DEF Downtime, TimeDown
  <2>6. QED
    BY <1>9, <2>5 DEF Written
<1>17. ClosedWithTimeDown
  BY <1>9, <1>16 DEF ClosedWithTimeDown
<1>18. DowntimeKept
  BY <1>9, <1>15 DEF DowntimeKept, Terminal
<1>19. QED
  BY <1>13, <1>14, <1>17, <1>18

LEMMA CommitKeepsLives ==
  ASSUME Inv, TypeOK, Turns, Lives, NEW r \in Requests, Commit(r)
  PROVE  Lives' /\ ClosedWithTimeDown /\ DowntimeKept
<1>1. \A s \in Requests : req'[s].pc # "transition"
  BY CommitEndsTheTurn DEF Idle
<1>2. CASE CommitTransition(r)
  <2>1. PICK q : q = req[r]
    OBVIOUS
  <2>2. /\ Loaded(q) /\ Prepared(q) /\ q.at = clock /\ UNCHANGED <<lived, clock>>
        /\ Apply(q.wo, q.seen, q.path, q.hold, q.at, q.detail)
    BY <1>2, <2>1 DEF CommitTransition, Inv, Shape, Turns, Lives
  <2>3. PICK w, path, h, d : w = q.wo /\ path = q.path /\ h = q.hold /\ d = q.detail
    OBVIOUS
  <2>4. /\ w \in WorkOrders /\ path \in Seq(Status) /\ h \in HoldReasons \cup {None} /\ path # <<>> /\ row[w].status \in Status /\ LegalPath(row[w].status, path)
        /\ history[w] # <<>> /\ Apply(w, row[w], path, h, clock, d)
    BY <2>2, <2>3 DEF Loaded, Prepared
  <2>5. (\A v \in WorkOrders : LifeOf(v))' /\ ClosedWithTimeDown /\ DowntimeKept
    BY <2>2, <2>3, <2>4, ApplyKeepsLives DEF Lives
  <2>6. QED
    BY <1>1, <2>5 DEF Lives
<1>3. CASE CommitEdit(r)
  <2>1. PICK w \in WorkOrders : w = req[r].wo
    BY <1>3 DEF CommitEdit, Inv, Shape
  <2>2. PICK new : new = [row[w] EXCEPT !.detail = req[r].detail]
    OBVIOUS
  <2>3. row' = [row EXCEPT ![w] = new] /\ UNCHANGED <<history, lived, clock>>
    BY <1>3, <2>1, <2>2, Zenon DEF CommitEdit
  <2>4. /\ new.status = row[w].status /\ new.hold = row[w].hold /\ new.type = row[w].type
        /\ new.downtime = row[w].downtime
    BY <2>2 DEF Inv, Shape, IsRow
  <2>5. \A v \in WorkOrders : row'[v].status = row[v].status /\ row'[v].type = row[v].type
                              /\ row'[v].hold = row[v].hold /\ row'[v].downtime = row[v].downtime
    BY <2>3, <2>4 DEF Inv, Shape
  <2>6. \A v \in WorkOrders : LifeOf(v)'
    BY <2>3, <2>5, LifeUnchanged DEF Lives
  <2>7. QED
    BY <1>1, <2>5, <2>6 DEF Lives, ClosedWithTimeDown, DowntimeKept
<1>4. QED
  BY <1>2, <1>3 DEF Commit

LEMMA TickKeepsLives ==
  ASSUME Inv, TypeOK, Quiet, Lives, Tick
  PROVE  Lives'
<1>1. /\ clock' = clock + 1 /\ clock \in Nat /\ UNCHANGED <<row, history, req>>
      /\ \A w \in WorkOrders : lived'[w] =
           IF row[w].status = "absent" THEN lived[w]
           ELSE Append(lived[w], [status |-> row[w].status,
                                  hold |-> IF row[w].status = "ON_HOLD" THEN row[w].hold ELSE None])
  BY DEF Tick, TypeOK
<1>2. \A r \in Requests : req'[r].pc # "transition"
  BY <1>1 DEF Quiet, Idle
<1>3. ASSUME NEW w \in WorkOrders PROVE LifeOf(w)'
  <2>1. CASE row[w].status = "absent"
    <3>1. history[w] = <<>>
      BY <2>1 DEF Inv, StatusIsLastRow
    <3>2. QED
      BY <1>1, <2>1, <3>1 DEF Lives, LifeOf
  <2>2. CASE row[w].status # "absent"
    <3>1. PICK x : x = [status |-> row[w].status,
                        hold |-> IF row[w].status = "ON_HOLD" THEN row[w].hold ELSE None]
      OBVIOUS
    <3>2. row[w] \in Row
      BY DEF TypeOK
    <3>3. row[w].status \in Status /\ row[w].hold \in HoldReasons \cup {None}
      BY <2>2, <3>2, FieldsOfRow
    <3>4. x \in LivedState
      BY <3>1, <3>3 DEF LivedState
    <3>5. history[w] # <<>> /\ history[w][Len(history[w])].to = row[w].status
      BY <2>2 DEF Inv, StatusIsLastRow
    <3>6. /\ TimeAdds(row[w].type, history[w], lived[w], clock)
          /\ history[w][Len(history[w])].hold = IF row[w].status = "ON_HOLD" THEN row[w].hold ELSE None
      BY <3>5 DEF Lives, LifeOf
    <3>7. x.status = history[w][Len(history[w])].to /\ x.hold = history[w][Len(history[w])].hold
      BY <3>1, <3>5, <3>6
    <3>8. history[w] \in Seq(HistoryRow) /\ lived[w] \in Seq(LivedState)
      BY DEF TypeOK, LivedState
    <3>9. TimeAdds(row[w].type, history[w], Append(lived[w], x), clock + 1)
      BY <1>1, <3>4, <3>6, <3>7, <3>8, TickAddsTime
    <3>10. QED
      BY <1>1, <2>2, <3>1, <3>6, <3>9 DEF LifeOf
  <2>3. QED
    BY <2>1, <2>2
<1>4. QED
  BY <1>2, <1>3 DEF Lives

LEMMA StartKeepsLives ==
  ASSUME Inv, TypeOK, Turns, Quiet, Lives, Start
  PROVE  Lives' /\ ClosedWithTimeDown /\ DowntimeKept
<1>1. ASSUME NEW r \in Requests, Load(r) PROVE Lives' /\ ClosedWithTimeDown /\ DowntimeKept
  <2>1. UNCHANGED <<row, history, clock, lived>>
    BY <1>1, LoadFits
  <2>2. \A v \in WorkOrders : LifeOf(v)'
    BY <2>1, LifeUnchanged DEF Lives
  <2>3. \A s \in Requests : req'[s].pc = "transition" => req'[s].at = clock
    <3>1. ASSUME NEW w \in WorkOrders, NEW a \in Actors, NEW kind \in Kinds, NEW h \in HoldReasons,
                 NEW d \in Details \cup {None}, LoadTransition(r, w, kind, a, h, d),
                 NEW s \in Requests, req'[s].pc = "transition"
          PROVE  req'[s].at = clock
      <4>1. PICK q : q = [pc |-> "transition", wo |-> w, by |-> a, path |-> Path(kind, row[w].status),
                          hold |-> h, at |-> clock, detail |-> d, seen |-> row[w]]
        OBVIOUS
      <4>2. q.at = clock
        BY <4>1
      <4>3. req' = [req EXCEPT ![r] = q]
        BY <3>1, <4>1 DEF LoadTransition
      <4>4. req[s].pc = "idle"
        BY DEF Quiet, Idle
      <4>5. QED
        BY <3>1, <4>2, <4>3, <4>4 DEF TypeOK
    <3>2. ASSUME NEW w \in WorkOrders, NEW a \in Actors, NEW kind \in {"detail", "assignees"},
                 NEW d \in Details \cup {None}, LoadEdit(r, w, kind, a, d), NEW s \in Requests
          PROVE  req'[s].pc # "transition"
      <4>1. PICK q : q = [Idle EXCEPT !.pc = "edit", !.wo = w, !.by = a, !.detail = d, !.seen = row[w]]
        OBVIOUS
      <4>2. q.pc = "edit"
        BY <4>1 DEF Idle
      <4>3. req' = [req EXCEPT ![r] = q]
        BY <3>2, <4>1 DEF LoadEdit
      <4>4. req[s].pc = "idle"
        BY DEF Quiet, Idle
      <4>5. QED
        BY <4>2, <4>3, <4>4 DEF TypeOK
    <3>3. QED
      BY <1>1, <3>1, <3>2 DEF Load
  <2>4. QED
    BY <2>1, <2>2, <2>3 DEF Lives, ClosedWithTimeDown, DowntimeKept
<1>2. ASSUME NEW w \in WorkOrders, NEW type \in {"REACTIVE", "PM"}, NEW a \in Actors,
             OpenWorkOrder(w, type, a)
      PROVE  Lives' /\ ClosedWithTimeDown /\ DowntimeKept
  <2>1. PICK first : first = [from |-> None, to |-> "OPEN", hold |-> None, at |-> clock]
    OBVIOUS
  <2>2. first \in HistoryRow /\ first.at = clock /\ first.hold = None
    BY <2>1 DEF HistoryRow, TypeOK, Status
  <2>3. /\ row'[w].status = "OPEN" /\ row'[w].type = type /\ row[w].status = "absent"
        /\ \A v \in WorkOrders : v # w => row'[v] = row[v]
        /\ \A v \in WorkOrders : history'[v] = IF v = w THEN <<first>> ELSE history[v]
        /\ UNCHANGED <<lived, clock, req>>
    BY <1>2, <2>1 DEF OpenWorkOrder, Absent, TypeOK
  <2>4. lived[w] = <<>>
    BY <2>3 DEF Lives, LifeOf
  <2>5. TimeAdds(type, <<first>>, lived[w], clock)
    BY <2>2, <2>4, OpeningAddsTime
  <2>6. <<first>>[Len(<<first>>)] = first
    OBVIOUS
  <2>7. LifeOf(w)'
    BY <2>2, <2>3, <2>5, <2>6 DEF LifeOf
  <2>8. ASSUME NEW v \in WorkOrders, v # w PROVE LifeOf(v)'
    BY <2>3, <2>8 DEF Lives, LifeOf
  <2>9. Lives'
    BY <2>3, <2>7, <2>8 DEF Lives
  <2>10. QED
    BY <2>3, <2>9 DEF ClosedWithTimeDown, DowntimeKept
<1>3. ASSUME NEW r \in Requests, NEW w \in WorkOrders, NEW to \in Status,
             ConfirmedTransition(r, w, to)
      PROVE  Lives' /\ ClosedWithTimeDown /\ DowntimeKept
  <2>1. PICK path : path = <<to>>
    OBVIOUS
  <2>2. path \in Seq(Status) /\ path # <<>>
    BY <2>1
  <2>3. /\ row[w].status \in Status /\ history[w] # <<>>
        /\ LegalPath(row[w].status, path)
        /\ Apply(w, row[w], path, None, clock, None)
        /\ UNCHANGED <<clock, lived, req>>
    BY <1>3, <2>1 DEF ConfirmedTransition, Inv, Shape, StatusIsLastRow
  <2>4. (\A v \in WorkOrders : LifeOf(v))' /\ ClosedWithTimeDown /\ DowntimeKept
    BY <2>2, <2>3, ApplyKeepsLives DEF Lives
  <2>5. QED
    BY <2>3, <2>4 DEF Lives
<1>4. CASE Tick
  <2>1. UNCHANGED row
    BY <1>4 DEF Tick
  <2>2. QED
    BY <1>4, <2>1, TickKeepsLives DEF ClosedWithTimeDown, DowntimeKept
<1>5. ASSUME NEW h \in HoldReasons, UpdateHoldReason(h)
      PROVE  Lives' /\ ClosedWithTimeDown /\ DowntimeKept
  <2>1. UNCHANGED <<row, history, clock, lived, req>>
    BY <1>5 DEF UpdateHoldReason
  <2>2. QED
    BY <2>1, LifeUnchanged DEF Lives, ClosedWithTimeDown, DowntimeKept
<1>6. QED
  BY <1>1, <1>2, <1>3, <1>4, <1>5 DEF Start

LifeInv == turns => Lives

LEMMA StepKeepsLives ==
  ASSUME Inv, TypeOK, TurnInv, LifeInv, [Next]_vars
  PROVE  LifeInv' /\ (turns => ClosedWithTimeDown /\ DowntimeKept)
<1>1. UNCHANGED turns
  BY DEF Next, vars
<1>2. SUFFICES ASSUME turns PROVE Lives' /\ ClosedWithTimeDown /\ DowntimeKept
  BY <1>1 DEF LifeInv
<1>3. Turns /\ Lives
  BY <1>2 DEF TurnInv, LifeInv
<1>4. CASE UNCHANGED vars
  <2>1. UNCHANGED <<row, history, clock, lived, req>>
    BY <1>4 DEF vars
  <2>2. QED
    BY <1>3, <2>1, LifeUnchanged DEF Lives, ClosedWithTimeDown, DowntimeKept
<1>5. ASSUME NEW r \in Requests, Commit(r) PROVE Lives' /\ ClosedWithTimeDown /\ DowntimeKept
  BY <1>3, <1>5, CommitKeepsLives
<1>6. CASE Quiet /\ Start
  BY <1>3, <1>6, StartKeepsLives
<1>7. QED
  BY <1>2, <1>4, <1>5, <1>6 DEF Next

\* The downtime written at the close is the time that was lived in states that stop the
\* machine, for any number of requests that take turns, and stays what it was.
THEOREM DowntimeHolds == Spec => DowntimeIsTrue
<1>1. Init => LifeInv
  BY DEF Init, LifeInv, Lives, LifeOf, Idle, Absent
<1>2. Inv /\ TypeOK /\ TurnInv /\ LifeInv /\ [Next]_vars => LifeInv'
  BY StepKeepsLives
<1>3. Inv /\ TypeOK /\ TurnInv /\ LifeInv /\ [Next]_vars => (turns => ClosedWithTimeDown /\ DowntimeKept)
  BY StepKeepsLives
<1>4. QED
  BY <1>1, <1>2, <1>3, SpecKeepsTypes, SpecKeepsTurns, PTL DEF Spec, DowntimeIsTrue

=============================================================================
