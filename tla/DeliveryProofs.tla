--------------------------- MODULE DeliveryProofs ---------------------------
(***************************************************************************)
(* Theorems about the two queues, for any work orders, recipients,         *)
(* profiles, flushes, owners, keys and forwards under way.  Notifications: *)
(* a notice is queued once, a second copy of it has a cause that is on     *)
(* record.  JiraSync: a note is queued once for an issue, a repeat in Jira *)
(* has a cause that is on record, deleted notes stay home, a forward is    *)
(* whole.  Both implement Delivery.                                        *)
(***************************************************************************)
EXTENDS Notifications, JiraSync, SequenceLemmas

-----------------------------------------------------------------------------
(***************************************************************************)
(* The inductive invariant.                                                *)
(***************************************************************************)
\* A row that was never tried, and so every row that waits, has attempts left.
FreshRows == \A n \in DOMAIN outbox : outbox[n].status = "pending" => outbox[n].attempts = 0

\* A message that was never queued never left.
UnqueuedStay == \A n \in Rows : n \notin DOMAIN outbox => copies[n] = 0

NoticeHandOf(q) == {q.todo[i].row : i \in DOMAIN q.todo}

\* What a flush holds: rows of the table, each of them once, as they waited when it read them;
\* and it takes a message for sent only when a copy of it has left.
NoticeTidy(q) ==
  /\ q.pc = "idle" <=> q.todo = <<>>
  /\ \A i \in DOMAIN q.todo :
       /\ q.todo[i].row \in DOMAIN outbox
       /\ q.todo[i].status # "sent"
       /\ q.todo[i].attempts < MaxAttempts
       /\ q.todo[i].status = "failed" => outbox[q.todo[i].row].status # "pending"
  /\ \A i, j \in DOMAIN q.todo : q.todo[i].row = q.todo[j].row => i = j
  /\ q.pc = "send" => ~q.went
  /\ q.pc = "mark" /\ q.went => copies[Head(q.todo).row] > 0

TidyFlushes == \A f \in Flushers : NoticeTidy(flush[f])

\* Rows that two flushes hold are on record as disturbed.
NoticeOverlapsKnown ==
  \A f, g \in Flushers : f # g => NoticeHandOf(flush[f]) \cap NoticeHandOf(flush[g]) \subseteq disturbed

NoticeRecording(q, n) == q.pc = "mark" /\ q.went /\ Head(q.todo).row = n

\* An undisturbed row of which a copy has left is either recorded as sent, and in no hand,
\* or about to be recorded by the flush that sent it.
CopiesKnown ==
  \A n \in DOMAIN outbox :
    n \notin disturbed /\ copies[n] > 0 =>
      /\ copies[n] = 1
      /\ \/ outbox[n].status = "sent" /\ \A f \in Flushers : n \notin NoticeHandOf(flush[f])
         \/ \E f \in Flushers : NoticeRecording(flush[f], n)

OutboxInv ==
  /\ NotifyTypeOK /\ OneNoticeEach /\ FreshRows /\ UnqueuedStay
  /\ TidyFlushes /\ NoticeOverlapsKnown /\ CopiesKnown

-----------------------------------------------------------------------------
(***************************************************************************)
(* Facts about the operators.                                              *)
(***************************************************************************)
LEMMA RowsCounted ==
  /\ Cardinality(Jobs) \in Nat /\ Cardinality(Recipients) \in Nat
  /\ 4 * Cardinality(Jobs) * Cardinality(Recipients) \in Nat
  /\ Cardinality(Rows) = 4 * Cardinality(Jobs) * Cardinality(Recipients)
<1>1. Cardinality(Jobs) \in Nat /\ Cardinality(Recipients) \in Nat
  BY NotifyAssumption, FS_CardinalityType
<1>2. 4 * Cardinality(Jobs) * Cardinality(Recipients) \in Nat
  BY <1>1
<1>3. QED
  BY <1>1, <1>2, FS_Interval DEF Rows

LEMMA PairCounted ==
  ASSUME NEW a, NEW b, a # b
  PROVE  IsFiniteSet({a, b}) /\ Cardinality({a, b}) = 2
<1>1. IsFiniteSet({a}) /\ Cardinality({a}) = 1
  BY FS_Singleton
<1>2. {a, b} = {a} \cup {b} /\ b \notin {a}
  OBVIOUS
<1>3. QED
  BY <1>1, <1>2, FS_AddElement

\* The unique key bounds the table: there are no more rows than jobs, events, channels and
\* recipients make.
LEMMA KeysBoundTheTable ==
  ASSUME NEW s \in Seq(Notice),
         \A m, n \in DOMAIN s : Key(s[m]) = Key(s[n]) => m = n
  PROVE  Len(s) <= Cardinality(Rows) /\ DOMAIN s \subseteq Rows
<1> DEFINE Events == {"opened", "closed"}
           JE == Jobs \X Events
           JEC == JE \X Channels
           All == JEC \X Recipients
           KeyOf(r) == << <<r.job, r.event>>, r.channel, r.to>>
           key == [n \in 1..Len(s) |-> << << <<s[n].job, s[n].event>>, s[n].channel>>, s[n].to>>]
<1>1. IsFiniteSet(Events) /\ Cardinality(Events) = 2
  BY PairCounted
<1>2. IsFiniteSet(Channels) /\ Cardinality(Channels) = 2
  BY PairCounted DEF Channels
<1>3. IsFiniteSet(JE) /\ Cardinality(JE) = Cardinality(Jobs) * 2
  BY <1>1, NotifyAssumption, FS_Product
<1>4. IsFiniteSet(JEC) /\ Cardinality(JEC) = Cardinality(JE) * 2
  BY <1>2, <1>3, FS_Product
<1>5. IsFiniteSet(All) /\ Cardinality(All) = Cardinality(JEC) * Cardinality(Recipients)
  BY <1>4, NotifyAssumption, FS_Product
<1>6. Cardinality(All) = Cardinality(Rows)
  <2>1. Cardinality(JEC) = 4 * Cardinality(Jobs)
    BY <1>3, <1>4, RowsCounted
  <2>2. QED
    BY <2>1, <1>5, RowsCounted
<1>7. Len(s) \in Nat /\ DOMAIN s = 1..Len(s)
  OBVIOUS
<1>8. key \in [1..Len(s) -> All]
  <2>1. ASSUME NEW n \in 1..Len(s)
        PROVE  s[n].job \in Jobs /\ s[n].event \in Events /\ s[n].channel \in Channels /\ s[n].to \in Recipients
    <3>1. s[n] \in Notice
      BY <1>7
    <3>2. QED
      BY <3>1 DEF Notice
  <2>2. QED
    BY <2>1
<1>9. \A m, n \in 1..Len(s) : key[m] = key[n] => m = n
  <2>1. ASSUME NEW m \in 1..Len(s), NEW n \in 1..Len(s), key[m] = key[n]
        PROVE  Key(s[m]) = Key(s[n])
    BY <2>1 DEF Key
  <2>2. QED
    BY <2>1, <1>7
<1>10. key \in Injection(1..Len(s), All)
  BY <1>8, <1>9 DEF Injection, IsInjective
<1>11. Cardinality(1..Len(s)) <= Cardinality(All)
  BY <1>5, <1>10, FS_Injection
<1>12. Cardinality(1..Len(s)) = Len(s)
  BY <1>7, FS_Interval
<1>13. Len(s) <= Cardinality(Rows)
  BY <1>6, <1>11, <1>12
<1>14. QED
  BY <1>7, <1>13, RowsCounted DEF Rows

\* A batch holds rows that wait, each of them once.
LEMMA NoticeBatchWaits ==
  ASSUME outbox \in Seq(Notice)
  PROVE  /\ Batch \in Seq(DOMAIN outbox)
         /\ \A i \in DOMAIN Batch : Batch[i] \in DOMAIN outbox /\ Waiting(Batch[i])
         /\ \A i, j \in DOMAIN Batch : Batch[i] = Batch[j] => i = j
<1> DEFINE waiting == {n \in DOMAIN outbox : Waiting(n)}
           Place(n) == Cardinality({m \in waiting : m <= n})
           below == [n \in waiting |-> {m \in waiting : m <= n}]
           size == Min({Limit, Cardinality(waiting)})
<1>1. Len(outbox) \in Nat /\ DOMAIN outbox = 1..Len(outbox)
  OBVIOUS
<1>2. IsFiniteSet(waiting) /\ waiting \subseteq Nat
  <2>1. IsFiniteSet(1..Len(outbox))
    BY <1>1, FS_Interval
  <2>2. waiting \in SUBSET (1..Len(outbox))
    BY <1>1
  <2>3. QED
    BY <2>1, <2>2, FS_Subset
<1>3. /\ Cardinality(waiting) \in Nat
      /\ \A i \in 1..Cardinality(waiting) : \E n \in waiting : Cardinality(below[n]) = i
  <2>1. below \in [waiting -> SUBSET waiting]
    OBVIOUS
  <2>2. \A x \in waiting : x \in below[x]
    BY <1>2
  <2>3. \A x, y \in waiting : y \in below[x] => below[y] \subseteq below[x]
    BY <1>2
  <2>4. \A x, y \in waiting : x # y => (x \in below[y] <=> y \notin below[x])
    BY <1>2
  <2> HIDE DEF waiting, below
  <2>5. QED
    BY <1>2, <2>1, <2>2, <2>3, <2>4, PlacesAreOneToOne
<1>4. size \in Nat /\ size <= Cardinality(waiting)
  BY <1>3, NotifyAssumption, MinOfTwo
<1>5. Batch = [i \in 1..size |-> CHOOSE n \in waiting : Place(n) = i]
  BY DEF Batch
<1>6. ASSUME NEW i \in 1..size
      PROVE  Batch[i] \in waiting /\ Place(Batch[i]) = i
  <2>1. i \in 1..Cardinality(waiting)
    BY <1>3, <1>4
  <2>2. \E n \in waiting : Place(n) = i
    BY <2>1, <1>3
  <2>3. Batch[i] = CHOOSE n \in waiting : Place(n) = i
    BY <1>5
  <2> HIDE DEF waiting, Place
  <2>4. QED
    BY <2>2, <2>3
<1> HIDE DEF Place
<1>7. DOMAIN Batch = 1..size
  BY <1>5
<1>8. Batch \in Seq(DOMAIN outbox)
  <2>1. \A i \in 1..size : Batch[i] \in DOMAIN outbox
    BY <1>6
  <2> DEFINE at(i) == CHOOSE n \in waiting : Place(n) = i
  <2> HIDE DEF waiting, size, at
  <2>2. Batch = [i \in 1..size |-> Batch[i]]
    <3>1. Batch = [i \in 1..size |-> at(i)]
      BY <1>5 DEF at
    <3>2. QED
      BY <3>1
  <2>3. QED
    BY <2>1, <2>2, <1>4
<1>9. \A i, j \in DOMAIN Batch : Batch[i] = Batch[j] => i = j
  BY <1>6, <1>7
<1>10. QED
  BY <1>6, <1>7, <1>8, <1>9

-----------------------------------------------------------------------------
(***************************************************************************)
(* The steps of a flush.                                                   *)
(***************************************************************************)
LEMMA RestingIsTidy == Resting \in Flush /\ NoticeTidy(Resting) /\ NoticeHandOf(Resting) = {}
  BY DEF Resting, Flush, NoticeTidy, NoticeHandOf

\* The row a flush is at is one of those it holds, and a row of the table.
LEMMA CurrentIsHeld ==
  ASSUME OutboxInv, NEW f \in Flushers, flush[f].pc # "idle"
  PROVE  /\ flush[f] \in Flush /\ flush[f].todo \in Seq(Read) /\ flush[f].todo # <<>>
         /\ 1 \in DOMAIN flush[f].todo /\ Head(flush[f].todo) = flush[f].todo[1]
         /\ Current(f) \in NoticeHandOf(flush[f])
         /\ Current(f) \in DOMAIN outbox /\ Current(f) \in Rows
<1>1. flush[f] \in Flush /\ NoticeTidy(flush[f])
  BY DEF OutboxInv, NotifyTypeOK, TidyFlushes
<1>2. flush[f].todo \in Seq(Read) /\ flush[f].todo # <<>>
  BY <1>1 DEF Flush, NoticeTidy
<1>3. 1 \in DOMAIN flush[f].todo /\ Head(flush[f].todo) = flush[f].todo[1]
  BY <1>2
<1>4. flush[f].todo[1].row \in DOMAIN outbox
  BY <1>1, <1>3 DEF NoticeTidy
<1>5. Current(f) \in NoticeHandOf(flush[f])
  BY <1>3 DEF Current, NoticeHandOf
<1>6. flush[f].todo[1].row \in Rows
  <2>1. flush[f].todo[1] \in Read
    BY <1>2, <1>3
  <2>2. QED
    BY <2>1 DEF Read
<1>7. QED
  BY <1>1, <1>2, <1>3, <1>4, <1>5, <1>6 DEF Current

\* Going on, a flush lets go of the row it was at and of no other.
LEMMA OnwardIsTidy ==
  ASSUME OutboxInv, NEW f \in Flushers, flush[f].pc # "idle"
  PROVE  /\ Onward(f) \in Flush /\ NoticeTidy(Onward(f))
         /\ NoticeHandOf(Onward(f)) = NoticeHandOf(flush[f]) \ {Current(f)}
         /\ Onward(f).pc # "mark"
<1> DEFINE todo == flush[f].todo
<1>1. /\ flush[f] \in Flush /\ NoticeTidy(flush[f])
      /\ todo \in Seq(Read) /\ todo # <<>> /\ 1 \in DOMAIN todo /\ Head(todo) = todo[1]
  BY CurrentIsHeld DEF OutboxInv, TidyFlushes
<1>2. \A i, j \in DOMAIN todo : todo[i].row = todo[j].row => i = j
  BY <1>1 DEF NoticeTidy
<1>3. CASE Len(todo) = 1
  <2>1. Onward(f) = Resting
    BY <1>3 DEF Onward
  <2>2. NoticeHandOf(flush[f]) = {Current(f)}
    BY <1>1, <1>3 DEF NoticeHandOf, Current
  <2>3. QED
    BY <2>1, <2>2, RestingIsTidy DEF Resting
<1>4. CASE Len(todo) # 1
  <2> DEFINE q == [flush[f] EXCEPT !.pc = "send", !.todo = Tail(@), !.went = FALSE]
  <2>1. Onward(f) = q
    BY <1>4 DEF Onward
  <2>2. /\ Tail(todo) \in Seq(Read) /\ Tail(todo) # <<>>
        /\ DOMAIN Tail(todo) = 1..(Len(todo) - 1)
        /\ \A i \in DOMAIN Tail(todo) : i + 1 \in DOMAIN todo /\ Tail(todo)[i] = todo[i + 1]
    BY <1>1, <1>4, TailShifts
  <2>3. q \in Flush /\ q.pc = "send" /\ q.todo = Tail(todo) /\ ~q.went
    BY <1>1, <2>2 DEF Flush
  <2>4. NoticeTidy(q)
    <3>1. \A i \in DOMAIN Tail(todo) :
            /\ Tail(todo)[i].row \in DOMAIN outbox
            /\ Tail(todo)[i].status # "sent"
            /\ Tail(todo)[i].attempts < MaxAttempts
            /\ Tail(todo)[i].status = "failed" => outbox[Tail(todo)[i].row].status # "pending"
      BY <1>1, <2>2 DEF NoticeTidy
    <3>2. \A i, j \in DOMAIN Tail(todo) : Tail(todo)[i].row = Tail(todo)[j].row => i = j
      BY <1>2, <2>2
    <3>3. QED
      BY <2>2, <2>3, <3>1, <3>2 DEF NoticeTidy
  <2>5. NoticeHandOf(q) = NoticeHandOf(flush[f]) \ {Current(f)}
    <3>1. ASSUME NEW n \in NoticeHandOf(q)
          PROVE  n \in NoticeHandOf(flush[f]) \ {Current(f)}
      <4>1. PICK i \in DOMAIN Tail(todo) : n = Tail(todo)[i].row
        BY <2>3 DEF NoticeHandOf
      <4>2. i + 1 \in DOMAIN todo /\ n = todo[i + 1].row /\ i + 1 # 1
        BY <2>2, <4>1
      <4>3. QED
        BY <1>1, <1>2, <4>2 DEF NoticeHandOf, Current
    <3>2. ASSUME NEW n \in NoticeHandOf(flush[f]), n # Current(f)
          PROVE  n \in NoticeHandOf(q)
      <4>1. PICK i \in DOMAIN todo : n = todo[i].row
        BY DEF NoticeHandOf
      <4>2. i # 1
        BY <1>1, <3>2, <4>1 DEF Current
      <4>3. i - 1 \in DOMAIN Tail(todo) /\ Tail(todo)[i - 1] = todo[i]
        BY <1>1, <2>2, <4>2
      <4>4. QED
        BY <2>3, <4>1, <4>3 DEF NoticeHandOf
    <3>3. QED
      BY <3>1, <3>2
  <2>6. QED
    BY <2>1, <2>3, <2>4, <2>5
<1>5. QED
  BY <1>3, <1>4

\* What a flush holds stays tidy while the table keeps its rows and copies only add up.
LEMMA NoticeTidyKept ==
  ASSUME NEW q, NoticeTidy(q), DOMAIN outbox \subseteq DOMAIN outbox',
         \A n \in DOMAIN outbox : outbox[n].status # "pending" => outbox'[n].status # "pending",
         q.pc = "mark" /\ q.went => copies'[Head(q.todo).row] > 0
  PROVE  NoticeTidy(q)'
  BY DEF NoticeTidy

\* A step of a flush that records nothing: it lets go of rows, or goes on to record that a
\* send failed; what it sent and will not record is disturbed.
LEMMA NoticeQuietStep ==
  ASSUME OutboxInv, NEW f \in Flushers, NEW q \in Flush, NoticeTidy(q),
         NoticeHandOf(q) \subseteq NoticeHandOf(flush[f]), ~(q.pc = "mark" /\ q.went),
         flush' = [flush EXCEPT ![f] = q],
         outbox' = outbox, copies' \in [Rows -> Nat],
         disturbed \subseteq disturbed', disturbed' \subseteq Rows, faults' \in 0..MaxFaults,
         \A n \in Rows : \/ copies'[n] = copies[n]
                         \/ copies'[n] > copies[n] /\ n \in DOMAIN outbox /\ n \in disturbed',
         \A n \in DOMAIN outbox : NoticeRecording(flush[f], n) => n \in disturbed',
         UNCHANGED <<recipient, job, closing, begun, wired>>
  PROVE  OutboxInv'
<1> USE DEF OutboxInv
<1>1. flush \in [Flushers -> Flush] /\ DOMAIN outbox \subseteq Rows
  BY KeysBoundTheTable DEF NotifyTypeOK, OneNoticeEach
<1>2. flush'[f] = q /\ \A g \in Flushers : g # f => flush'[g] = flush[g]
  BY <1>1
<1>3. NotifyTypeOK'
  BY <1>1 DEF NotifyTypeOK
<1>4. OneNoticeEach'
  BY DEF OneNoticeEach, Key
<1>5. FreshRows' /\ UnqueuedStay'
  BY DEF FreshRows, UnqueuedStay
<1>6. TidyFlushes'
  <2>1. ASSUME NEW g \in Flushers, g # f
        PROVE  NoticeTidy(flush[g])'
    <3>1. NoticeTidy(flush[g])
      BY DEF TidyFlushes
    <3>2. flush[g].pc = "mark" /\ flush[g].went => copies'[Head(flush[g].todo).row] > 0
      <4>1. SUFFICES ASSUME flush[g].pc = "mark", flush[g].went
                     PROVE  copies'[Head(flush[g].todo).row] > 0
        OBVIOUS
      <4>2. Current(g) \in Rows
        BY <4>1, CurrentIsHeld
      <4>3. copies[Current(g)] > 0
        BY <3>1, <4>1 DEF NoticeTidy, Current
      <4>4. copies[Current(g)] \in Nat /\ copies'[Current(g)] \in Nat
        BY <4>2 DEF NotifyTypeOK
      <4>5. copies'[Current(g)] > 0
        BY <4>2, <4>3, <4>4
      <4>6. QED
        BY <4>5 DEF Current
    <3>3. QED
      BY <1>2, <2>1, <3>1, <3>2 DEF NoticeTidy
  <2>2. NoticeTidy(flush[f])'
    BY <1>2 DEF NoticeTidy
  <2>3. QED
    BY <2>1, <2>2 DEF TidyFlushes
<1>7. NoticeOverlapsKnown'
  BY <1>2 DEF NoticeOverlapsKnown
<1>8. CopiesKnown'
  <2>1. SUFFICES ASSUME NEW n \in DOMAIN outbox, n \notin disturbed', copies'[n] > 0
                 PROVE  /\ copies'[n] = 1
                        /\ \/ outbox[n].status = "sent" /\ \A g \in Flushers : n \notin NoticeHandOf(flush'[g])
                           \/ \E g \in Flushers : NoticeRecording(flush'[g], n)
    BY DEF CopiesKnown, NoticeRecording, NoticeHandOf
  <2>2. copies'[n] = copies[n] /\ n \notin disturbed /\ ~NoticeRecording(flush[f], n)
    BY <1>1, <2>1
  <2>3. CASE outbox[n].status = "sent" /\ \A g \in Flushers : n \notin NoticeHandOf(flush[g])
    BY <1>2, <2>1, <2>2, <2>3 DEF CopiesKnown
  <2>4. CASE \E g \in Flushers : NoticeRecording(flush[g], n)
    BY <1>2, <2>1, <2>2, <2>4 DEF CopiesKnown
  <2>5. QED
    BY <2>1, <2>2, <2>3, <2>4 DEF CopiesKnown
<1>9. QED
  BY <1>3, <1>4, <1>5, <1>6, <1>7, <1>8

LEMMA SkipKeeps ==
  ASSUME OutboxInv, NEW f \in Flushers, Skip(f)
  PROVE  OutboxInv'
<1> DEFINE q == Onward(f)
<1>1. q \in Flush /\ NoticeTidy(q) /\ NoticeHandOf(q) \subseteq NoticeHandOf(flush[f]) /\ q.pc # "mark"
  BY OnwardIsTidy DEF Skip
<1>2. ~\E n \in DOMAIN outbox : NoticeRecording(flush[f], n)
  BY DEF Skip, NoticeRecording
<1>3. copies \in [Rows -> Nat] /\ disturbed \subseteq Rows /\ faults \in 0..MaxFaults
  BY DEF OutboxInv, NotifyTypeOK
<1>4. QED
  BY <1>1, <1>2, <1>3, NoticeQuietStep DEF Skip

\* A flush that goes on to record that its send failed.
LEMMA NoticeFailingIsTidy ==
  ASSUME OutboxInv, NEW f \in Flushers, flush[f].pc = "send"
  PROVE  LET q == [flush[f] EXCEPT !.pc = "mark", !.went = FALSE]
         IN  q \in Flush /\ NoticeTidy(q) /\ NoticeHandOf(q) = NoticeHandOf(flush[f]) /\ ~q.went
<1>1. flush[f] \in Flush /\ NoticeTidy(flush[f])
  BY DEF OutboxInv, NotifyTypeOK, TidyFlushes
<1>2. QED
  BY <1>1 DEF Flush, NoticeTidy, NoticeHandOf

LEMMA NoticeFailureKeeps ==
  ASSUME OutboxInv, NEW f \in Flushers, Refused(f) \/ Unaddressed(f) \/ AnswerLost(f)
  PROVE  OutboxInv'
<1> DEFINE q == [flush[f] EXCEPT !.pc = "mark", !.went = FALSE]
<1>1. flush[f].pc = "send" /\ ~\E n \in DOMAIN outbox : NoticeRecording(flush[f], n)
  BY DEF Refused, Unaddressed, AnswerLost, Sending, NoticeRecording
<1>2. q \in Flush /\ NoticeTidy(q) /\ NoticeHandOf(q) = NoticeHandOf(flush[f]) /\ ~q.went
  BY <1>1, NoticeFailingIsTidy
<1>3. flush \in [Flushers -> Flush] /\ copies \in [Rows -> Nat] /\ disturbed \subseteq Rows
      /\ faults \in 0..MaxFaults /\ MaxFaults \in Nat
  BY NotifyAssumption DEF OutboxInv, NotifyTypeOK
<1>4. flush' = [flush EXCEPT ![f] = q]
  BY <1>3 DEF Refused, Unaddressed, AnswerLost
<1>5. faults' \in 0..MaxFaults
  BY <1>3 DEF Refused, Unaddressed, AnswerLost, Fault
<1>6. CASE Refused(f) \/ Unaddressed(f)
  <2>1. UNCHANGED <<recipient, job, closing, outbox, begun, wired, copies, disturbed>>
    BY <1>6 DEF Refused, Unaddressed
  <2>2. QED
    BY <1>1, <1>2, <1>3, <1>4, <1>5, <2>1, NoticeQuietStep
<1>7. CASE AnswerLost(f)
  <2>1. UNCHANGED <<recipient, job, closing, outbox, begun, wired>>
    BY <1>7 DEF AnswerLost
  <2>2. Current(f) \in DOMAIN outbox /\ Current(f) \in Rows
    BY <1>1, CurrentIsHeld
  <2>3. /\ copies' = [copies EXCEPT ![Current(f)] = @ + 1]
        /\ disturbed' = disturbed \cup {Current(f)}
    BY <1>7 DEF AnswerLost, Delivered, Disturbed
  <2>4. copies' \in [Rows -> Nat] /\ disturbed' \subseteq Rows
    BY <1>3, <2>2, <2>3
  <2>5. \A n \in Rows : \/ copies'[n] = copies[n]
                        \/ copies'[n] > copies[n] /\ n \in DOMAIN outbox /\ n \in disturbed'
    BY <1>3, <2>2, <2>3
  <2>6. QED
    BY <1>1, <1>2, <1>4, <1>5, <2>1, <2>3, <2>4, <2>5, NoticeQuietStep
<1>8. QED
  BY <1>6, <1>7

LEMMA NoticeCrashKeeps ==
  ASSUME OutboxInv, NEW f \in Flushers, Crash(f)
  PROVE  OutboxInv'
<1>1. copies \in [Rows -> Nat] /\ disturbed \subseteq Rows /\ faults \in 0..MaxFaults /\ MaxFaults \in Nat
  BY NotifyAssumption DEF OutboxInv, NotifyTypeOK
<1>2. faults' \in 0..MaxFaults /\ flush' = [flush EXCEPT ![f] = Resting]
      /\ UNCHANGED <<recipient, job, closing, outbox, begun, wired, copies>>
  BY <1>1 DEF Crash, Fault
<1>3. Current(f) \in Rows
  BY CurrentIsHeld DEF Crash
<1>4. disturbed \subseteq disturbed' /\ disturbed' \subseteq Rows
  BY <1>1, <1>3 DEF Crash, Disturbed
<1>5. \A n \in DOMAIN outbox : NoticeRecording(flush[f], n) => n \in disturbed'
  BY DEF Crash, Disturbed, NoticeRecording, Current
<1>6. Resting \in Flush /\ NoticeTidy(Resting) /\ NoticeHandOf(Resting) \subseteq NoticeHandOf(flush[f])
      /\ ~(Resting.pc = "mark" /\ Resting.went)
  BY RestingIsTidy DEF Resting
<1>7. QED
  BY <1>1, <1>2, <1>4, <1>5, <1>6, NoticeQuietStep

\* A message that is sent: it had not left before, or its row is disturbed.
LEMMA SentKeeps ==
  ASSUME OutboxInv, NEW f \in Flushers, Sent(f)
  PROVE  OutboxInv'
<1> DEFINE c == Current(f)
           q == [flush[f] EXCEPT !.pc = "mark", !.went = TRUE]
<1> USE DEF OutboxInv
<1>1. flush[f].pc = "send" /\ UNCHANGED <<recipient, job, closing, outbox, begun, wired, disturbed, faults>>
  BY DEF Sent, Sending
<1>2. /\ flush[f] \in Flush /\ flush[f].todo \in Seq(Read) /\ flush[f].todo # <<>>
      /\ c \in NoticeHandOf(flush[f]) /\ c \in DOMAIN outbox /\ c \in Rows
  BY <1>1, CurrentIsHeld
<1>3. flush \in [Flushers -> Flush] /\ copies \in [Rows -> Nat]
  BY DEF NotifyTypeOK
<1>4. /\ flush' = [flush EXCEPT ![f] = q] /\ flush'[f] = q
      /\ \A g \in Flushers : g # f => flush'[g] = flush[g]
  BY <1>3 DEF Sent
<1>5. /\ copies' = [copies EXCEPT ![c] = @ + 1] /\ copies' \in [Rows -> Nat]
      /\ copies'[c] = copies[c] + 1 /\ \A n \in Rows : n # c => copies'[n] = copies[n]
  BY <1>2, <1>3 DEF Sent, Delivered
<1>6. q \in Flush /\ NoticeHandOf(q) = NoticeHandOf(flush[f])
  BY <1>2 DEF Flush, NoticeHandOf
<1>7. NotifyTypeOK'
  BY <1>1, <1>3, <1>4, <1>5, <1>6 DEF NotifyTypeOK
<1>8. OneNoticeEach' /\ FreshRows' /\ UnqueuedStay'
  BY <1>1, <1>2, <1>5 DEF OneNoticeEach, Key, FreshRows, UnqueuedStay
<1>9. TidyFlushes'
  <2>1. ASSUME NEW g \in Flushers, g # f
        PROVE  NoticeTidy(flush[g])'
    <3>1. NoticeTidy(flush[g]) /\ flush'[g] = flush[g]
      BY <1>4, <2>1 DEF TidyFlushes
    <3>2. flush[g].pc = "mark" /\ flush[g].went => copies'[Current(g)] > 0
      <4>1. SUFFICES ASSUME flush[g].pc = "mark", flush[g].went
                     PROVE  copies'[Current(g)] > 0
        OBVIOUS
      <4>2. Current(g) \in Rows
        BY <4>1, CurrentIsHeld
      <4>3. copies[Current(g)] > 0
        BY <3>1, <4>1 DEF NoticeTidy, Current
      <4>4. copies[Current(g)] \in Nat /\ copies[c] \in Nat
        BY <1>2, <1>3, <4>2
      <4>5. QED
        BY <1>5, <4>2, <4>3, <4>4
    <3>3. QED
      BY <1>1, <3>1, <3>2 DEF NoticeTidy, Current
  <2>2. NoticeTidy(flush[f])'
    <3>1. NoticeTidy(flush[f]) /\ copies'[c] > 0
      BY <1>2, <1>3, <1>5 DEF TidyFlushes
    <3>2. q.todo = flush[f].todo /\ q.pc = "mark" /\ flush[f].pc = "send"
      BY <1>1, <1>2 DEF Flush
    <3>3. QED
      BY <1>1, <1>4, <3>1, <3>2 DEF NoticeTidy, Current
  <2>3. QED
    BY <2>1, <2>2 DEF TidyFlushes
<1>10. NoticeOverlapsKnown'
  BY <1>1, <1>4, <1>6 DEF NoticeOverlapsKnown
<1>11. CopiesKnown'
  <2>1. SUFFICES ASSUME NEW n \in DOMAIN outbox, n \notin disturbed, copies'[n] > 0
                 PROVE  /\ copies'[n] = 1
                        /\ \/ outbox[n].status = "sent" /\ \A g \in Flushers : n \notin NoticeHandOf(flush'[g])
                           \/ \E g \in Flushers : NoticeRecording(flush'[g], n)
    BY <1>1 DEF CopiesKnown, NoticeRecording, NoticeHandOf
  <2>2. n \in Rows
    BY KeysBoundTheTable DEF NotifyTypeOK, OneNoticeEach
  <2>3. CASE n = c
    <3>1. ~(copies[c] > 0)
      <4>1. SUFFICES ASSUME copies[c] > 0
                     PROVE  FALSE
        OBVIOUS
      <4>2. PICK g \in Flushers : NoticeRecording(flush[g], c)
        BY <1>2, <2>1, <2>3, <4>1 DEF CopiesKnown
      <4>3. g # f /\ c \in NoticeHandOf(flush[g])
        BY <1>1, <4>2, CurrentIsHeld DEF NoticeRecording, Current
      <4>4. QED
        BY <1>2, <2>1, <2>3, <4>3 DEF NoticeOverlapsKnown
    <3>2. copies'[n] = 1
      BY <1>2, <1>3, <1>5, <2>3, <3>1
    <3>3. NoticeRecording(flush'[f], n)
      <4>1. q.pc = "mark" /\ q.went /\ q.todo = flush[f].todo
        BY <1>2 DEF Flush
      <4>2. NoticeRecording(q, n)
        BY <2>3, <4>1 DEF NoticeRecording, Current
      <4>3. QED
        BY <1>4, <4>2
    <3>4. QED
      BY <3>2, <3>3
  <2>4. CASE n # c
    <3>1. copies'[n] = copies[n]
      BY <1>5, <2>2, <2>4
    <3>2. copies[n] = 1
      BY <2>1, <3>1 DEF CopiesKnown
    <3>3. CASE outbox[n].status = "sent" /\ \A g \in Flushers : n \notin NoticeHandOf(flush[g])
      BY <1>4, <1>6, <3>1, <3>2, <3>3
    <3>4. CASE \E g \in Flushers : NoticeRecording(flush[g], n)
      <4>1. PICK g \in Flushers : NoticeRecording(flush[g], n)
        BY <3>4
      <4>2. g # f
        BY <1>1, <4>1 DEF NoticeRecording
      <4>3. QED
        BY <1>4, <3>1, <3>2, <4>1, <4>2
    <3>5. QED
      BY <2>1, <3>1, <3>3, <3>4 DEF CopiesKnown
  <2>5. QED
    BY <2>3, <2>4
<1>12. QED
  BY <1>7, <1>8, <1>9, <1>10, <1>11

\* _mark: what is recorded of a row is what came of the send.
LEMMA MarkedIsNotice ==
  ASSUME OutboxInv, NEW f \in Flushers, flush[f].pc = "mark"
  PROVE  LET c == Current(f)
             r == Marked(f, c)
         IN  /\ r \in Notice /\ Key(r) = Key(outbox[c])
             /\ r.status # "pending"
             /\ flush[f].went => r.status = "sent"
             /\ ~flush[f].went =>
                  r.status = Written("failed", Head(flush[f].todo).status, outbox[c].status)
<1> DEFINE c == Current(f)
           seen == Head(flush[f].todo)
<1>1. /\ flush[f].todo \in Seq(Read) /\ 1 \in DOMAIN flush[f].todo /\ seen = flush[f].todo[1]
      /\ c \in DOMAIN outbox /\ c = seen.row
  BY CurrentIsHeld DEF Current
<1>2. outbox[c] \in Notice /\ seen \in Read
  BY <1>1 DEF OutboxInv, NotifyTypeOK
<1>3. NoticeTidy(flush[f])
  BY DEF OutboxInv, TidyFlushes
<1>4. /\ seen.status # "sent" /\ seen.attempts < MaxAttempts
      /\ seen.status = "failed" => outbox[c].status # "pending"
  BY <1>1, <1>3 DEF NoticeTidy
<1>5. seen.attempts + 1 \in 0..MaxAttempts
  BY <1>2, <1>4, NotifyAssumption DEF Read
<1>6. Marked(f, c).attempts \in 0..MaxAttempts
  BY <1>2, <1>5 DEF Marked, Notice
<1>7. /\ Marked(f, c).status \in {"sent", "failed"}
      /\ flush[f].went => Marked(f, c).status = "sent"
      /\ ~flush[f].went => Marked(f, c).status = Written("failed", seen.status, outbox[c].status)
  BY <1>2, <1>4 DEF Marked, Notice, Written, Read
<1>8. Marked(f, c) \in Notice /\ Key(Marked(f, c)) = Key(outbox[c])
  BY <1>2, <1>6, <1>7 DEF Marked, Notice, Key
<1>9. QED
  BY <1>7, <1>8

LEMMA MarkKeeps ==
  ASSUME OutboxInv, NEW f \in Flushers, Mark(f)
  PROVE  OutboxInv'
<1> DEFINE c == Current(f)
           q == Onward(f)
           r == Marked(f, c)
<1> USE DEF OutboxInv
<1>1. flush[f].pc = "mark" /\ UNCHANGED <<recipient, job, closing, begun, wired, copies, disturbed, faults>>
  BY DEF Mark
<1>2. c \in NoticeHandOf(flush[f]) /\ c \in DOMAIN outbox /\ c \in Rows
  BY <1>1, CurrentIsHeld
<1>3. q \in Flush /\ NoticeTidy(q) /\ NoticeHandOf(q) = NoticeHandOf(flush[f]) \ {c} /\ q.pc # "mark"
  BY <1>1, OnwardIsTidy
<1>4. /\ r \in Notice /\ Key(r) = Key(outbox[c]) /\ r.status # "pending"
      /\ flush[f].went => r.status = "sent"
  BY <1>1, MarkedIsNotice
<1>5. flush \in [Flushers -> Flush] /\ outbox \in Seq(Notice)
  BY DEF NotifyTypeOK
<1>6. /\ flush' = [flush EXCEPT ![f] = q] /\ flush'[f] = q
      /\ \A g \in Flushers : g # f => flush'[g] = flush[g]
  BY <1>5 DEF Mark
<1>7. /\ outbox' \in Seq(Notice) /\ Len(outbox') = Len(outbox) /\ DOMAIN outbox' = DOMAIN outbox
      /\ outbox'[c] = r /\ \A n \in DOMAIN outbox : n # c => outbox'[n] = outbox[n]
  <2>1. outbox' = [outbox EXCEPT ![c] = r]
    BY DEF Mark
  <2>2. QED
    BY <1>2, <1>4, <1>5, <2>1, ExceptSeq
<1> HIDE DEF c, q, r
<1>8. NotifyTypeOK'
  BY <1>1, <1>3, <1>5, <1>6, <1>7 DEF NotifyTypeOK
<1>9. OneNoticeEach'
  <2>1. \A n \in DOMAIN outbox : Key(outbox'[n]) = Key(outbox[n])
    BY <1>4, <1>7
  <2>2. QED
    BY <1>7, <2>1 DEF OneNoticeEach, Key
<1>10. FreshRows' /\ UnqueuedStay'
  BY <1>1, <1>4, <1>7 DEF FreshRows, UnqueuedStay
<1>11. TidyFlushes'
  <2>1. \A n \in DOMAIN outbox : outbox[n].status # "pending" => outbox'[n].status # "pending"
    BY <1>4, <1>7
  <2>2. ASSUME NEW g \in Flushers
        PROVE  NoticeTidy(flush'[g]) /\ (flush'[g].pc = "mark" /\ flush'[g].went => copies'[Head(flush'[g].todo).row] > 0)
    <3>1. CASE g = f
      BY <1>3, <1>6, <3>1
    <3>2. CASE g # f
      BY <1>1, <1>6, <3>2 DEF TidyFlushes, NoticeTidy
    <3>3. QED
      BY <3>1, <3>2
  <2>3. ASSUME NEW g \in Flushers
        PROVE  NoticeTidy(flush[g])'
    BY <1>7, <2>1, <2>2, NoticeTidyKept
  <2>4. QED
    BY <2>3 DEF TidyFlushes
<1>12. NoticeOverlapsKnown'
  BY <1>1, <1>3, <1>6 DEF NoticeOverlapsKnown
<1>13. CopiesKnown'
  <2>1. SUFFICES ASSUME NEW n \in DOMAIN outbox, n \notin disturbed, copies[n] > 0
                 PROVE  /\ copies[n] = 1
                        /\ \/ outbox'[n].status = "sent" /\ \A g \in Flushers : n \notin NoticeHandOf(flush'[g])
                           \/ \E g \in Flushers : NoticeRecording(flush'[g], n)
    BY <1>1, <1>7 DEF CopiesKnown, NoticeRecording, NoticeHandOf
  <2>2. copies[n] = 1
    BY <2>1 DEF CopiesKnown
  <2>3. CASE n = c
    <3>1. \A g \in Flushers : g # f => n \notin NoticeHandOf(flush[g])
      BY <1>2, <2>1, <2>3 DEF NoticeOverlapsKnown
    <3>2. flush[f].went
      <4>1. PICK g \in Flushers : NoticeRecording(flush[g], n)
        BY <1>2, <2>1, <2>3 DEF CopiesKnown
      <4>2. n \in NoticeHandOf(flush[g])
        BY <4>1, CurrentIsHeld DEF NoticeRecording, Current
      <4>3. QED
        BY <3>1, <4>1, <4>2 DEF NoticeRecording
    <3>3. outbox'[n].status = "sent"
      BY <1>4, <1>7, <2>3, <3>2
    <3>4. \A g \in Flushers : n \notin NoticeHandOf(flush'[g])
      BY <1>3, <1>6, <2>3, <3>1
    <3>5. QED
      BY <2>2, <3>3, <3>4
  <2>4. CASE n # c
    <3>1. CASE outbox[n].status = "sent" /\ \A g \in Flushers : n \notin NoticeHandOf(flush[g])
      BY <1>3, <1>6, <1>7, <2>2, <2>4, <3>1
    <3>2. CASE \E g \in Flushers : NoticeRecording(flush[g], n)
      <4>1. PICK g \in Flushers : NoticeRecording(flush[g], n)
        BY <3>2
      <4>2. g # f
        BY <2>4, <4>1 DEF NoticeRecording, Current, c
      <4>3. QED
        BY <1>6, <2>2, <4>1, <4>2
    <3>3. QED
      BY <2>1, <3>1, <3>2 DEF CopiesKnown
  <2>5. QED
    BY <2>3, <2>4
<1>14. QED
  BY <1>8, <1>9, <1>10, <1>11, <1>12, <1>13

\* A flush that reads its batch: what another one holds already is disturbed from now on.
LEMMA NoticeSelectKeeps ==
  ASSUME OutboxInv, NEW f \in Flushers, Select(f)
  PROVE  OutboxInv'
<1> DEFINE Reading(n) == [row |-> n, status |-> outbox[n].status, attempts |-> outbox[n].attempts]
           todo == [i \in DOMAIN Batch |-> Reading(Batch[i])]
           q == [pc |-> "send", todo |-> todo, can |-> wired, went |-> FALSE]
<1> USE DEF OutboxInv
<1>1. /\ flush[f].pc = "idle" /\ Batch # <<>>
      /\ flush' = [flush EXCEPT ![f] = q]
      /\ disturbed' = disturbed \cup Shared(f)
      /\ UNCHANGED <<recipient, job, closing, outbox, wired, copies, faults>>
  BY DEF Select
<1>2. begun' \in 0..MaxBackground
  BY NotifyAssumption DEF Select, NotifyTypeOK
<1>3. outbox \in Seq(Notice) /\ flush \in [Flushers -> Flush] /\ wired \subseteq Channels
      /\ copies \in [Rows -> Nat] /\ DOMAIN outbox \subseteq Rows
  BY KeysBoundTheTable DEF NotifyTypeOK, OneNoticeEach
<1>4. /\ Batch \in Seq(DOMAIN outbox)
      /\ \A i \in DOMAIN Batch : Batch[i] \in DOMAIN outbox /\ Waiting(Batch[i])
      /\ \A i, j \in DOMAIN Batch : Batch[i] = Batch[j] => i = j
  BY <1>3, NoticeBatchWaits
<1>5. ASSUME NEW i \in DOMAIN Batch
      PROVE  /\ todo[i] \in Read /\ todo[i].row = Batch[i] /\ todo[i].status # "sent"
             /\ todo[i].attempts < MaxAttempts
             /\ todo[i].status = outbox[Batch[i]].status
  <2>1. outbox[Batch[i]] \in Notice /\ Batch[i] \in Rows /\ todo[i] = Reading(Batch[i])
    BY <1>3, <1>4
  <2>2. Reading(Batch[i]) \in Read
    BY <2>1 DEF Read, Notice
  <2>3. Waiting(Batch[i]) /\ Batch[i] \in DOMAIN outbox
    BY <1>4
  <2>4. outbox[Batch[i]].status # "sent" /\ outbox[Batch[i]].attempts < MaxAttempts
    BY <2>3, NotifyAssumption DEF Waiting, FreshRows
  <2>5. QED
    BY <2>1, <2>2, <2>4
<1>6. DOMAIN todo = DOMAIN Batch /\ DOMAIN Batch = 1..Len(Batch) /\ Len(Batch) \in Nat
  BY <1>4
<1>7. todo \in Seq(Read) /\ todo # <<>>
  <2>1. todo \in [1..Len(Batch) -> Read]
    <3>1. todo = [i \in 1..Len(Batch) |-> todo[i]]
      BY <1>6
    <3>2. QED
      BY <1>5, <1>6, <3>1
  <2>2. todo \in Seq(Read)
    BY <1>6, <2>1
  <2>3. DOMAIN Batch # {}
    BY <1>1, <1>4, <1>6, EmptySeq
  <2>4. QED
    BY <1>6, <2>2, <2>3
<1> HIDE DEF todo
<1>8. q \in Flush /\ NoticeHandOf(q) = ToSet(Batch)
  BY <1>3, <1>5, <1>6, <1>7 DEF Flush, NoticeHandOf, ToSet
<1>9. NoticeTidy(q)
  BY <1>4, <1>5, <1>6, <1>7 DEF NoticeTidy
<1> HIDE DEF q
<1>10. flush'[f] = q /\ \A g \in Flushers : g # f => flush'[g] = flush[g]
  BY <1>1, <1>3
<1>11. NoticeHandOf(q) \subseteq DOMAIN outbox
  BY <1>4, <1>8 DEF ToSet
<1>12. NotifyTypeOK'
  <2>1. disturbed' \subseteq Rows
    <3>1. Shared(f) \subseteq ToSet(Batch)
      BY DEF Shared
    <3>2. QED
      BY <1>1, <1>3, <1>8, <1>11, <3>1 DEF NotifyTypeOK
  <2>2. flush' \in [Flushers -> Flush]
    BY <1>1, <1>3, <1>8
  <2>3. QED
    BY <1>1, <1>2, <2>1, <2>2 DEF NotifyTypeOK
<1>13. OneNoticeEach' /\ FreshRows' /\ UnqueuedStay'
  BY <1>1 DEF OneNoticeEach, Key, FreshRows, UnqueuedStay
<1>14. TidyFlushes'
  <2>1. ASSUME NEW g \in Flushers
        PROVE  NoticeTidy(flush'[g])
    BY <1>9, <1>10 DEF TidyFlushes
  <2>2. ASSUME NEW g \in Flushers
        PROVE  NoticeTidy(flush[g])'
    BY <1>1, <2>1 DEF NoticeTidy
  <2>3. QED
    BY <2>2 DEF TidyFlushes
<1>15. \A g \in Flushers : g # f => NoticeHandOf(q) \cap NoticeHandOf(flush[g]) \subseteq Shared(f)
  BY <1>8 DEF Shared, InHand, NoticeHandOf
<1>16. NoticeOverlapsKnown'
  BY <1>1, <1>10, <1>15 DEF NoticeOverlapsKnown
<1>17. CopiesKnown'
  <2>1. SUFFICES ASSUME NEW n \in DOMAIN outbox, n \notin disturbed', copies[n] > 0
                 PROVE  /\ copies[n] = 1
                        /\ \/ outbox[n].status = "sent" /\ \A g \in Flushers : n \notin NoticeHandOf(flush'[g])
                           \/ \E g \in Flushers : NoticeRecording(flush'[g], n)
    BY <1>1 DEF CopiesKnown, NoticeRecording, NoticeHandOf
  <2>2. n \notin disturbed /\ copies[n] = 1
    BY <1>1, <2>1 DEF CopiesKnown
  <2>3. CASE outbox[n].status = "sent" /\ \A g \in Flushers : n \notin NoticeHandOf(flush[g])
    <3>1. n \notin NoticeHandOf(q)
      BY <1>4, <1>8, <2>3 DEF ToSet, Waiting
    <3>2. QED
      BY <1>10, <2>2, <2>3, <3>1
  <2>4. CASE \E g \in Flushers : NoticeRecording(flush[g], n)
    <3>1. PICK g \in Flushers : NoticeRecording(flush[g], n)
      BY <2>4
    <3>2. g # f
      BY <1>1, <3>1 DEF NoticeRecording
    <3>3. QED
      BY <1>10, <2>2, <3>1, <3>2
  <2>5. QED
    BY <2>1, <2>2, <2>3, <2>4 DEF CopiesKnown
<1>18. QED
  BY <1>12, <1>13, <1>14, <1>16, <1>17

-----------------------------------------------------------------------------
(***************************************************************************)
(* The steps of work orders, recipients and settings.                      *)
(***************************************************************************)
\* The rows that an event may add, and how SetToSeq numbers them.
LEMMA NewRowsAreFinite ==
  ASSUME NEW w, NEW event, NEW new,
         \A r \in new : /\ r.channel \in Channels /\ r.to \in Recipients
                        /\ r = [job |-> w, event |-> event, channel |-> r.channel, to |-> r.to,
                                status |-> "pending", attempts |-> 0]
  PROVE  IsFiniteSet(new)
<1> DEFINE Places == Channels \X Recipients
           place == [r \in new |-> <<r.channel, r.to>>]
<1>1. IsFiniteSet(Places)
  <2>1. IsFiniteSet(Channels)
    BY PairCounted DEF Channels
  <2>2. QED
    BY <2>1, NotifyAssumption, FS_Product
<1>2. place \in [new -> Places]
  OBVIOUS
<1>3. \A r, s \in new : place[r] = place[s] => r = s
  BY Zenon
<1>4. place \in Injection(new, Places)
  BY <1>2, <1>3 DEF Injection, IsInjective
<1>5. QED
  BY <1>1, <1>4, FS_Injection

\* Whatever an event adds goes to the end of the table, waits, and has a key of its own.
LEMMA EnqueueGrows ==
  ASSUME OutboxInv, NEW w \in Jobs, NEW event \in {"opened", "closed"}, Enqueue(w, event)
  PROVE  /\ outbox' \in Seq(Notice) /\ OneNoticeEach'
         /\ DOMAIN outbox \subseteq DOMAIN outbox'
         /\ \A n \in DOMAIN outbox : outbox'[n] = outbox[n]
         /\ \A n \in DOMAIN outbox' \ DOMAIN outbox :
              outbox'[n].status = "pending" /\ outbox'[n].attempts = 0
<1> DEFINE due == {k \in [job : {w}, event : {event}, channel : Channels, to : Recipients] :
                     k.to \in Concerned(w, event) /\ k.channel \in recipient[k.to].channels}
           RowOf(k) == [job |-> k.job, event |-> k.event, channel |-> k.channel, to |-> k.to,
                        status |-> "pending", attempts |-> 0]
           new == {RowOf(k) : k \in due \ Keys}
           s == SetToSeq(new)
           len == Len(outbox)
<1>1. outbox \in Seq(Notice) /\ len \in Nat /\ DOMAIN outbox = 1..len
  BY DEF OutboxInv, NotifyTypeOK
<1>2. outbox' = outbox \o s
  BY DEF Enqueue
<1>3. ASSUME NEW r \in new
      PROVE  /\ r \in Notice /\ Key(r) \notin Keys /\ r.status = "pending" /\ r.attempts = 0
             /\ r.channel \in Channels /\ r.to \in Recipients
             /\ r = [job |-> w, event |-> event, channel |-> r.channel, to |-> r.to,
                     status |-> "pending", attempts |-> 0]
  <2>1. PICK k \in due \ Keys : r = RowOf(k)
    OBVIOUS
  <2>2. /\ k \in [job : {w}, event : {event}, channel : Channels, to : Recipients] /\ k \notin Keys
        /\ k.job = w /\ k.event = event /\ k.channel \in Channels /\ k.to \in Recipients
    BY <2>1
  <2>3. Key(r) = k
    BY <2>1, <2>2 DEF Key
  <2>4. r \in Notice
    BY <2>1, <2>2, NotifyAssumption DEF Notice
  <2>5. QED
    BY <2>1, <2>2, <2>3, <2>4
<1> HIDE DEF new
<1>4. \A r1, r2 \in new : Key(r1) = Key(r2) => r1 = r2
  <2>1. ASSUME NEW r1 \in new, NEW r2 \in new, Key(r1) = Key(r2)
        PROVE  r1 = r2
    <3>1. r1.channel = r2.channel /\ r1.to = r2.to
      BY <2>1 DEF Key
    <3>2. QED
      BY <1>3, <3>1
  <2>2. QED
    BY <2>1
<1>5. IsFiniteSet(new)
  BY <1>3, NewRowsAreFinite
<1>6. /\ s \in Seq(new) /\ Len(s) \in Nat
      /\ \A i, j \in 1..Len(s) : s[i] = s[j] => i = j
  BY <1>5, SetToSeqEnumerates
<1> HIDE DEF s
<1>7. \A i \in 1..Len(s) : s[i] \in new
  BY <1>6
<1>8. /\ Len(outbox') = len + Len(s) /\ DOMAIN outbox' = 1..(len + Len(s))
      /\ outbox' \in Seq(Notice)
      /\ \A n \in 1..len : outbox'[n] = outbox[n]
      /\ \A n \in (len + 1)..(len + Len(s)) : n - len \in 1..Len(s) /\ outbox'[n] = s[n - len]
  <2>1. s \in Seq(Notice)
    BY <1>3, <1>6, <1>7
  <2>2. QED
    BY <1>1, <1>2, <1>6, <2>1, ConcatProperties
<1> HIDE DEF len
<1>9. \A n \in DOMAIN outbox' \ DOMAIN outbox :
        /\ n \in (len + 1)..(len + Len(s)) /\ n - len \in 1..Len(s)
        /\ outbox'[n] = s[n - len] /\ outbox'[n] \in new
  BY <1>1, <1>6, <1>7, <1>8
<1>10. OneNoticeEach'
  <2>1. SUFFICES ASSUME NEW m \in DOMAIN outbox', NEW n \in DOMAIN outbox',
                        Key(outbox'[m]) = Key(outbox'[n])
                 PROVE  m = n
    BY DEF OneNoticeEach, Key
  <2>2. CASE m \in DOMAIN outbox /\ n \in DOMAIN outbox
    BY <1>1, <1>8, <2>1, <2>2 DEF OutboxInv, OneNoticeEach
  <2>3. CASE m \in DOMAIN outbox /\ n \notin DOMAIN outbox
    <3>1. Key(outbox'[m]) \in Keys
      BY <1>1, <1>8, <2>3 DEF Keys
    <3>2. QED
      BY <1>3, <1>9, <2>1, <2>3, <3>1
  <2>4. CASE m \notin DOMAIN outbox /\ n \in DOMAIN outbox
    <3>1. Key(outbox'[n]) \in Keys
      BY <1>1, <1>8, <2>4 DEF Keys
    <3>2. QED
      BY <1>3, <1>9, <2>1, <2>4, <3>1
  <2>5. CASE m \notin DOMAIN outbox /\ n \notin DOMAIN outbox
    <3>1. outbox'[m] = outbox'[n]
      BY <1>4, <1>9, <2>1, <2>5
    <3>2. m - len = n - len /\ m \in Int /\ n \in Int
      BY <1>6, <1>8, <1>9, <2>5, <3>1
    <3>3. QED
      BY <1>1, <3>2
  <2>6. QED
    BY <2>2, <2>3, <2>4, <2>5
<1>11. QED
  BY <1>1, <1>3, <1>6, <1>8, <1>9, <1>10

\* The table may grow by rows that wait; nothing else that the flushes see changes.
LEMMA NoticeGrowthKeeps ==
  ASSUME OutboxInv,
         outbox' \in Seq(Notice), OneNoticeEach', DOMAIN outbox \subseteq DOMAIN outbox',
         \A n \in DOMAIN outbox : outbox'[n] = outbox[n],
         \A n \in DOMAIN outbox' \ DOMAIN outbox :
           outbox'[n].status = "pending" /\ outbox'[n].attempts = 0,
         recipient' \in [Recipients -> Profile],
         job' \in [Jobs -> {"absent", "open", "closed"}],
         closing' \in [Jobs -> 0..2], wired' \subseteq Channels,
         UNCHANGED <<begun, flush, copies, disturbed, faults>>
  PROVE  OutboxInv'
<1> USE DEF OutboxInv
<1>1. Len(outbox') <= Cardinality(Rows) /\ DOMAIN outbox' \subseteq Rows
  BY KeysBoundTheTable DEF OneNoticeEach, Key
<1>2. NotifyTypeOK'
  BY <1>1 DEF NotifyTypeOK
<1>3. FreshRows' /\ UnqueuedStay'
  BY DEF FreshRows, UnqueuedStay
<1>4. TidyFlushes'
  BY DEF TidyFlushes, NoticeTidy
<1>5. NoticeOverlapsKnown'
  BY DEF NoticeOverlapsKnown, NoticeHandOf
<1>6. CopiesKnown'
  <2>1. ASSUME NEW n \in DOMAIN outbox', n \notin disturbed, copies[n] > 0
        PROVE  n \in DOMAIN outbox
    BY <1>1, <2>1 DEF UnqueuedStay
  <2>2. QED
    BY <2>1 DEF CopiesKnown, NoticeRecording, NoticeHandOf
<1>7. QED
  BY <1>2, <1>3, <1>4, <1>5, <1>6

LEMMA OrderStepsKeep ==
  ASSUME OutboxInv, NEW w \in Jobs, Open(w) \/ LoadToClose(w) \/ Close(w)
  PROVE  OutboxInv'
<1>1. /\ recipient \in [Recipients -> Profile] /\ wired \subseteq Channels
      /\ job \in [Jobs -> {"absent", "open", "closed"}] /\ closing \in [Jobs -> 0..2]
      /\ outbox \in Seq(Notice)
  BY DEF OutboxInv, NotifyTypeOK
<1>2. CASE Open(w)
  <2>1. Enqueue(w, "opened") /\ job' = [job EXCEPT ![w] = "open"]
        /\ UNCHANGED <<recipient, closing, begun, wired, flush, copies, disturbed, faults>>
    BY <1>2 DEF Open
  <2>2. QED
    BY <1>1, <2>1, EnqueueGrows, NoticeGrowthKeeps
<1>3. CASE LoadToClose(w)
  <2>1. closing' \in [Jobs -> 0..2]
        /\ UNCHANGED <<recipient, job, outbox, begun, wired, flush, copies, disturbed, faults>>
    BY <1>1, <1>3 DEF LoadToClose
  <2>2. OneNoticeEach'
    BY <2>1 DEF OutboxInv, OneNoticeEach, Key
  <2>3. QED
    BY <1>1, <2>1, <2>2, NoticeGrowthKeeps
<1>4. CASE Close(w)
  <2>1. Enqueue(w, "closed") /\ job' = [job EXCEPT ![w] = "closed"] /\ closing' \in [Jobs -> 0..2]
        /\ UNCHANGED <<recipient, begun, wired, flush, copies, disturbed, faults>>
    BY <1>1, <1>4 DEF Close
  <2>2. QED
    BY <1>1, <2>1, EnqueueGrows, NoticeGrowthKeeps
<1>5. QED
  BY <1>2, <1>3, <1>4

LEMMA SettingsKeep ==
  ASSUME OutboxInv,
         \/ \E p \in Recipients : SetRecipientActive(p) \/ \E profile \in Profiles : SaveRecipient(p, profile)
         \/ \E name \in People : FillTelegramChatId(name)
         \/ \E c \in Channels : Configure(c)
  PROVE  OutboxInv'
<1>1. /\ recipient \in [Recipients -> Profile] /\ wired \subseteq Channels
      /\ job \in [Jobs -> {"absent", "open", "closed"}] /\ closing \in [Jobs -> 0..2]
      /\ outbox \in Seq(Notice)
  BY DEF OutboxInv, NotifyTypeOK
<1>2. UNCHANGED <<job, closing, outbox, begun, flush, copies, disturbed, faults>> /\ wired' \subseteq Channels
  BY <1>1 DEF SetRecipientActive, SaveRecipient, FillTelegramChatId, Configure
<1>3. recipient' \in [Recipients -> Profile]
  <2>1. ASSUME NEW p \in Recipients, SetRecipientActive(p)
        PROVE  recipient' \in [Recipients -> Profile]
    <3>1. [recipient[p] EXCEPT !.active = ~@] \in Profile
      BY <1>1 DEF Profile
    <3>2. QED
      BY <1>1, <2>1, <3>1 DEF SetRecipientActive
  <2>2. ASSUME NEW p \in Recipients, NEW profile \in Profiles, SaveRecipient(p, profile)
        PROVE  recipient' \in [Recipients -> Profile]
    <3> DEFINE saved == [profile EXCEPT !.watch = @ \ {profile.own},
                                        !.active = recipient[p] = NoProfile \/ recipient[p].active]
    <3>1. profile \in Profile /\ recipient[p].active \in BOOLEAN
      BY <1>1, ProfilesAssumption DEF Profile
    <3>2. (recipient[p] = NoProfile \/ recipient[p].active) \in BOOLEAN
      BY <3>1
    <3>3. saved \in Profile
      BY <3>1, <3>2 DEF Profile
    <3>4. QED
      BY <1>1, <2>2, <3>3 DEF SaveRecipient
  <2>3. ASSUME NEW name \in People, FillTelegramChatId(name)
        PROVE  recipient' \in [Recipients -> Profile]
    <3>1. \A p \in Recipients : [recipient[p] EXCEPT !.channels = @ \cup {"telegram"}] \in Profile
      BY <1>1 DEF Profile, Channels
    <3>2. QED
      BY <1>1, <2>3, <3>1 DEF FillTelegramChatId
  <2>4. ASSUME NEW c \in Channels, Configure(c)
        PROVE  recipient' \in [Recipients -> Profile]
    BY <1>1, <2>4 DEF Configure
  <2>5. QED
    BY <2>1, <2>2, <2>3, <2>4
<1>4. OneNoticeEach'
  BY <1>2 DEF OutboxInv, OneNoticeEach, Key
<1>5. QED
  BY <1>1, <1>2, <1>3, <1>4, NoticeGrowthKeeps

-----------------------------------------------------------------------------
(***************************************************************************)
(* The theorems.                                                           *)
(***************************************************************************)
LEMMA InitHolds == NotifyInit => OutboxInv
<1> SUFFICES ASSUME NotifyInit
             PROVE  OutboxInv
  OBVIOUS
<1>1. NotifyTypeOK
  <2>1. NoProfile \in Profile
    BY DEF NoProfile, Profile
  <2>2. Len(outbox) <= Cardinality(Rows) /\ outbox \in Seq(Notice)
    BY RowsCounted DEF NotifyInit
  <2>3. QED
    BY <2>1, <2>2, RestingIsTidy, NotifyAssumption DEF NotifyInit, NotifyTypeOK, Channels
<1>2. OneNoticeEach /\ FreshRows /\ UnqueuedStay
  BY DEF NotifyInit, OneNoticeEach, FreshRows, UnqueuedStay
<1>3. TidyFlushes /\ NoticeOverlapsKnown /\ CopiesKnown
  BY RestingIsTidy DEF NotifyInit, TidyFlushes, NoticeOverlapsKnown, CopiesKnown
<1>4. QED
  BY <1>1, <1>2, <1>3 DEF OutboxInv

LEMMA NextKeeps == OutboxInv /\ [NotifyNext]_notifyVars => OutboxInv'
<1> SUFFICES ASSUME OutboxInv, [NotifyNext]_notifyVars
             PROVE  OutboxInv'
  OBVIOUS
<1>1. ASSUME NEW w \in Jobs, Open(w) \/ LoadToClose(w) \/ Close(w)
      PROVE  OutboxInv'
  BY <1>1, OrderStepsKeep
<1>2. CASE \/ \E p \in Recipients : SetRecipientActive(p) \/ \E profile \in Profiles : SaveRecipient(p, profile)
           \/ \E name \in People : FillTelegramChatId(name)
           \/ \E c \in Channels : Configure(c)
  BY <1>2, SettingsKeep
<1>3. ASSUME NEW f \in Flushers, Select(f) \/ Proceed(f) \/ Crash(f)
      PROVE  OutboxInv'
  <2>1. CASE Select(f)
    BY <2>1, NoticeSelectKeeps
  <2>2. CASE Skip(f)
    BY <2>2, SkipKeeps
  <2>3. CASE Sent(f)
    BY <2>3, SentKeeps
  <2>4. CASE Refused(f) \/ Unaddressed(f) \/ AnswerLost(f)
    BY <2>4, NoticeFailureKeeps
  <2>5. CASE Mark(f)
    BY <2>5, MarkKeeps
  <2>6. CASE Crash(f)
    BY <2>6, NoticeCrashKeeps
  <2>7. QED
    BY <1>3, <2>1, <2>2, <2>3, <2>4, <2>5, <2>6 DEF Proceed
<1>4. CASE UNCHANGED notifyVars
  BY <1>4 DEF notifyVars, OutboxInv, NotifyTypeOK, OneNoticeEach, Key, FreshRows, UnqueuedStay,
              TidyFlushes, NoticeTidy, NoticeOverlapsKnown, CopiesKnown, NoticeHandOf, NoticeRecording
<1>5. QED
  BY <1>1, <1>2, <1>3, <1>4 DEF NotifyNext

LEMMA OutboxInvHolds == NotifySpec => []OutboxInv
<1>1. QED
  BY InitHolds, NextKeeps, PTL DEF NotifySpec

\* However requests and flushes interleave and whichever of them crash, a recipient has one
\* row for each event and channel, and a row whose message went out twice is on record as
\* disturbed: flush_outbox never sends a message again on its own.
THEOREM NoticesGoOnceHolds == NotifySpec => []NoticesGoOnce
<1>1. OutboxInv => NoticesGoOnce
  <2> SUFFICES ASSUME OutboxInv
               PROVE  SecondCopyExcused
    BY DEF OutboxInv, NoticesGoOnce
  <2>1. ASSUME NEW n \in Rows, copies[n] > 1, n \notin disturbed
        PROVE  FALSE
    <3>1. copies[n] \in Nat
      BY DEF OutboxInv, NotifyTypeOK
    <3>2. n \in DOMAIN outbox
      BY <2>1 DEF OutboxInv, UnqueuedStay
    <3>3. copies[n] = 1
      BY <2>1, <3>1, <3>2 DEF OutboxInv, CopiesKnown
    <3>4. QED
      BY <2>1, <3>3
  <2>2. QED
    BY <2>1 DEF SecondCopyExcused
<1>2. QED
  BY <1>1, OutboxInvHolds, PTL

\* What a step does to a row of the table, in the words of Delivery.
LEMMA NoticeStageKept ==
  ASSUME NEW n \in Rows, n \in DOMAIN outbox, n \in DOMAIN outbox',
         outbox'[n].status = outbox[n].status
  PROVE  Stage(n)' = Stage(n)
  BY DEF Stage

\* Rows that join the table are queued, all of them in one step.
LEMMA NoticeGrowthIsQueue ==
  ASSUME DOMAIN outbox \subseteq DOMAIN outbox', copies' = copies,
         \A n \in DOMAIN outbox : outbox'[n] = outbox[n],
         \A n \in DOMAIN outbox' \ DOMAIN outbox : outbox'[n].status = "pending"
  PROVE  \E ms \in SUBSET Rows : Outbox!Queue(ms)
<1> DEFINE ms == {n \in Rows : n \in DOMAIN outbox' \ DOMAIN outbox}
<1>1. \A n \in Rows : Stage(n)' = IF n \in ms THEN "queued" ELSE Stage(n)
  BY DEF Stage
<1>2. \A n \in ms : Stage(n) = "new"
  BY DEF Stage
<1>3. Outbox!Queue(ms)
  BY <1>1, <1>2 DEF Outbox!Queue
<1>4. QED
  BY <1>3

\* A step that neither changes the table nor sends is a stutter.
LEMMA NoticeQuietIsStutter ==
  ASSUME outbox' = outbox, copies' = copies
  PROVE  UNCHANGED Outbox!vars
  BY DEF Outbox!vars, Stage

\* A message of a queued row that leaves.
LEMMA SendIsLeave ==
  ASSUME OutboxInv, NEW n \in Rows, n \in DOMAIN outbox, outbox' = outbox, Delivered(n)
  PROVE  Outbox!Leave(n)
<1>1. Stage(n) # "new"
  <2>1. outbox[n] \in Notice
    BY DEF OutboxInv, NotifyTypeOK
  <2>2. QED
    BY <2>1 DEF Stage, Notice
<1>2. [m \in Rows |-> Stage(m)]' = [m \in Rows |-> Stage(m)]
  BY DEF Stage
<1>3. QED
  BY <1>1, <1>2 DEF Outbox!Leave, Delivered

\* _mark records what was seen to leave, or that the send failed, or what is recorded already.
LEMMA MarkIsRecord ==
  ASSUME OutboxInv, NEW f \in Flushers, Mark(f), NEW c, c = Current(f)
  PROVE  \/ Outbox!RecordSent(c) \/ Outbox!RecordFailed(c)
         \/ UNCHANGED Outbox!vars
<1>0. PICK r, seen : r = Marked(f, c) /\ seen = Head(flush[f].todo)
  OBVIOUS
<1>1. flush[f].pc = "mark" /\ copies' = copies /\ outbox' = [outbox EXCEPT ![c] = r]
  BY <1>0 DEF Mark
<1>2. /\ flush[f].todo \in Seq(Read) /\ 1 \in DOMAIN flush[f].todo /\ seen = flush[f].todo[1]
      /\ c \in DOMAIN outbox /\ c \in Rows
  BY <1>0, <1>1, CurrentIsHeld
<1>3. outbox \in Seq(Notice) /\ outbox[c] \in Notice /\ seen \in Read
  BY <1>2 DEF OutboxInv, NotifyTypeOK
<1>4. Stage(c) # "new"
  BY <1>2, <1>3 DEF Stage, Notice
<1>5. /\ DOMAIN outbox' = DOMAIN outbox /\ outbox'[c] = r
      /\ \A n \in DOMAIN outbox : n # c => outbox'[n] = outbox[n]
  BY <1>1, <1>2, <1>3
<1>6. \A n \in Rows : n # c => Stage(n)' = Stage(n)
  BY <1>5 DEF Stage
<1>7. NoticeTidy(flush[f])
  BY DEF OutboxInv, TidyFlushes
<1>8. seen.status \in {"pending", "failed"}
  BY <1>2, <1>3, <1>7 DEF NoticeTidy, Read
<1>9. /\ flush[f].went => r.status = "sent"
      /\ ~flush[f].went => r.status = Written("failed", seen.status, outbox[c].status)
  BY <1>0, <1>1, MarkedIsNotice
<1>10. flush[f].went => copies[c] > 0
  BY <1>1, <1>7 DEF NoticeTidy, Current
<1>11. CASE flush[f].went
  <2>1. r.status = "sent"
    BY <1>11, <1>9
  <2>2. Stage(c)' = "sent"
    BY <1>2, <1>5, <2>1 DEF Stage
  <2>3. copies[c] > 0
    BY <1>11, <1>10
  <2>4. [n \in Rows |-> Stage(n)]' = [[n \in Rows |-> Stage(n)] EXCEPT ![c] = "sent"]
    BY <1>2, <1>6, <2>2
  <2>5. Outbox!RecordSent(c)
    BY <1>1, <1>2, <1>4, <2>3, <2>4 DEF Outbox!RecordSent
  <2>6. QED
    BY <2>5
<1>12. CASE ~flush[f].went /\ seen.status = "pending"
  <2>1. r.status = "failed"
    BY <1>12, <1>9 DEF Written
  <2>2. Stage(c)' = "failed"
    BY <1>2, <1>5, <2>1 DEF Stage
  <2>3. [n \in Rows |-> Stage(n)]' = [[n \in Rows |-> Stage(n)] EXCEPT ![c] = "failed"]
    BY <1>2, <1>6, <2>2
  <2>4. Outbox!RecordFailed(c)
    BY <1>1, <1>2, <1>4, <2>3 DEF Outbox!RecordFailed
  <2>5. QED
    BY <2>4
<1>13. CASE ~flush[f].went /\ seen.status = "failed"
  <2>1. r.status = outbox[c].status
    BY <1>13, <1>9 DEF Written
  <2>2. Stage(c)' = Stage(c)
    BY <1>2, <1>5, <2>1, NoticeStageKept
  <2>3. [n \in Rows |-> Stage(n)]' = [n \in Rows |-> Stage(n)]
    BY <1>6, <2>2
  <2>4. QED
    BY <1>1, <2>3 DEF Outbox!vars
<1>14. QED
  BY <1>8, <1>11, <1>12, <1>13

LEMMA NoticeStepRefines ==
  ASSUME OutboxInv, [NotifyNext]_notifyVars
  PROVE  [Outbox!Next]_Outbox!vars
<1>1. ASSUME NEW w \in Jobs, Open(w) \/ Close(w)
      PROVE  [Outbox!Next]_Outbox!vars
  <2>1. /\ copies' = copies /\ DOMAIN outbox \subseteq DOMAIN outbox'
        /\ \A n \in DOMAIN outbox : outbox'[n] = outbox[n]
        /\ \A n \in DOMAIN outbox' \ DOMAIN outbox : outbox'[n].status = "pending"
    BY <1>1, EnqueueGrows DEF Open, Close
  <2>2. QED
    BY <2>1, NoticeGrowthIsQueue DEF Outbox!Next
<1>2. ASSUME NEW f \in Flushers, Sent(f) \/ AnswerLost(f)
      PROVE  [Outbox!Next]_Outbox!vars
  <2>1. flush[f].pc # "idle" /\ outbox' = outbox /\ Delivered(Current(f))
    BY <1>2 DEF Sent, AnswerLost, Sending
  <2>2. Current(f) \in Rows /\ Outbox!Leave(Current(f))
    BY <2>1, CurrentIsHeld, SendIsLeave
  <2>3. QED
    BY <2>2 DEF Outbox!Next
<1>3. ASSUME NEW f \in Flushers, Mark(f)
      PROVE  [Outbox!Next]_Outbox!vars
  <2>1. PICK c : c = Current(f)
    OBVIOUS
  <2>2. c \in Rows
    BY <1>3, <2>1, CurrentIsHeld DEF Mark
  <2>3. QED
    BY <1>3, <2>1, <2>2, MarkIsRecord DEF Outbox!Next
<1>4. ASSUME NEW f \in Flushers, Select(f) \/ Skip(f) \/ Refused(f) \/ Unaddressed(f) \/ Crash(f)
      PROVE  outbox' = outbox /\ copies' = copies
  BY <1>4 DEF Select, Skip, Refused, Unaddressed, Crash
<1>5. ASSUME \/ \E w \in Jobs : LoadToClose(w)
             \/ \E p \in Recipients : SetRecipientActive(p) \/ \E profile \in Profiles : SaveRecipient(p, profile)
             \/ \E name \in People : FillTelegramChatId(name)
             \/ \E c \in Channels : Configure(c)
             \/ UNCHANGED notifyVars
      PROVE  outbox' = outbox /\ copies' = copies
  BY <1>5 DEF LoadToClose, SetRecipientActive, SaveRecipient, FillTelegramChatId, Configure, notifyVars
<1>6. QED
  BY <1>1, <1>2, <1>3, <1>4, <1>5, NoticeQuietIsStutter DEF NotifyNext, Proceed

\* The outbox implements Delivery: a notice leaves only once it is queued, and its row says
\* "sent" only when a copy of it has left.
THEOREM NoticesDeliveredHolds == NotifySpec => NoticesDelivered
<1>1. NotifyInit => Outbox!Init
  BY DEF NotifyInit, Outbox!Init, Stage
<1>2. OutboxInv /\ [NotifyNext]_notifyVars => [Outbox!Next]_Outbox!vars
  BY NoticeStepRefines
<1>3. QED
  BY <1>1, <1>2, OutboxInvHolds, PTL DEF NotifySpec, NoticesDelivered, Outbox!Spec

-----------------------------------------------------------------------------
(***************************************************************************)
(* The inductive invariant of the queue.                                   *)
(***************************************************************************)
\* The bounds of the model, and what the rows and the forwards refer to.
Anchored ==
  /\ Len(note) <= MaxNotes /\ Len(issue) <= MaxIssues
  /\ \A n \in DOMAIN queue : queue[n].note \in DOMAIN note
  /\ \A r \in Forwards :
       /\ forward[r].notes \subseteq DOMAIN note
       /\ forward[r].pc # "idle" => forward[r].owner \in Owners
       /\ forward[r].pc \in {"link", "queue"} => forward[r].issue \in Issues

\* A row that was never tried, and so every row to send, has attempts left.
FreshQueue == \A n \in DOMAIN queue : queue[n].status = "pending" => queue[n].tries = 0

\* Of a row that was never queued nothing reached Jira.
UnqueuedSilent == \A n \in QueueRows : n \notin DOMAIN queue => comments[n] = 0 /\ uploads[n] = 0

HandOf(q) == {q.todo[i].row : i \in DOMAIN q.todo}

\* What a flush holds: rows of the queue, each of them once, as they waited when it read them;
\* and it takes a comment for added only when Jira has it.
Tidy(q) ==
  /\ q.pc = "idle" <=> q.todo = <<>>
  /\ \A i \in DOMAIN q.todo :
       /\ q.todo[i].row \in DOMAIN queue
       /\ q.todo[i].status # "sent"
       /\ q.todo[i].tries < MaxTries
       /\ q.todo[i].status = "failed" => queue[q.todo[i].row].status # "pending"
  /\ \A i, j \in DOMAIN q.todo : q.todo[i].row = q.todo[j].row => i = j
  /\ q.pc = "send" => ~q.went
  /\ q.pc = "mark" /\ q.went => comments[Head(q.todo).row] > 0

TidySyncs == \A f \in Syncs : Tidy(sync[f])

\* Rows that two flushes hold are on record as repeated.
OverlapsKnown ==
  \A f, g \in Syncs : f # g => HandOf(sync[f]) \cap HandOf(sync[g]) \subseteq repeated

Recording(q, n) == q.pc = "mark" /\ q.went /\ Head(q.todo).row = n

\* A comment that Jira has, of a row not on record as repeated: the row says so and is in no
\* hand, or the flush that added it is about to say so.
CommentsKnown ==
  \A n \in DOMAIN queue :
    n \notin repeated /\ comments[n] > 0 =>
      /\ comments[n] = 1
      /\ \/ queue[n].status = "sent" /\ \A f \in Syncs : n \notin HandOf(sync[f])
         \/ \E f \in Syncs : Recording(sync[f], n)

ReadUploaded(q, n) == \A i \in DOMAIN q.todo : q.todo[i].row = n => q.todo[i].uploaded

\* Photos that Jira has, of such a row: the row says so, to every flush that holds it.
UploadsKnown ==
  \A n \in DOMAIN queue :
    n \notin repeated /\ uploads[n] > 0 =>
      /\ uploads[n] = 1
      /\ queue[n].uploaded
      /\ \A f \in Syncs : ReadUploaded(sync[f], n)

\* What is queued, and what a forward has read, is committed; and what a note under way has to
\* queue are rows of its own, one for an issue.
NotesUnderWay ==
  /\ \A m \in DOMAIN queue : note[queue[m].note].stage = "stored"
  /\ \A r \in Forwards : \A n \in forward[r].notes : note[n].stage = "stored"
  /\ \A n \in DOMAIN note : \A r \in note[n].rows :
       /\ r.note = n /\ r.status = "pending" /\ r.tries = 0
       /\ \A s \in note[n].rows : s.issue = r.issue => s = r

QueueInv ==
  /\ SyncTypeOK /\ Anchored /\ OneRowPerComment /\ FreshQueue /\ UnqueuedSilent
  /\ TidySyncs /\ OverlapsKnown /\ CommentsKnown /\ UploadsKnown

-----------------------------------------------------------------------------
(***************************************************************************)
(* Facts about the operators.                                              *)
(***************************************************************************)
\* The unique key bounds the queue: a row for each note and issue.
LEMMA KeysBoundTheQueue ==
  ASSUME NEW s \in Seq(QueueRow),
         \A m, n \in DOMAIN s : s[m].note = s[n].note /\ s[m].issue = s[n].issue => m = n
  PROVE  DOMAIN s \subseteq QueueRows
<1> DEFINE All == (1..MaxNotes) \X Issues
           key == [n \in 1..Len(s) |-> <<s[n].note, s[n].issue>>]
<1>1. IsFiniteSet(1..MaxNotes) /\ Cardinality(1..MaxNotes) = MaxNotes
  BY SyncAssumption, FS_Interval
<1>2. IsFiniteSet(Issues) /\ Cardinality(Issues) = MaxIssues
  BY SyncAssumption, FS_Interval DEF Issues
<1>3. IsFiniteSet(All) /\ Cardinality(All) = MaxNotes * MaxIssues
  BY <1>1, <1>2, FS_Product
<1>4. Len(s) \in Nat /\ DOMAIN s = 1..Len(s)
  OBVIOUS
<1>5. key \in [1..Len(s) -> All]
  <2>1. ASSUME NEW n \in 1..Len(s)
        PROVE  s[n].note \in 1..MaxNotes /\ s[n].issue \in Issues
    <3>1. s[n] \in QueueRow
      BY <1>4
    <3>2. QED
      BY <3>1 DEF QueueRow
  <2>2. QED
    BY <2>1
<1>6. \A m, n \in 1..Len(s) : key[m] = key[n] => m = n
  BY <1>4
<1>7. key \in Injection(1..Len(s), All)
  BY <1>5, <1>6 DEF Injection, IsInjective
<1>8. Cardinality(1..Len(s)) <= Cardinality(All)
  BY <1>3, <1>7, FS_Injection
<1>9. Cardinality(1..Len(s)) = Len(s)
  BY <1>4, FS_Interval
<1>10. QED
  BY <1>3, <1>4, <1>8, <1>9, SyncAssumption DEF QueueRows

\* Distinct rows of the queue come one before the other.
LEMMA BeforeOrdersTheQueue ==
  ASSUME queue \in Seq(QueueRow), OneRowPerComment
  PROVE  /\ \A m, n \in DOMAIN queue : m # n => (Before(m, n) <=> ~Before(n, m))
         /\ \A l, m, n \in DOMAIN queue : Before(l, m) /\ Before(m, n) => Before(l, n)
         /\ \A n \in DOMAIN queue : ~Before(n, n)
<1>1. ASSUME NEW n \in DOMAIN queue
      PROVE  queue[n].note \in Nat /\ queue[n].issue \in Nat
  <2>1. queue[n] \in QueueRow
    OBVIOUS
  <2>2. QED
    BY <2>1, SyncAssumption DEF QueueRow, Issues
<1>2. QED
  BY <1>1 DEF Before, OneRowPerComment

\* A batch holds rows to send, each of them once.
LEMMA BatchWaits ==
  ASSUME QueueInv, NEW f \in Syncs
  PROVE  /\ SyncBatch(f) \in Seq(DOMAIN queue)
         /\ \A i \in DOMAIN SyncBatch(f) : SyncBatch(f)[i] \in DOMAIN queue /\ ToSend(SyncBatch(f)[i])
         /\ \A i, j \in DOMAIN SyncBatch(f) : SyncBatch(f)[i] = SyncBatch(f)[j] => i = j
<1> DEFINE rows == {n \in DOMAIN queue : ToSend(n)}
           Place(n) == Cardinality({m \in rows : m = n \/ Before(m, n)})
           below == [n \in rows |-> {m \in rows : m = n \/ Before(m, n)}]
           limit == IF f \in Forwards THEN Max({SyncLimit, Cardinality(forward[f].notes) + 5}) ELSE SyncLimit
           size == Min({limit, Cardinality(rows)})
<1>1. /\ queue \in Seq(QueueRow) /\ OneRowPerComment
      /\ Len(queue) \in Nat /\ DOMAIN queue = 1..Len(queue)
  BY DEF QueueInv, SyncTypeOK
<1>2. IsFiniteSet(rows)
  <2>1. IsFiniteSet(1..Len(queue))
    BY <1>1, FS_Interval
  <2>2. rows \in SUBSET (1..Len(queue))
    BY <1>1
  <2>3. QED
    BY <2>1, <2>2, FS_Subset
<1>3. /\ Cardinality(rows) \in Nat
      /\ \A i \in 1..Cardinality(rows) : \E n \in rows : Cardinality(below[n]) = i
  <2>1. below \in [rows -> SUBSET rows]
    OBVIOUS
  <2>2. \A x \in rows : x \in below[x]
    OBVIOUS
  <2>3. \A x, y \in rows : y \in below[x] => below[y] \subseteq below[x]
    BY <1>1, BeforeOrdersTheQueue
  <2>4. \A x, y \in rows : x # y => (x \in below[y] <=> y \notin below[x])
    BY <1>1, BeforeOrdersTheQueue
  <2> HIDE DEF rows, below
  <2>5. QED
    BY <1>2, <2>1, <2>2, <2>3, <2>4, PlacesAreOneToOne
<1>4. limit \in Nat
  <2>1. CASE f \in Forwards
    <3>1. forward[f].notes \in SUBSET (1..MaxNotes)
      BY <2>1 DEF QueueInv, SyncTypeOK, Forward
    <3>2. IsFiniteSet(1..MaxNotes)
      BY SyncAssumption, FS_Interval
    <3>3. Cardinality(forward[f].notes) \in Nat
      BY <3>1, <3>2, FS_Subset, FS_CardinalityType
    <3>4. Cardinality(forward[f].notes) + 5 \in Nat /\ SyncLimit \in Nat
      BY <3>3, SyncAssumption
    <3>5. QED
      BY <2>1, <3>4, MaxOfTwo
  <2>2. CASE f \notin Forwards
    BY <2>2, SyncAssumption
  <2>3. QED
    BY <2>1, <2>2
<1> HIDE DEF limit
<1>5. size \in Nat /\ size <= Cardinality(rows)
  BY <1>3, <1>4, MinOfTwo
<1>6. SyncBatch(f) = [i \in 1..size |-> CHOOSE n \in rows : Place(n) = i]
  BY DEF SyncBatch, limit
<1>7. ASSUME NEW i \in 1..size
      PROVE  SyncBatch(f)[i] \in rows /\ Place(SyncBatch(f)[i]) = i
  <2>1. i \in 1..Cardinality(rows)
    BY <1>3, <1>5
  <2>2. \E n \in rows : Place(n) = i
    BY <2>1, <1>3
  <2>3. SyncBatch(f)[i] = CHOOSE n \in rows : Place(n) = i
    BY <1>6
  <2> HIDE DEF rows, Place
  <2>4. QED
    BY <2>2, <2>3
<1> HIDE DEF Place
<1>8. DOMAIN SyncBatch(f) = 1..size
  BY <1>6
<1>9. SyncBatch(f) \in Seq(DOMAIN queue)
  <2>1. \A i \in 1..size : SyncBatch(f)[i] \in DOMAIN queue
    BY <1>7
  <2> DEFINE at(i) == CHOOSE n \in rows : Place(n) = i
  <2> HIDE DEF rows, size, at
  <2>2. SyncBatch(f) = [i \in 1..size |-> SyncBatch(f)[i]]
    <3>1. SyncBatch(f) = [i \in 1..size |-> at(i)]
      BY <1>6 DEF at
    <3>2. QED
      BY <3>1
  <2>3. QED
    BY <2>1, <2>2, <1>5
<1>10. \A i, j \in DOMAIN SyncBatch(f) : SyncBatch(f)[i] = SyncBatch(f)[j] => i = j
  BY <1>7, <1>8
<1>11. QED
  BY <1>7, <1>8, <1>9, <1>10

-----------------------------------------------------------------------------
(***************************************************************************)
(* The steps of a flush.                                                   *)
(***************************************************************************)
LEMMA NoSyncIsTidy ==
  NoSync \in Sync /\ Tidy(NoSync) /\ HandOf(NoSync) = {} /\ \A n : ReadUploaded(NoSync, n)
<1>1. NoSync.todo = <<>> /\ NoSync.pc = "idle" /\ NoSync \in Sync
  BY DEF NoSync, Sync
<1>2. Tidy(NoSync) /\ HandOf(NoSync) = {}
  BY <1>1 DEF Tidy, HandOf
<1>3. \A n : ReadUploaded(NoSync, n)
  BY <1>1 DEF ReadUploaded
<1>4. QED
  BY <1>1, <1>2, <1>3

LEMMA QueueRowsOnly == QueueInv => DOMAIN queue \subseteq QueueRows
  BY KeysBoundTheQueue DEF QueueInv, SyncTypeOK, OneRowPerComment

\* The row a flush is at is one of those it holds, and a row of the queue.
LEMMA AtHandIsHeld ==
  ASSUME QueueInv, NEW f \in Syncs, sync[f].pc # "idle"
  PROVE  /\ sync[f] \in Sync /\ sync[f].todo \in Seq(RowRead) /\ sync[f].todo # <<>>
         /\ 1 \in DOMAIN sync[f].todo /\ Row(f) = sync[f].todo[1] /\ Row(f) \in RowRead
         /\ AtHand(f) \in HandOf(sync[f])
         /\ AtHand(f) \in DOMAIN queue /\ AtHand(f) \in QueueRows
<1>1. sync[f] \in Sync /\ Tidy(sync[f])
  BY DEF QueueInv, SyncTypeOK, TidySyncs
<1>2. sync[f].todo \in Seq(RowRead) /\ sync[f].todo # <<>>
  BY <1>1 DEF Sync, Tidy
<1>3. 1 \in DOMAIN sync[f].todo /\ Row(f) = sync[f].todo[1]
  BY <1>2 DEF Row
<1>4. sync[f].todo[1].row \in DOMAIN queue
  BY <1>1, <1>3 DEF Tidy
<1>5. AtHand(f) \in HandOf(sync[f])
  BY <1>3 DEF AtHand, HandOf
<1>6. Row(f) \in RowRead
  BY <1>2, <1>3
<1>7. AtHand(f) \in QueueRows
  BY <1>6 DEF AtHand, RowRead
<1>8. QED
  BY <1>1, <1>2, <1>3, <1>4, <1>5, <1>6, <1>7 DEF AtHand

\* Going on, a flush lets go of the row it was at and of no other.
LEMMA NextRowIsTidy ==
  ASSUME QueueInv, NEW f \in Syncs, sync[f].pc # "idle"
  PROVE  /\ NextRow(f) \in Sync /\ Tidy(NextRow(f))
         /\ HandOf(NextRow(f)) = HandOf(sync[f]) \ {AtHand(f)}
         /\ \A n : ReadUploaded(sync[f], n) => ReadUploaded(NextRow(f), n)
         /\ NextRow(f).pc # "mark"
<1> DEFINE todo == sync[f].todo
<1>1. /\ sync[f] \in Sync /\ Tidy(sync[f])
      /\ todo \in Seq(RowRead) /\ todo # <<>> /\ 1 \in DOMAIN todo /\ AtHand(f) = todo[1].row
  BY AtHandIsHeld DEF QueueInv, TidySyncs, AtHand
<1>2. \A i, j \in DOMAIN todo : todo[i].row = todo[j].row => i = j
  BY <1>1 DEF Tidy
<1>3. CASE Len(todo) = 1
  <2>1. NextRow(f) = NoSync
    BY <1>3 DEF NextRow
  <2>2. HandOf(sync[f]) = {AtHand(f)}
    BY <1>1, <1>3 DEF HandOf
  <2>3. QED
    BY <2>1, <2>2, NoSyncIsTidy DEF NoSync
<1>4. CASE Len(todo) # 1
  <2> DEFINE q == [sync[f] EXCEPT !.pc = "send", !.todo = Tail(@), !.went = FALSE]
  <2>1. NextRow(f) = q
    BY <1>4 DEF NextRow
  <2>2. /\ Tail(todo) \in Seq(RowRead) /\ Tail(todo) # <<>>
        /\ DOMAIN Tail(todo) = 1..(Len(todo) - 1)
        /\ \A i \in DOMAIN Tail(todo) : i + 1 \in DOMAIN todo /\ Tail(todo)[i] = todo[i + 1]
    BY <1>1, <1>4, TailShifts
  <2>3. q \in Sync /\ q.pc = "send" /\ q.todo = Tail(todo) /\ ~q.went
    BY <1>1, <2>2 DEF Sync
  <2>4. Tidy(q)
    <3>1. \A i \in DOMAIN Tail(todo) :
            /\ Tail(todo)[i].row \in DOMAIN queue
            /\ Tail(todo)[i].status # "sent"
            /\ Tail(todo)[i].tries < MaxTries
            /\ Tail(todo)[i].status = "failed" => queue[Tail(todo)[i].row].status # "pending"
      BY <1>1, <2>2 DEF Tidy
    <3>2. \A i, j \in DOMAIN Tail(todo) : Tail(todo)[i].row = Tail(todo)[j].row => i = j
      BY <1>2, <2>2
    <3>3. QED
      BY <2>2, <2>3, <3>1, <3>2 DEF Tidy
  <2>5. HandOf(q) = HandOf(sync[f]) \ {AtHand(f)}
    <3>1. ASSUME NEW n \in HandOf(q)
          PROVE  n \in HandOf(sync[f]) \ {AtHand(f)}
      <4>1. PICK i \in DOMAIN Tail(todo) : n = Tail(todo)[i].row
        BY <2>3 DEF HandOf
      <4>2. i + 1 \in DOMAIN todo /\ n = todo[i + 1].row /\ i + 1 # 1
        BY <2>2, <4>1
      <4>3. QED
        BY <1>1, <1>2, <4>2 DEF HandOf
    <3>2. ASSUME NEW n \in HandOf(sync[f]), n # AtHand(f)
          PROVE  n \in HandOf(q)
      <4>1. PICK i \in DOMAIN todo : n = todo[i].row
        BY DEF HandOf
      <4>2. i # 1
        BY <1>1, <3>2, <4>1
      <4>3. i - 1 \in DOMAIN Tail(todo) /\ Tail(todo)[i - 1] = todo[i]
        BY <1>1, <2>2, <4>2
      <4>4. QED
        BY <2>3, <4>1, <4>3 DEF HandOf
    <3>3. QED
      BY <3>1, <3>2
  <2>6. \A n : ReadUploaded(sync[f], n) => ReadUploaded(q, n)
    BY <2>2, <2>3 DEF ReadUploaded
  <2>7. QED
    BY <2>1, <2>3, <2>4, <2>5, <2>6
<1>5. QED
  BY <1>3, <1>4

\* What a flush holds stays tidy while the queue keeps its rows and comments only add up.
LEMMA TidyKept ==
  ASSUME NEW q, Tidy(q), DOMAIN queue \subseteq DOMAIN queue',
         \A n \in DOMAIN queue : queue[n].status # "pending" => queue'[n].status # "pending",
         q.pc = "mark" /\ q.went => comments'[Head(q.todo).row] > 0
  PROVE  Tidy(q)'
  BY DEF Tidy

\* A step of a flush that records nothing: it lets go of rows, goes on, or goes on to record
\* that it failed; what reached Jira and will not be recorded is repeated.
LEMMA QuietStep ==
  ASSUME QueueInv, NEW f \in Syncs, NEW q \in Sync, Tidy(q),
         HandOf(q) \subseteq HandOf(sync[f]), ~(q.pc = "mark" /\ q.went),
         \A n : ReadUploaded(sync[f], n) => ReadUploaded(q, n),
         sync' = [sync EXCEPT ![f] = q],
         comments' \in [QueueRows -> Nat], uploads' \in [QueueRows -> Nat],
         repeated \subseteq repeated', repeated' \subseteq QueueRows, mishaps' \in 0..MaxMishaps,
         \A n \in QueueRows :
           \/ comments'[n] = comments[n] /\ uploads'[n] = uploads[n]
           \/ /\ comments'[n] >= comments[n] /\ uploads'[n] >= uploads[n]
              /\ n \in DOMAIN queue /\ n \in repeated',
         \A n \in DOMAIN queue : Recording(sync[f], n) => n \in repeated',
         UNCHANGED <<note, link, issue, queue, token, forward, excused>>
  PROVE  QueueInv'
<1> USE DEF QueueInv
<1>1. sync \in [Syncs -> Sync] /\ comments \in [QueueRows -> Nat] /\ DOMAIN queue \subseteq QueueRows
  BY QueueRowsOnly DEF SyncTypeOK
<1>2. sync'[f] = q /\ \A g \in Syncs : g # f => sync'[g] = sync[g]
  BY <1>1
<1>3. SyncTypeOK'
  BY <1>1 DEF SyncTypeOK
<1>4. OneRowPerComment' /\ Anchored' /\ FreshQueue'
  BY DEF OneRowPerComment, Anchored, FreshQueue
<1>5. UnqueuedSilent'
  BY DEF UnqueuedSilent
<1>6. TidySyncs'
  <2>1. ASSUME NEW g \in Syncs, g # f
        PROVE  Tidy(sync[g])'
    <3>1. Tidy(sync[g])
      BY DEF TidySyncs
    <3>2. sync[g].pc = "mark" /\ sync[g].went => comments'[Head(sync[g].todo).row] > 0
      <4>1. SUFFICES ASSUME sync[g].pc = "mark", sync[g].went
                     PROVE  comments'[Head(sync[g].todo).row] > 0
        OBVIOUS
      <4>2. AtHand(g) \in QueueRows
        BY <4>1, AtHandIsHeld
      <4>3. comments[AtHand(g)] > 0
        BY <3>1, <4>1 DEF Tidy, AtHand, Row
      <4>4. comments[AtHand(g)] \in Nat /\ comments'[AtHand(g)] \in Nat
        BY <1>1, <4>2
      <4>5. comments'[AtHand(g)] >= comments[AtHand(g)]
        BY <4>2, <4>4
      <4>6. comments'[AtHand(g)] > 0
        BY <4>3, <4>4, <4>5
      <4>7. QED
        BY <4>6 DEF AtHand, Row
    <3>3. QED
      BY <1>2, <2>1, <3>1, <3>2 DEF Tidy
  <2>2. Tidy(sync[f])'
    BY <1>2 DEF Tidy
  <2>3. QED
    BY <2>1, <2>2 DEF TidySyncs
<1>7. OverlapsKnown'
  BY <1>2 DEF OverlapsKnown
<1>8. CommentsKnown'
  <2>1. SUFFICES ASSUME NEW n \in DOMAIN queue, n \notin repeated', comments'[n] > 0
                 PROVE  /\ comments'[n] = 1
                        /\ \/ queue[n].status = "sent" /\ \A g \in Syncs : n \notin HandOf(sync'[g])
                           \/ \E g \in Syncs : Recording(sync'[g], n)
    BY DEF CommentsKnown, Recording, HandOf
  <2>2. comments'[n] = comments[n] /\ n \notin repeated /\ ~Recording(sync[f], n)
    BY <1>1, <2>1
  <2>3. CASE queue[n].status = "sent" /\ \A g \in Syncs : n \notin HandOf(sync[g])
    BY <1>2, <2>1, <2>2, <2>3 DEF CommentsKnown
  <2>4. CASE \E g \in Syncs : Recording(sync[g], n)
    BY <1>2, <2>1, <2>2, <2>4 DEF CommentsKnown
  <2>5. QED
    BY <2>1, <2>2, <2>3, <2>4 DEF CommentsKnown
<1>9. UploadsKnown'
  <2>1. ASSUME NEW n \in DOMAIN queue, n \notin repeated', uploads'[n] > 0
        PROVE  uploads'[n] = 1 /\ queue[n].uploaded /\ \A g \in Syncs : ReadUploaded(sync'[g], n)
    <3>1. uploads'[n] = uploads[n] /\ n \notin repeated
      BY <1>1, <2>1
    <3>2. uploads[n] = 1 /\ queue[n].uploaded /\ \A g \in Syncs : ReadUploaded(sync[g], n)
      BY <2>1, <3>1 DEF UploadsKnown
    <3>3. QED
      BY <1>2, <3>1, <3>2
  <2>2. QED
    BY <2>1 DEF UploadsKnown, ReadUploaded
<1>10. QED
  BY <1>3, <1>4, <1>5, <1>6, <1>7, <1>8, <1>9

\* A flush that goes on to record that its row failed.
LEMMA FailingIsTidy ==
  ASSUME QueueInv, NEW f \in Syncs, sync[f].pc = "send"
  PROVE  LET q == [sync[f] EXCEPT !.pc = "mark", !.went = FALSE]
         IN  /\ q \in Sync /\ Tidy(q) /\ HandOf(q) = HandOf(sync[f]) /\ ~q.went
             /\ \A n : ReadUploaded(sync[f], n) => ReadUploaded(q, n)
<1>1. sync[f] \in Sync /\ Tidy(sync[f])
  BY DEF QueueInv, SyncTypeOK, TidySyncs
<1>2. QED
  BY <1>1 DEF Sync, Tidy, HandOf, ReadUploaded

LEMMA FailureKeeps ==
  ASSUME QueueInv, NEW f \in Syncs, Withheld(f) \/ UploadFails(f) \/ CommentFails(f)
  PROVE  QueueInv'
<1> DEFINE q == [sync[f] EXCEPT !.pc = "mark", !.went = FALSE]
           c == AtHand(f)
<1>1. sync[f].pc = "send" /\ ~\E n \in DOMAIN queue : Recording(sync[f], n)
  BY DEF Withheld, UploadFails, CommentFails, MaySend, Recording
<1>2. /\ q \in Sync /\ Tidy(q) /\ HandOf(q) \subseteq HandOf(sync[f]) /\ ~q.went
      /\ \A n : ReadUploaded(sync[f], n) => ReadUploaded(q, n)
  BY <1>1, FailingIsTidy
<1>3. /\ sync \in [Syncs -> Sync] /\ comments \in [QueueRows -> Nat] /\ uploads \in [QueueRows -> Nat]
      /\ repeated \subseteq QueueRows /\ mishaps \in 0..MaxMishaps /\ MaxMishaps \in Nat
  BY SyncAssumption DEF QueueInv, SyncTypeOK
<1>4. sync' = [sync EXCEPT ![f] = q] /\ UNCHANGED <<note, link, issue, queue, token, forward, excused>>
  <2>1. Verdict(f, FALSE)
    BY DEF Withheld, UploadFails, CommentFails
  <2>2. sync' = [sync EXCEPT ![f].pc = "mark", ![f].went = FALSE]
    BY <2>1 DEF Verdict
  <2>3. PICK p : p = q
    OBVIOUS
  <2>4. sync' = [sync EXCEPT ![f] = p]
    BY <1>3, <2>2, <2>3
  <2>5. UNCHANGED <<note, link, issue, queue, token, forward, excused>>
    BY DEF Withheld, UploadFails, CommentFails
  <2>6. QED
    BY <2>3, <2>4, <2>5
<1>5. mishaps' \in 0..MaxMishaps
  <2>1. mishaps' = mishaps \/ Mishap
    BY DEF Withheld, UploadFails, CommentFails
  <2>2. QED
    BY <1>3, <2>1 DEF Mishap
<1>6. c \in DOMAIN queue /\ c \in QueueRows
  BY <1>1, AtHandIsHeld
<1> HIDE DEF c
<1>7. \/ UNCHANGED <<comments, uploads, repeated>>
      \/ /\ comments' = [comments EXCEPT ![c] = @ + 1] /\ uploads' = uploads
         /\ repeated' = repeated \cup {c}
      \/ /\ uploads' = [uploads EXCEPT ![c] = @ + 1] /\ comments' = comments
         /\ repeated' = repeated \cup {c}
  BY DEF Withheld, UploadFails, CommentFails, c
<1>8. /\ comments' \in [QueueRows -> Nat] /\ uploads' \in [QueueRows -> Nat]
      /\ repeated \subseteq repeated' /\ repeated' \subseteq QueueRows
  BY <1>3, <1>6, <1>7
<1>9. \A n \in QueueRows :
        \/ comments'[n] = comments[n] /\ uploads'[n] = uploads[n]
        \/ /\ comments'[n] >= comments[n] /\ uploads'[n] >= uploads[n]
           /\ n \in DOMAIN queue /\ n \in repeated'
  BY <1>3, <1>6, <1>7
<1>10. QED
  BY <1>1, <1>2, <1>4, <1>5, <1>8, <1>9, QuietStep

LEMMA LookUpKeeps ==
  ASSUME QueueInv, NEW f \in Syncs, LookUp(f)
  PROVE  QueueInv'
<1> DEFINE u == OwnerAtHand(f)
           q == [sync[f] EXCEPT !.asked = @ \cup {u}, !.pats = @ \cup ({u} \cap token)]
<1>1. sync[f].pc = "send" /\ ~\E n \in DOMAIN queue : Recording(sync[f], n)
  BY DEF LookUp, Recording
<1>2. /\ sync \in [Syncs -> Sync] /\ comments \in [QueueRows -> Nat] /\ uploads \in [QueueRows -> Nat]
      /\ repeated \subseteq QueueRows /\ mishaps \in 0..MaxMishaps /\ Tidy(sync[f])
  BY DEF QueueInv, SyncTypeOK, TidySyncs
<1>3. u \in Owners
  <2>1. queue[AtHand(f)] \in QueueRow
    BY <1>1, AtHandIsHeld DEF QueueInv, SyncTypeOK
  <2>2. QED
    BY <2>1 DEF OwnerAtHand, QueueRow
<1> HIDE DEF u
<1>4. q \in Sync /\ q.pc = "send" /\ q.todo = sync[f].todo /\ q.went = sync[f].went
  BY <1>1, <1>2, <1>3 DEF Sync
<1>5. /\ Tidy(q) /\ HandOf(q) = HandOf(sync[f])
      /\ \A n : ReadUploaded(sync[f], n) => ReadUploaded(q, n)
  BY <1>1, <1>2, <1>4 DEF Tidy, HandOf, ReadUploaded
<1>6. sync' = [sync EXCEPT ![f] = q]
      /\ UNCHANGED <<note, link, issue, queue, token, forward, comments, uploads, repeated, excused, mishaps>>
  BY <1>2 DEF LookUp, u
<1> HIDE DEF q
<1>7. QED
  BY <1>1, <1>2, <1>4, <1>5, <1>6, QuietStep

LEMMA CrashKeeps ==
  ASSUME QueueInv, NEW f \in Syncs, SyncCrashes(f)
  PROVE  QueueInv'
<1>1. /\ comments \in [QueueRows -> Nat] /\ uploads \in [QueueRows -> Nat]
      /\ repeated \subseteq QueueRows /\ mishaps \in 0..MaxMishaps /\ MaxMishaps \in Nat
  BY SyncAssumption DEF QueueInv, SyncTypeOK
<1>2. mishaps' \in 0..MaxMishaps /\ sync' = [sync EXCEPT ![f] = NoSync]
      /\ UNCHANGED <<note, link, issue, queue, token, forward, comments, uploads, excused>>
  BY <1>1 DEF SyncCrashes, Mishap
<1>3. AtHand(f) \in QueueRows
  BY AtHandIsHeld DEF SyncCrashes
<1>4. repeated \subseteq repeated' /\ repeated' \subseteq QueueRows
  BY <1>1, <1>3 DEF SyncCrashes
<1>5. \A n \in DOMAIN queue : Recording(sync[f], n) => n \in repeated'
  BY DEF SyncCrashes, Recording, AtHand, Row
<1>6. NoSync.pc # "mark"
  BY DEF NoSync
<1>7. QED
  BY <1>1, <1>2, <1>4, <1>5, <1>6, NoSyncIsTidy, QuietStep

\* The photos are uploaded: they had not been before, or the row is on record as repeated.
LEMMA UploadKeeps ==
  ASSUME QueueInv, NEW f \in Syncs, Upload(f), NEW c, c = AtHand(f)
  PROVE  QueueInv'
<1> DEFINE todo == sync[f].todo
<1> USE DEF QueueInv
<1>1. /\ sync[f].pc = "send" /\ ~Row(f).uploaded
      /\ UNCHANGED <<note, link, issue, token, forward, comments, repeated, excused, mishaps>>
  BY DEF Upload, MaySend, PhotosFirst
<1>2. /\ sync[f] \in Sync /\ todo \in Seq(RowRead) /\ todo # <<>> /\ 1 \in DOMAIN todo
      /\ Row(f) = todo[1] /\ Row(f) \in RowRead /\ c = todo[1].row
      /\ c \in HandOf(sync[f]) /\ c \in DOMAIN queue /\ c \in QueueRows
  BY <1>1, AtHandIsHeld DEF AtHand
<1>3. /\ sync \in [Syncs -> Sync] /\ queue \in Seq(QueueRow) /\ uploads \in [QueueRows -> Nat]
      /\ DOMAIN queue \subseteq QueueRows
  BY QueueRowsOnly DEF SyncTypeOK
<1>4. PICK new : new = [todo EXCEPT ![1].uploaded = TRUE]
  OBVIOUS
<1>5. /\ new \in Seq(RowRead) /\ new # <<>> /\ DOMAIN new = DOMAIN todo
      /\ \A i \in DOMAIN todo : /\ new[i].row = todo[i].row /\ new[i].status = todo[i].status
                                /\ new[i].tries = todo[i].tries
                                /\ todo[i].uploaded => new[i].uploaded
      /\ new[1].uploaded /\ Head(new).row = Head(todo).row
  <2>1. [todo[1] EXCEPT !.uploaded = TRUE] \in RowRead
    BY <1>2 DEF RowRead
  <2>2. new = [todo EXCEPT ![1] = [todo[1] EXCEPT !.uploaded = TRUE]]
    BY <1>4
  <2>3. /\ new \in Seq(RowRead) /\ Len(new) = Len(todo) /\ new[1] = [todo[1] EXCEPT !.uploaded = TRUE]
        /\ \A i \in 1..Len(todo) : i # 1 => new[i] = todo[i]
    BY <1>2, <2>1, <2>2, ExceptSeq
  <2>4. DOMAIN new = 1..Len(new) /\ DOMAIN todo = 1..Len(todo) /\ 1 \in DOMAIN new
    BY <1>2, <2>3
  <2>5. new[1].uploaded /\ new[1].row = todo[1].row /\ new[1].status = todo[1].status
        /\ new[1].tries = todo[1].tries
    BY <1>2, <2>3 DEF RowRead
  <2>6. new # <<>> /\ Head(new) = new[1] /\ Head(todo) = todo[1]
    BY <1>2, <2>3, <2>4
  <2>7. QED
    BY <2>3, <2>4, <2>5, <2>6
<1>6. PICK q : q = [sync[f] EXCEPT !.todo = new]
  OBVIOUS
<1>7. q \in Sync /\ q.pc = "send" /\ q.todo = new /\ q.went = sync[f].went
  BY <1>1, <1>2, <1>5, <1>6 DEF Sync
<1>8. Tidy(q) /\ HandOf(q) = HandOf(sync[f])
  <2>1. Tidy(sync[f])
    BY DEF TidySyncs
  <2>2. Tidy(q)
    BY <1>1, <1>5, <1>7, <2>1 DEF Tidy
  <2>3. HandOf(q) = HandOf(sync[f])
    BY <1>5, <1>7 DEF HandOf
  <2>4. QED
    BY <2>2, <2>3
<1>9. /\ sync' = [sync EXCEPT ![f] = q] /\ sync'[f] = q
      /\ \A g \in Syncs : g # f => sync'[g] = sync[g]
  <2>1. sync' = [sync EXCEPT ![f].todo[1].uploaded = TRUE]
    BY DEF Upload
  <2>2. QED
    BY <1>2, <1>3, <1>4, <1>6, <2>1
<1>10. PICK r : r = [queue[c] EXCEPT !.uploaded = TRUE]
  OBVIOUS
<1>11. queue[c] \in QueueRow
  BY <1>2, <1>3
<1>12. /\ r \in QueueRow /\ r.uploaded /\ r.note = queue[c].note /\ r.issue = queue[c].issue
       /\ r.status = queue[c].status /\ r.tries = queue[c].tries
  BY <1>10, <1>11 DEF QueueRow
<1>13. /\ queue' \in Seq(QueueRow) /\ DOMAIN queue' = DOMAIN queue
       /\ queue'[c] = r /\ \A n \in DOMAIN queue : n # c => queue'[n] = queue[n]
  <2>1. queue' = [queue EXCEPT ![c] = r]
    BY <1>10 DEF Upload
  <2>2. QED
    BY <1>2, <1>3, <1>12, <2>1, ExceptSeq
<1>14. /\ uploads' \in [QueueRows -> Nat] /\ uploads'[c] = uploads[c] + 1
       /\ \A n \in QueueRows : n # c => uploads'[n] = uploads[n]
  BY <1>2, <1>3 DEF Upload
<1>15. SyncTypeOK'
  BY <1>1, <1>3, <1>7, <1>9, <1>13, <1>14 DEF SyncTypeOK
<1>16. OneRowPerComment' /\ FreshQueue'
  BY <1>12, <1>13 DEF OneRowPerComment, FreshQueue
<1>17. Anchored' /\ UnqueuedSilent'
  BY <1>1, <1>2, <1>12, <1>13, <1>14 DEF Anchored, UnqueuedSilent
<1>18. TidySyncs'
  <2>1. \A n \in DOMAIN queue : queue[n].status # "pending" => queue'[n].status # "pending"
    BY <1>12, <1>13
  <2>2. ASSUME NEW g \in Syncs
        PROVE  Tidy(sync'[g]) /\ (sync'[g].pc = "mark" /\ sync'[g].went => comments'[Head(sync'[g].todo).row] > 0)
    BY <1>1, <1>7, <1>8, <1>9 DEF TidySyncs, Tidy
  <2>3. ASSUME NEW g \in Syncs
        PROVE  Tidy(sync[g])'
    BY <1>13, <2>1, <2>2, TidyKept
  <2>4. QED
    BY <2>3 DEF TidySyncs
<1>19. OverlapsKnown'
  BY <1>1, <1>8, <1>9 DEF OverlapsKnown
<1>20. CommentsKnown'
  <2>1. SUFFICES ASSUME NEW n \in DOMAIN queue, n \notin repeated, comments[n] > 0
                 PROVE  /\ comments[n] = 1
                        /\ \/ queue'[n].status = "sent" /\ \A g \in Syncs : n \notin HandOf(sync'[g])
                           \/ \E g \in Syncs : Recording(sync'[g], n)
    BY <1>1, <1>13 DEF CommentsKnown, Recording, HandOf
  <2>2. queue'[n].status = queue[n].status
    BY <1>12, <1>13
  <2>3. \A g \in Syncs : Recording(sync[g], n) => Recording(sync'[g], n)
    BY <1>1, <1>9 DEF Recording
  <2>4. QED
    BY <1>8, <1>9, <2>1, <2>2, <2>3 DEF CommentsKnown
<1>21. UploadsKnown'
  <2>1. ASSUME NEW n \in DOMAIN queue, n \notin repeated, uploads'[n] > 0
        PROVE  uploads'[n] = 1 /\ queue'[n].uploaded /\ \A g \in Syncs : ReadUploaded(sync'[g], n)
    <3>1. CASE n = c
      <4>1. ~(uploads[c] > 0)
        BY <1>1, <1>2, <2>1, <3>1 DEF UploadsKnown, ReadUploaded
      <4>2. uploads'[n] = 1
        BY <1>2, <1>3, <1>14, <3>1, <4>1
      <4>3. queue'[n].uploaded
        BY <1>12, <1>13, <3>1
      <4>4. ReadUploaded(q, n)
        <5>1. \A i \in DOMAIN todo : todo[i].row = c => i = 1
          BY <1>2 DEF TidySyncs, Tidy
        <5>2. QED
          BY <1>5, <1>7, <3>1, <5>1 DEF ReadUploaded
      <4>5. ASSUME NEW g \in Syncs, g # f
            PROVE  ReadUploaded(sync[g], n)
        BY <1>2, <2>1, <3>1, <4>5 DEF OverlapsKnown, ReadUploaded, HandOf
      <4>6. QED
        BY <1>9, <4>2, <4>3, <4>4, <4>5
    <3>2. CASE n # c
      <4>1. uploads'[n] = uploads[n] /\ queue'[n] = queue[n]
        BY <1>3, <1>13, <1>14, <3>2
      <4>2. uploads[n] = 1 /\ queue[n].uploaded /\ \A g \in Syncs : ReadUploaded(sync[g], n)
        BY <2>1, <4>1 DEF UploadsKnown
      <4>3. ReadUploaded(q, n)
        BY <1>5, <1>7, <4>2 DEF ReadUploaded
      <4>4. QED
        BY <1>9, <4>1, <4>2, <4>3
    <3>3. QED
      BY <3>1, <3>2
  <2>2. QED
    BY <1>1, <1>13, <2>1 DEF UploadsKnown, ReadUploaded
<1>22. QED
  BY <1>15, <1>16, <1>17, <1>18, <1>19, <1>20, <1>21

\* A comment that is added: Jira did not have it before, or its row is on record as repeated.
LEMMA CommentKeeps ==
  ASSUME QueueInv, NEW f \in Syncs, Comment(f), NEW c, c = AtHand(f)
  PROVE  QueueInv'
<1> USE DEF QueueInv
<1>1. sync[f].pc = "send"
      /\ UNCHANGED <<note, link, issue, queue, token, forward, uploads, repeated, excused, mishaps>>
  BY DEF Comment, MaySend
<1>2. /\ sync[f] \in Sync /\ sync[f].todo \in Seq(RowRead) /\ sync[f].todo # <<>>
      /\ Head(sync[f].todo).row = c
      /\ c \in HandOf(sync[f]) /\ c \in DOMAIN queue /\ c \in QueueRows
  BY <1>1, AtHandIsHeld DEF AtHand, Row
<1>3. /\ sync \in [Syncs -> Sync] /\ comments \in [QueueRows -> Nat] /\ DOMAIN queue \subseteq QueueRows
  BY QueueRowsOnly DEF SyncTypeOK
<1>4. PICK q : q = [sync[f] EXCEPT !.pc = "mark", !.went = TRUE]
  OBVIOUS
<1>5. q \in Sync /\ q.pc = "mark" /\ q.went /\ q.todo = sync[f].todo
  BY <1>2, <1>4 DEF Sync
<1>6. HandOf(q) = HandOf(sync[f]) /\ Recording(q, c)
      /\ \A n : ReadUploaded(sync[f], n) => ReadUploaded(q, n)
  BY <1>2, <1>5 DEF HandOf, Recording, ReadUploaded
<1>7. /\ sync' = [sync EXCEPT ![f] = q] /\ sync'[f] = q
      /\ \A g \in Syncs : g # f => sync'[g] = sync[g]
  BY <1>3, <1>4 DEF Comment, Verdict
<1>8. /\ comments' = [comments EXCEPT ![c] = @ + 1] /\ comments' \in [QueueRows -> Nat]
      /\ comments'[c] = comments[c] + 1 /\ \A n \in QueueRows : n # c => comments'[n] = comments[n]
  BY <1>2, <1>3 DEF Comment
<1>9. SyncTypeOK'
  BY <1>1, <1>3, <1>5, <1>7, <1>8 DEF SyncTypeOK
<1>10. OneRowPerComment' /\ Anchored' /\ FreshQueue' /\ UnqueuedSilent'
  BY <1>1, <1>2, <1>8 DEF OneRowPerComment, Anchored, FreshQueue, UnqueuedSilent
<1>11. TidySyncs'
  <2>1. ASSUME NEW g \in Syncs, g # f
        PROVE  Tidy(sync[g])'
    <3>1. Tidy(sync[g]) /\ sync'[g] = sync[g]
      BY <1>7, <2>1 DEF TidySyncs
    <3>2. sync[g].pc = "mark" /\ sync[g].went => comments'[AtHand(g)] > 0
      <4>1. SUFFICES ASSUME sync[g].pc = "mark", sync[g].went
                     PROVE  comments'[AtHand(g)] > 0
        OBVIOUS
      <4>2. AtHand(g) \in QueueRows
        BY <4>1, AtHandIsHeld
      <4>3. comments[AtHand(g)] > 0
        BY <3>1, <4>1 DEF Tidy, AtHand, Row
      <4>4. comments[AtHand(g)] \in Nat /\ comments[c] \in Nat
        BY <1>2, <1>3, <4>2
      <4>5. QED
        BY <1>8, <4>2, <4>3, <4>4
    <3>3. QED
      BY <1>1, <3>1, <3>2 DEF Tidy, AtHand, Row
  <2>2. Tidy(sync[f])'
    <3>1. Tidy(sync[f]) /\ comments'[c] > 0
      BY <1>2, <1>3, <1>8 DEF TidySyncs
    <3>2. Tidy(q)'
      BY <1>1, <1>2, <1>5, <3>1 DEF Tidy
    <3>3. QED
      BY <1>7, <3>2 DEF Tidy
  <2>3. QED
    BY <2>1, <2>2 DEF TidySyncs
<1>12. OverlapsKnown'
  BY <1>1, <1>6, <1>7 DEF OverlapsKnown
<1>13. CommentsKnown'
  <2>1. SUFFICES ASSUME NEW n \in DOMAIN queue, n \notin repeated, comments'[n] > 0
                 PROVE  /\ comments'[n] = 1
                        /\ \/ queue[n].status = "sent" /\ \A g \in Syncs : n \notin HandOf(sync'[g])
                           \/ \E g \in Syncs : Recording(sync'[g], n)
    BY <1>1 DEF CommentsKnown, Recording, HandOf
  <2>2. CASE n = c
    <3>1. ~(comments[c] > 0)
      <4>1. SUFFICES ASSUME comments[c] > 0
                     PROVE  FALSE
        OBVIOUS
      <4>2. PICK g \in Syncs : Recording(sync[g], c)
        BY <1>2, <2>1, <2>2, <4>1 DEF CommentsKnown
      <4>3. g # f /\ c \in HandOf(sync[g])
        BY <1>1, <4>2, AtHandIsHeld DEF Recording, AtHand, Row
      <4>4. QED
        BY <1>2, <2>1, <2>2, <4>3 DEF OverlapsKnown
    <3>2. comments'[n] = 1
      BY <1>2, <1>3, <1>8, <2>2, <3>1
    <3>3. QED
      BY <1>6, <1>7, <2>2, <3>2
  <2>3. CASE n # c
    <3>1. comments'[n] = comments[n]
      BY <1>3, <1>8, <2>3
    <3>2. comments[n] = 1
      BY <2>1, <3>1 DEF CommentsKnown
    <3>3. CASE queue[n].status = "sent" /\ \A g \in Syncs : n \notin HandOf(sync[g])
      BY <1>6, <1>7, <3>1, <3>2, <3>3
    <3>4. CASE \E g \in Syncs : Recording(sync[g], n)
      <4>1. PICK g \in Syncs : Recording(sync[g], n)
        BY <3>4
      <4>2. g # f
        BY <1>1, <4>1 DEF Recording
      <4>3. QED
        BY <1>7, <3>1, <3>2, <4>1, <4>2
    <3>5. QED
      BY <2>1, <3>1, <3>3, <3>4 DEF CommentsKnown
  <2>4. QED
    BY <2>2, <2>3
<1>14. UploadsKnown'
  <2>1. ASSUME NEW n \in DOMAIN queue, n \notin repeated, uploads[n] > 0
        PROVE  \A g \in Syncs : ReadUploaded(sync'[g], n)
    BY <1>6, <1>7, <2>1 DEF UploadsKnown
  <2>2. QED
    BY <1>1, <2>1 DEF UploadsKnown, ReadUploaded
<1>15. QED
  BY <1>9, <1>10, <1>11, <1>12, <1>13, <1>14

\* _mark: what is recorded of a row is what came of it.
LEMMA SettledIsRow ==
  ASSUME QueueInv, NEW f \in Syncs, sync[f].pc = "mark", NEW c, c = AtHand(f)
  PROVE  LET r == Settled(f, c)
         IN  /\ r \in QueueRow /\ r.note = queue[c].note /\ r.issue = queue[c].issue
             /\ r.uploaded = queue[c].uploaded
             /\ r.status # "pending"
             /\ sync[f].went => r.status = "sent"
             /\ ~sync[f].went => r.status = Written("failed", Row(f).status, queue[c].status)
<1>1. /\ 1 \in DOMAIN sync[f].todo /\ Row(f) = sync[f].todo[1] /\ Row(f) \in RowRead
      /\ c \in DOMAIN queue /\ c = Row(f).row
  BY AtHandIsHeld DEF AtHand
<1>2. queue[c] \in QueueRow
  BY <1>1 DEF QueueInv, SyncTypeOK
<1>3. Tidy(sync[f])
  BY DEF QueueInv, TidySyncs
<1>4. /\ Row(f).status # "sent" /\ Row(f).tries < MaxTries
      /\ Row(f).status = "failed" => queue[c].status # "pending"
  BY <1>1, <1>3 DEF Tidy
<1>5. Row(f).tries + 1 \in 0..MaxTries
  BY <1>1, <1>4, SyncAssumption DEF RowRead
<1>6. Settled(f, c).tries \in 0..MaxTries
  BY <1>2, <1>5 DEF Settled, QueueRow
<1>7. /\ Settled(f, c).status \in {"sent", "failed"}
      /\ sync[f].went => Settled(f, c).status = "sent"
      /\ ~sync[f].went => Settled(f, c).status = Written("failed", Row(f).status, queue[c].status)
  BY <1>1, <1>2, <1>4 DEF Settled, QueueRow, Written, RowRead
<1>8. Settled(f, c) \in QueueRow /\ Settled(f, c).note = queue[c].note
      /\ Settled(f, c).issue = queue[c].issue /\ Settled(f, c).uploaded = queue[c].uploaded
  BY <1>2, <1>6, <1>7 DEF Settled, QueueRow
<1>9. QED
  BY <1>7, <1>8

LEMMA SettleKeeps ==
  ASSUME QueueInv, NEW f \in Syncs, Settle(f), NEW c, c = AtHand(f)
  PROVE  QueueInv'
<1> USE DEF QueueInv
<1>1. /\ sync[f].pc = "mark"
      /\ UNCHANGED <<note, link, issue, token, forward, comments, uploads, repeated, excused, mishaps>>
  BY DEF Settle
<1>2. c \in HandOf(sync[f]) /\ c \in DOMAIN queue /\ c \in QueueRows
  BY <1>1, AtHandIsHeld
<1>3. PICK q, r : q = NextRow(f) /\ r = Settled(f, c)
  OBVIOUS
<1>4. /\ q \in Sync /\ Tidy(q) /\ HandOf(q) = HandOf(sync[f]) \ {c} /\ q.pc # "mark"
      /\ \A n : ReadUploaded(sync[f], n) => ReadUploaded(q, n)
  BY <1>1, <1>3, NextRowIsTidy
<1>5. /\ r \in QueueRow /\ r.note = queue[c].note /\ r.issue = queue[c].issue
      /\ r.uploaded = queue[c].uploaded /\ r.status # "pending"
      /\ sync[f].went => r.status = "sent"
  BY <1>1, <1>3, SettledIsRow
<1>6. /\ sync \in [Syncs -> Sync] /\ queue \in Seq(QueueRow) /\ DOMAIN queue \subseteq QueueRows
  BY QueueRowsOnly DEF SyncTypeOK
<1>7. /\ sync' = [sync EXCEPT ![f] = q] /\ sync'[f] = q
      /\ \A g \in Syncs : g # f => sync'[g] = sync[g]
  BY <1>3, <1>6 DEF Settle
<1>8. /\ queue' \in Seq(QueueRow) /\ DOMAIN queue' = DOMAIN queue
      /\ queue'[c] = r /\ \A n \in DOMAIN queue : n # c => queue'[n] = queue[n]
  <2>1. queue' = [queue EXCEPT ![c] = r]
    BY <1>3 DEF Settle
  <2>2. QED
    BY <1>2, <1>5, <1>6, <2>1, ExceptSeq
<1>9. SyncTypeOK'
  BY <1>1, <1>4, <1>6, <1>7, <1>8 DEF SyncTypeOK
<1>10. OneRowPerComment' /\ FreshQueue'
  BY <1>5, <1>8 DEF OneRowPerComment, FreshQueue
<1>11. Anchored' /\ UnqueuedSilent'
  BY <1>1, <1>5, <1>8 DEF Anchored, UnqueuedSilent
<1>12. TidySyncs'
  <2>1. \A n \in DOMAIN queue : queue[n].status # "pending" => queue'[n].status # "pending"
    BY <1>5, <1>8
  <2>2. ASSUME NEW g \in Syncs
        PROVE  Tidy(sync'[g]) /\ (sync'[g].pc = "mark" /\ sync'[g].went => comments'[Head(sync'[g].todo).row] > 0)
    <3>1. CASE g = f
      BY <1>4, <1>7, <3>1
    <3>2. CASE g # f
      BY <1>1, <1>7, <3>2 DEF TidySyncs, Tidy
    <3>3. QED
      BY <3>1, <3>2
  <2>3. ASSUME NEW g \in Syncs
        PROVE  Tidy(sync[g])'
    BY <1>8, <2>1, <2>2, TidyKept
  <2>4. QED
    BY <2>3 DEF TidySyncs
<1>13. OverlapsKnown'
  BY <1>1, <1>4, <1>7 DEF OverlapsKnown
<1>14. CommentsKnown'
  <2>1. SUFFICES ASSUME NEW n \in DOMAIN queue, n \notin repeated, comments[n] > 0
                 PROVE  /\ comments[n] = 1
                        /\ \/ queue'[n].status = "sent" /\ \A g \in Syncs : n \notin HandOf(sync'[g])
                           \/ \E g \in Syncs : Recording(sync'[g], n)
    BY <1>1, <1>8 DEF CommentsKnown, Recording, HandOf
  <2>2. comments[n] = 1
    BY <2>1 DEF CommentsKnown
  <2>3. CASE n = c
    <3>1. \A g \in Syncs : g # f => n \notin HandOf(sync[g])
      BY <1>2, <2>1, <2>3 DEF OverlapsKnown
    <3>2. sync[f].went
      <4>1. PICK g \in Syncs : Recording(sync[g], n)
        BY <1>2, <2>1, <2>3 DEF CommentsKnown
      <4>2. n \in HandOf(sync[g])
        BY <4>1, AtHandIsHeld DEF Recording, AtHand, Row
      <4>3. QED
        BY <3>1, <4>1, <4>2 DEF Recording
    <3>3. queue'[n].status = "sent"
      BY <1>5, <1>8, <2>3, <3>2
    <3>4. \A g \in Syncs : n \notin HandOf(sync'[g])
      BY <1>4, <1>7, <2>3, <3>1
    <3>5. QED
      BY <2>2, <3>3, <3>4
  <2>4. CASE n # c
    <3>1. CASE queue[n].status = "sent" /\ \A g \in Syncs : n \notin HandOf(sync[g])
      BY <1>4, <1>7, <1>8, <2>2, <2>4, <3>1
    <3>2. CASE \E g \in Syncs : Recording(sync[g], n)
      <4>1. PICK g \in Syncs : Recording(sync[g], n)
        BY <3>2
      <4>2. g # f
        BY <2>4, <4>1 DEF Recording, AtHand, Row
      <4>3. QED
        BY <1>7, <2>2, <4>1, <4>2
    <3>3. QED
      BY <2>1, <3>1, <3>2 DEF CommentsKnown
  <2>5. QED
    BY <2>3, <2>4
<1>15. UploadsKnown'
  <2>1. ASSUME NEW n \in DOMAIN queue, n \notin repeated, uploads[n] > 0
        PROVE  uploads[n] = 1 /\ queue'[n].uploaded /\ \A g \in Syncs : ReadUploaded(sync'[g], n)
    <3>1. uploads[n] = 1 /\ queue[n].uploaded /\ \A g \in Syncs : ReadUploaded(sync[g], n)
      BY <2>1 DEF UploadsKnown
    <3>2. queue'[n].uploaded
      BY <1>5, <1>8, <3>1
    <3>3. QED
      BY <1>4, <1>7, <3>1, <3>2
  <2>2. QED
    BY <1>1, <1>8, <2>1 DEF UploadsKnown, ReadUploaded
<1>16. QED
  BY <1>9, <1>10, <1>11, <1>12, <1>13, <1>14, <1>15

\* What a flush may hold besides another one is on record once the other has read it.
Overlap(f) == ToSet(SyncBatch(f)) \cap UNION {SyncHas(g) : g \in Syncs \ {f}}

\* A flush that reads its rows: what another one holds already is on record from now on.
LEMMA SelectKeeps ==
  ASSUME QueueInv, NEW f \in Syncs, SyncSelect(f)
  PROVE  QueueInv'
<1> DEFINE Reading(n) ==
             [row |-> n, status |-> queue[n].status, tries |-> queue[n].tries,
              uploaded |-> queue[n].uploaded, deleted |-> DeletedAsRead(f, queue[n].note),
              photo |-> note[queue[n].note].photo]
           batch == SyncBatch(f)
           todo == [i \in DOMAIN batch |-> Reading(batch[i])]
<1> USE DEF QueueInv
<1>1. PICK q : q = IF batch = <<>> THEN sync[f] ELSE [NoSync EXCEPT !.pc = "send", !.todo = todo]
  OBVIOUS
<1>2. /\ sync \in [Syncs -> Sync] /\ forward \in [Forwards -> Forward] /\ queue \in Seq(QueueRow)
      /\ note \in Seq(Note) /\ comments \in [QueueRows -> Nat] /\ uploads \in [QueueRows -> Nat]
      /\ repeated \subseteq QueueRows /\ DOMAIN queue \subseteq QueueRows
  BY QueueRowsOnly DEF SyncTypeOK
<1>3. /\ sync[f].pc = "idle" /\ sync' = [sync EXCEPT ![f] = q]
      /\ forward' = (IF f \in Forwards THEN [forward EXCEPT ![f] = NoForward] ELSE forward)
      /\ repeated' = repeated \cup Overlap(f)
      /\ UNCHANGED <<note, link, issue, queue, token, comments, uploads, excused, mishaps>>
  <2>1. sync[f].pc = "idle" /\ repeated' = repeated \cup Overlap(f)
        /\ forward' = (IF f \in Forwards THEN [forward EXCEPT ![f] = NoForward] ELSE forward)
        /\ UNCHANGED <<note, link, issue, queue, token, comments, uploads, excused, mishaps>>
    BY DEF SyncSelect, Overlap
  <2>2. sync' = [sync EXCEPT ![f] = q]
    BY <1>1, <1>2 DEF SyncSelect
  <2>3. QED
    BY <2>1, <2>2
<1>4. /\ batch \in Seq(DOMAIN queue)
      /\ \A i \in DOMAIN batch : batch[i] \in DOMAIN queue /\ ToSend(batch[i])
      /\ \A i, j \in DOMAIN batch : batch[i] = batch[j] => i = j
  BY BatchWaits
<1> HIDE DEF batch
<1>5. ASSUME NEW i \in DOMAIN batch
      PROVE  /\ todo[i] \in RowRead /\ todo[i].row = batch[i]
             /\ todo[i].status = queue[batch[i]].status
             /\ todo[i].status # "sent" /\ todo[i].tries < MaxTries
             /\ todo[i].uploaded = queue[batch[i]].uploaded
  <2>1. /\ batch[i] \in DOMAIN queue /\ queue[batch[i]] \in QueueRow /\ batch[i] \in QueueRows
        /\ todo[i] = Reading(batch[i]) /\ ToSend(batch[i])
    BY <1>2, <1>4
  <2>2. queue[batch[i]].note \in DOMAIN note
    BY <2>1 DEF Anchored
  <2>3. note[queue[batch[i]].note] \in Note
    BY <1>2, <2>2
  <2>4. note[queue[batch[i]].note].photo \in BOOLEAN /\ DeletedAsRead(f, queue[batch[i]].note) \in BOOLEAN
    <3>1. note[queue[batch[i]].note].photo \in BOOLEAN /\ note[queue[batch[i]].note].deleted \in BOOLEAN
      BY <2>3 DEF Note
    <3>2. QED
      BY <3>1 DEF DeletedAsRead
  <2>5. Reading(batch[i]) \in RowRead
    BY <2>1, <2>4 DEF RowRead, QueueRow
  <2>6. queue[batch[i]].status # "sent" /\ queue[batch[i]].tries < MaxTries
    BY <2>1, SyncAssumption DEF ToSend, FreshQueue
  <2>7. QED
    BY <2>1, <2>5, <2>6
<1>6. DOMAIN todo = DOMAIN batch /\ DOMAIN batch = 1..Len(batch) /\ Len(batch) \in Nat
  BY <1>4
<1>7. todo \in Seq(RowRead)
  <2>1. todo = [i \in 1..Len(batch) |-> todo[i]]
    BY <1>6
  <2>2. QED
    BY <1>5, <1>6, <2>1
<1> HIDE DEF todo
<1>8. /\ q \in Sync /\ Tidy(q) /\ HandOf(q) = ToSet(batch) /\ q.pc # "mark"
      /\ \A i \in DOMAIN q.todo : q.todo[i].uploaded = queue[q.todo[i].row].uploaded
  <2>1. CASE batch = <<>>
    <3>1. sync[f] \in Sync /\ Tidy(sync[f]) /\ q = sync[f] /\ q.pc = "idle" /\ q.todo = <<>>
      BY <1>1, <1>2, <1>3, <2>1 DEF TidySyncs, Tidy
    <3>2. HandOf(q) = {} /\ ToSet(batch) = {}
      BY <2>1, <3>1 DEF HandOf, ToSet
    <3>3. QED
      BY <3>1, <3>2
  <2>2. CASE batch # <<>>
    <3>1. q = [pc |-> "send", todo |-> todo, went |-> FALSE, asked |-> {}, pats |-> {}]
      BY <1>1, <2>2 DEF NoSync
    <3>2. todo # <<>>
      <4>1. DOMAIN batch # {}
        BY <1>4, <1>6, <2>2, EmptySeq
      <4>2. QED
        BY <1>6, <4>1
    <3>3. q \in Sync /\ HandOf(q) = ToSet(batch) /\ q.pc = "send" /\ q.todo = todo /\ ~q.went
      BY <1>5, <1>6, <1>7, <3>1 DEF Sync, HandOf, ToSet
    <3>4. Tidy(q)
      BY <1>4, <1>5, <1>6, <3>2, <3>3 DEF Tidy
    <3>5. QED
      BY <1>5, <1>6, <3>3, <3>4
  <2>3. QED
    BY <2>1, <2>2
<1>9. sync'[f] = q /\ \A g \in Syncs : g # f => sync'[g] = sync[g]
  BY <1>2, <1>3
<1>10. HandOf(q) \subseteq DOMAIN queue
  BY <1>4, <1>8 DEF ToSet
<1>11. NoForward \in Forward /\ NoForward.pc = "idle" /\ NoForward.notes = {}
  BY DEF NoForward, Forward
<1>12. SyncTypeOK'
  <2>1. repeated' \subseteq QueueRows
    <3>1. Overlap(f) \subseteq ToSet(batch)
      BY DEF Overlap, batch
    <3>2. QED
      BY <1>2, <1>3, <1>8, <1>10, <3>1
  <2>2. sync' \in [Syncs -> Sync] /\ forward' \in [Forwards -> Forward]
    BY <1>2, <1>3, <1>8, <1>11
  <2>3. QED
    BY <1>3, <2>1, <2>2 DEF SyncTypeOK
<1>13. OneRowPerComment' /\ FreshQueue' /\ UnqueuedSilent'
  BY <1>3 DEF OneRowPerComment, FreshQueue, UnqueuedSilent
<1>14. Anchored'
  <2>1. \A r \in Forwards : forward'[r] = forward[r] \/ forward'[r] = NoForward
    BY <1>2, <1>3
  <2>2. QED
    BY <1>3, <1>11, <2>1 DEF Anchored
<1>15. TidySyncs'
  <2>1. ASSUME NEW g \in Syncs
        PROVE  Tidy(sync'[g])
    BY <1>8, <1>9 DEF TidySyncs
  <2>2. ASSUME NEW g \in Syncs
        PROVE  Tidy(sync[g])'
    BY <1>3, <2>1 DEF Tidy
  <2>3. QED
    BY <2>2 DEF TidySyncs
<1>16. \A g \in Syncs : g # f => HandOf(q) \cap HandOf(sync[g]) \subseteq Overlap(f)
  BY <1>8 DEF Overlap, SyncHas, HandOf, batch
<1>17. OverlapsKnown'
  BY <1>3, <1>9, <1>16 DEF OverlapsKnown
<1>18. CommentsKnown'
  <2>1. SUFFICES ASSUME NEW n \in DOMAIN queue, n \notin repeated', comments[n] > 0
                 PROVE  /\ comments[n] = 1
                        /\ \/ queue[n].status = "sent" /\ \A g \in Syncs : n \notin HandOf(sync'[g])
                           \/ \E g \in Syncs : Recording(sync'[g], n)
    BY <1>3 DEF CommentsKnown, Recording, HandOf
  <2>2. n \notin repeated /\ comments[n] = 1
    BY <1>3, <2>1 DEF CommentsKnown
  <2>3. CASE queue[n].status = "sent" /\ \A g \in Syncs : n \notin HandOf(sync[g])
    <3>1. n \notin HandOf(q)
      BY <1>4, <1>8, <2>3 DEF ToSet, ToSend
    <3>2. QED
      BY <1>9, <2>2, <2>3, <3>1
  <2>4. CASE \E g \in Syncs : Recording(sync[g], n)
    <3>1. PICK g \in Syncs : Recording(sync[g], n)
      BY <2>4
    <3>2. g # f
      BY <1>3, <3>1 DEF Recording
    <3>3. QED
      BY <1>9, <2>2, <3>1, <3>2
  <2>5. QED
    BY <2>1, <2>2, <2>3, <2>4 DEF CommentsKnown
<1>19. UploadsKnown'
  <2>1. ASSUME NEW n \in DOMAIN queue, n \notin repeated', uploads[n] > 0
        PROVE  uploads[n] = 1 /\ queue[n].uploaded /\ \A g \in Syncs : ReadUploaded(sync'[g], n)
    <3>1. uploads[n] = 1 /\ queue[n].uploaded /\ \A g \in Syncs : ReadUploaded(sync[g], n)
      BY <1>3, <2>1 DEF UploadsKnown
    <3>2. ReadUploaded(q, n)
      BY <1>8, <3>1 DEF ReadUploaded
    <3>3. QED
      BY <1>9, <3>1, <3>2
  <2>2. QED
    BY <1>3, <2>1 DEF UploadsKnown, ReadUploaded
<1>20. QED
  BY <1>12, <1>13, <1>14, <1>15, <1>17, <1>18, <1>19

\* The queue may grow by rows that wait; nothing else that the flushes see changes.
LEMMA GrowthKeeps ==
  ASSUME QueueInv,
         queue' \in Seq(QueueRow), OneRowPerComment', DOMAIN queue \subseteq DOMAIN queue',
         \A n \in DOMAIN queue : queue'[n] = queue[n],
         \A n \in DOMAIN queue' \ DOMAIN queue :
           queue'[n].status = "pending" /\ queue'[n].tries = 0,
         Anchored',
         note' \in Seq(Note), link' \in [Links -> Link], issue' \in Seq(IdemKeys \cup {NoOne}),
         token' \subseteq Owners, forward' \in [Forwards -> Forward],
         excused' \subseteq IdemKeys, mishaps' \in 0..MaxMishaps,
         UNCHANGED <<sync, comments, uploads, repeated>>
  PROVE  QueueInv'
<1> USE DEF QueueInv
<1>1. SyncTypeOK'
  BY DEF SyncTypeOK
<1>2. DOMAIN queue' \subseteq QueueRows
  BY KeysBoundTheQueue DEF OneRowPerComment
<1>3. FreshQueue' /\ UnqueuedSilent'
  BY DEF FreshQueue, UnqueuedSilent
<1>4. TidySyncs'
  BY DEF TidySyncs, Tidy
<1>5. OverlapsKnown'
  BY DEF OverlapsKnown, HandOf
<1>6. ASSUME NEW n \in DOMAIN queue', n \notin DOMAIN queue
      PROVE  ~(comments[n] > 0) /\ ~(uploads[n] > 0)
  BY <1>2, <1>6 DEF UnqueuedSilent
<1>7. CommentsKnown'
  BY <1>6 DEF CommentsKnown, Recording, HandOf
<1>8. UploadsKnown'
  BY <1>6 DEF UploadsKnown, ReadUploaded
<1>9. QED
  BY <1>1, <1>3, <1>4, <1>5, <1>7, <1>8

-----------------------------------------------------------------------------
(***************************************************************************)
(* The steps of notes, links, credentials and forwards.                    *)
(***************************************************************************)
\* Rows with keys of their own that go to the end of the queue.
LEMMA RowsJoin ==
  ASSUME queue \in Seq(QueueRow), OneRowPerComment, NEW new \in SUBSET QueueRow,
         \A r \in new : ~Queued(r.note, r.issue),
         \A r, s \in new : r.note = s.note /\ r.issue = s.issue => r = s,
         queue' = queue \o SetToSeq(new)
  PROVE  /\ queue' \in Seq(QueueRow) /\ OneRowPerComment'
         /\ DOMAIN queue \subseteq DOMAIN queue'
         /\ \A n \in DOMAIN queue : queue'[n] = queue[n]
         /\ \A n \in DOMAIN queue' \ DOMAIN queue : queue'[n] \in new
         /\ \A r \in new : \E n \in DOMAIN queue' : queue'[n] = r
<1> DEFINE s == SetToSeq(new)
           len == Len(queue)
<1>1. len \in Nat /\ DOMAIN queue = 1..len
  OBVIOUS
<1>2. IsFiniteSet(new)
  <2> DEFINE All == (1..MaxNotes) \X Issues
             key == [r \in new |-> <<r.note, r.issue>>]
  <2>1. IsFiniteSet(All)
    <3>1. IsFiniteSet(1..MaxNotes) /\ IsFiniteSet(Issues)
      BY SyncAssumption, FS_Interval DEF Issues
    <3>2. QED
      BY <3>1, FS_Product
  <2>2. key \in [new -> All]
    BY DEF QueueRow
  <2>3. \A r, t \in new : key[r] = key[t] => r = t
    OBVIOUS
  <2>4. key \in Injection(new, All)
    BY <2>2, <2>3 DEF Injection, IsInjective
  <2>5. QED
    BY <2>1, <2>4, FS_Injection
<1>3. /\ s \in Seq(new) /\ Len(s) \in Nat
      /\ \A i, j \in 1..Len(s) : s[i] = s[j] => i = j
      /\ \A r \in new : \E i \in 1..Len(s) : s[i] = r
  BY <1>2, SetToSeqEnumerates
<1> HIDE DEF s
<1>4. \A i \in 1..Len(s) : s[i] \in new
  BY <1>3
<1>5. /\ Len(queue') = len + Len(s) /\ DOMAIN queue' = 1..(len + Len(s))
      /\ queue' \in Seq(QueueRow)
      /\ \A n \in 1..len : queue'[n] = queue[n]
      /\ \A n \in (len + 1)..(len + Len(s)) : n - len \in 1..Len(s) /\ queue'[n] = s[n - len]
  <2>1. s \in Seq(QueueRow)
    BY <1>3
  <2>2. queue' = queue \o s
    BY DEF s
  <2>3. QED
    BY <1>1, <1>3, <2>1, <2>2, ConcatProperties
<1> HIDE DEF len
<1>6. \A n \in DOMAIN queue' \ DOMAIN queue :
        /\ n \in Int /\ n - len \in 1..Len(s)
        /\ queue'[n] = s[n - len] /\ queue'[n] \in new
  <2>1. ASSUME NEW n \in DOMAIN queue' \ DOMAIN queue
        PROVE  n \in (len + 1)..(len + Len(s))
    <3>1. len \in Nat /\ Len(s) \in Nat /\ n \in 1..(len + Len(s)) /\ n \notin 1..len
      BY <1>1, <1>3, <1>5
    <3>2. QED
      BY <3>1
  <2>2. QED
    BY <1>4, <1>5, <2>1
<1>7. OneRowPerComment'
  <2>1. SUFFICES ASSUME NEW m \in DOMAIN queue', NEW n \in DOMAIN queue',
                        queue'[m].note = queue'[n].note, queue'[m].issue = queue'[n].issue
                 PROVE  m = n
    BY DEF OneRowPerComment
  <2>2. CASE m \in DOMAIN queue /\ n \in DOMAIN queue
    BY <1>1, <1>5, <2>1, <2>2 DEF OneRowPerComment
  <2>3. CASE m \in DOMAIN queue /\ n \notin DOMAIN queue
    <3>1. queue'[n] \in new /\ Queued(queue'[m].note, queue'[m].issue)
      BY <1>1, <1>5, <1>6, <2>3 DEF Queued
    <3>2. QED
      BY <2>1, <3>1
  <2>4. CASE m \notin DOMAIN queue /\ n \in DOMAIN queue
    <3>1. queue'[m] \in new /\ Queued(queue'[n].note, queue'[n].issue)
      BY <1>1, <1>5, <1>6, <2>4 DEF Queued
    <3>2. QED
      BY <2>1, <3>1
  <2>5. CASE m \notin DOMAIN queue /\ n \notin DOMAIN queue
    <3>1. queue'[m] = queue'[n]
      BY <1>6, <2>1, <2>5
    <3>2. /\ m \in Int /\ m - len \in 1..Len(s) /\ queue'[m] = s[m - len]
          /\ n \in Int /\ n - len \in 1..Len(s) /\ queue'[n] = s[n - len]
      BY <1>6, <2>5
    <3>3. m - len = n - len
      BY <1>3, <3>1, <3>2
    <3>4. QED
      BY <1>1, <3>2, <3>3
  <2>6. QED
    BY <2>2, <2>3, <2>4, <2>5
<1>8. ASSUME NEW r \in new
      PROVE  \E n \in DOMAIN queue' : queue'[n] = r
  <2>1. PICK i \in 1..Len(s) : s[i] = r
    BY <1>3
  <2>2. len + i \in (len + 1)..(len + Len(s)) /\ (len + i) - len = i /\ len + i \in 1..(len + Len(s))
    BY <1>1, <1>3
  <2>3. queue'[len + i] = r
    BY <1>5, <2>1, <2>2
  <2>4. QED
    BY <1>5, <2>2, <2>3
<1>9. DOMAIN queue \subseteq DOMAIN queue' /\ \A n \in DOMAIN queue : queue'[n] = queue[n]
  <2>1. len \in Nat /\ Len(s) \in Nat
    BY <1>1, <1>3
  <2>2. QED
    BY <1>1, <1>5, <2>1
<1>10. queue' \in Seq(QueueRow)
  BY <1>5
<1>11. QED
  BY <1>6, <1>7, <1>8, <1>9, <1>10

\* A note that joins the table.
LEMMA NoteJoins ==
  ASSUME note \in Seq(Note), NEW m \in Note, note' = Append(note, m)
  PROVE  /\ note' \in Seq(Note) /\ Len(note') = Len(note) + 1
         /\ DOMAIN note' = DOMAIN note \cup {Len(note) + 1}
         /\ Len(note) + 1 \notin DOMAIN note
         /\ note'[Len(note) + 1] = m
         /\ \A n \in DOMAIN note : note'[n] = note[n]
<1>1. QED
  BY AppendProperties

\* The rows of a note: one for each issue, in the name of who linked it.
LEMMA RowsOfNote ==
  ASSUME QueueInv, NEW n \in DOMAIN note, NEW new, new = RowsFor(n)
  PROVE  /\ new \in SUBSET QueueRow
         /\ \A r \in new : r.note = n /\ r.status = "pending" /\ r.tries = 0
         /\ \A r, s \in new : r.issue = s.issue => r = s
         /\ \A i \in IssuesOf(note[n].wo) : \E r \in new : r.issue = i
<1>1. PICK w : w = note[n].wo
  OBVIOUS
<1>2. ASSUME NEW i \in IssuesOf(w)
      PROVE  i \in Issues /\ OwnerOf(w, i) \in Owners
  <2>1. PICK l \in Links : l.wo = w /\ l.issue = i /\ Syncing(l)
    BY DEF IssuesOf
  <2>2. link[l] \in Link /\ link[l].owner # NoOne
    BY <2>1 DEF QueueInv, SyncTypeOK, Syncing
  <2>3. link[l].owner \in Owners
    BY <2>2 DEF Link
  <2>4. \E u \in Owners : \E k \in Links : k.wo = w /\ k.issue = i /\ Syncing(k) /\ link[k].owner = u
    BY <2>1, <2>3
  <2>5. OwnerOf(w, i) \in Owners
    BY <2>4 DEF OwnerOf
  <2>6. QED
    BY <2>5 DEF IssuesOf
<1>3. n \in 1..MaxNotes
  <2>1. note \in Seq(Note) /\ Len(note) \in Nat /\ Len(note) <= MaxNotes /\ MaxNotes \in Nat
    BY SyncAssumption DEF QueueInv, SyncTypeOK, Anchored
  <2>2. QED
    BY <2>1
<1>4. ASSUME NEW i \in IssuesOf(w)
      PROVE  /\ Pending(n, i, OwnerOf(w, i)) \in QueueRow
             /\ Pending(n, i, OwnerOf(w, i)).note = n /\ Pending(n, i, OwnerOf(w, i)).issue = i
             /\ Pending(n, i, OwnerOf(w, i)).status = "pending" /\ Pending(n, i, OwnerOf(w, i)).tries = 0
  BY <1>2, <1>3, SyncAssumption DEF Pending, QueueRow
<1>5. new = {Pending(n, i, OwnerOf(w, i)) : i \in IssuesOf(w)}
  BY <1>1 DEF RowsFor
<1> HIDE DEF QueueInv
<1>6. new \in SUBSET QueueRow /\ \A r \in new : r.note = n /\ r.status = "pending" /\ r.tries = 0
  BY <1>4, <1>5
<1>7. \A r, s \in new : r.issue = s.issue => r = s
  BY <1>4, <1>5
<1>8. \A i \in IssuesOf(w) : \E r \in new : r.issue = i
  BY <1>4, <1>5
<1>9. QED
  BY <1>1, <1>6, <1>7, <1>8

\* A note begins: the hand-written one is under way, that of a transition is there at once.
LEMMA NoteBegins ==
  ASSUME QueueInv, NEW w \in Orders, AddNote(w) \/ TransitionNote(w)
  PROVE  \E m \in Note :
           /\ note' = Append(note, m) /\ Len(note) < MaxNotes
           /\ m.rows = {} /\ m.wo = w
           /\ m.kind = "manual" => m.stage = "drawn"
           /\ UNCHANGED <<link, issue, queue, token, forward, sync, comments, uploads, repeated, excused, mishaps>>
<1>1. CASE AddNote(w)
  <2>1. PICK m : m = NewNote(w, "manual", "drawn")
    OBVIOUS
  <2>2. m \in Note /\ m.rows = {} /\ m.wo = w /\ m.stage = "drawn"
    BY <2>1 DEF NewNote, Note
  <2>3. QED
    BY <1>1, <2>1, <2>2 DEF AddNote
<1>2. CASE TransitionNote(w)
  <2>1. PICK m : m = NewNote(w, "transition", "stored")
    OBVIOUS
  <2>2. m \in Note /\ m.rows = {} /\ m.wo = w /\ m.kind = "transition"
    BY <2>1 DEF NewNote, Note
  <2>3. QED
    BY <1>2, <2>1, <2>2 DEF TransitionNote
<1>3. QED
  BY <1>1, <1>2

\* What a step makes of a note that is there.
LEMMA NoteMoves ==
  ASSUME QueueInv, NEW n \in DOMAIN note,
         ReadLinks(n) \/ CommitNote(n) \/ DeleteNote(n) \/ AttachPhoto(n)
  PROVE  \E m \in Note :
           /\ note' = [note EXCEPT ![n] = m]
           /\ m.wo = note[n].wo /\ m.kind = note[n].kind
           /\ note[n].stage = "stored" \/ CommitNote(n) => m.stage = "stored"
           /\ \/ m.rows = note[n].rows /\ m.stage = note[n].stage
              \/ m.rows = RowsFor(n) /\ m.stage = "read" /\ note[n].stage = "drawn"
              \/ m.rows = {} /\ m.stage = "stored" /\ CommitNote(n)
           /\ UNCHANGED <<link, issue, token, forward, sync, comments, uploads, repeated, excused, mishaps>>
           /\ CommitNote(n) \/ UNCHANGED queue
<1>1. note \in Seq(Note) /\ note[n] \in Note
  BY DEF QueueInv, SyncTypeOK
<1>2. CASE ReadLinks(n)
  <2>1. PICK new, m : new = RowsFor(n) /\ m = [note[n] EXCEPT !.stage = "read", !.rows = new]
    OBVIOUS
  <2>2. new \in SUBSET QueueRow
    BY <2>1, RowsOfNote
  <2>3. m \in Note /\ m.wo = note[n].wo /\ m.kind = note[n].kind /\ m.stage = "read" /\ m.rows = new
    BY <1>1, <2>1, <2>2 DEF Note
  <2>4. note' = [note EXCEPT ![n] = m] /\ note[n].stage = "drawn" /\ ~CommitNote(n)
        /\ UNCHANGED <<link, issue, queue, token, forward, sync, comments, uploads, repeated, excused, mishaps>>
    BY <1>1, <1>2, <2>1 DEF ReadLinks, CommitNote
  <2>5. QED
    BY <2>1, <2>3, <2>4
<1>3. CASE CommitNote(n)
  <2>1. PICK m : m = [note[n] EXCEPT !.stage = "stored", !.rows = {}]
    OBVIOUS
  <2>2. m \in Note /\ m.wo = note[n].wo /\ m.kind = note[n].kind /\ m.stage = "stored" /\ m.rows = {}
    BY <1>1, <2>1 DEF Note
  <2>3. note' = [note EXCEPT ![n] = m]
        /\ UNCHANGED <<link, issue, token, forward, sync, comments, uploads, repeated, excused, mishaps>>
    BY <1>1, <1>3, <2>1 DEF CommitNote
  <2>4. QED
    BY <1>3, <2>2, <2>3
<1>4. CASE DeleteNote(n)
  <2>1. PICK m : m = [note[n] EXCEPT !.deleted = TRUE]
    OBVIOUS
  <2>2. /\ m \in Note /\ m.wo = note[n].wo /\ m.kind = note[n].kind
        /\ m.stage = note[n].stage /\ m.rows = note[n].rows
    BY <1>1, <2>1 DEF Note
  <2>3. note' = [note EXCEPT ![n] = m] /\ ~CommitNote(n)
        /\ UNCHANGED <<link, issue, queue, token, forward, sync, comments, uploads, repeated, excused, mishaps>>
    BY <1>1, <1>4, <2>1 DEF DeleteNote, CommitNote
  <2>4. QED
    BY <2>2, <2>3
<1>5. CASE AttachPhoto(n)
  <2>1. PICK m : m = [note[n] EXCEPT !.photo = TRUE]
    OBVIOUS
  <2>2. /\ m \in Note /\ m.wo = note[n].wo /\ m.kind = note[n].kind
        /\ m.stage = note[n].stage /\ m.rows = note[n].rows
    BY <1>1, <2>1 DEF Note
  <2>3. note' = [note EXCEPT ![n] = m] /\ ~CommitNote(n)
        /\ UNCHANGED <<link, issue, queue, token, forward, sync, comments, uploads, repeated, excused, mishaps>>
    BY <1>1, <1>5, <2>1 DEF AttachPhoto, CommitNote
  <2>4. QED
    BY <2>2, <2>3
<1>6. QED
  BY <1>2, <1>3, <1>4, <1>5

\* The rows of a note join the queue with its commit, and wait.
LEMMA CommitNoteGrows ==
  ASSUME QueueInv, NotesUnderWay, NEW n \in DOMAIN note, CommitNote(n)
  PROVE  /\ queue' \in Seq(QueueRow) /\ OneRowPerComment'
         /\ DOMAIN queue \subseteq DOMAIN queue'
         /\ \A k \in DOMAIN queue : queue'[k] = queue[k]
         /\ \A k \in DOMAIN queue' \ DOMAIN queue :
              queue'[k].status = "pending" /\ queue'[k].tries = 0 /\ queue'[k].note = n
         /\ \A r \in note[n].rows : \E k \in DOMAIN queue' : queue'[k].note = n /\ queue'[k].issue = r.issue
<1>1. PICK new : new = note[n].rows
  OBVIOUS
<1>2. /\ queue \in Seq(QueueRow) /\ OneRowPerComment /\ note[n] \in Note
      /\ queue' = queue \o SetToSeq(new) /\ note[n].stage = "read"
  BY <1>1 DEF CommitNote, QueueInv, SyncTypeOK
<1>3. new \in SUBSET QueueRow
  BY <1>1, <1>2 DEF Note
<1>4. \A r \in new : r.note = n /\ r.status = "pending" /\ r.tries = 0 /\ ~Queued(r.note, r.issue)
  BY <1>1, <1>2 DEF NotesUnderWay, Queued
<1>5. \A r, s \in new : r.note = s.note /\ r.issue = s.issue => r = s
  BY <1>1 DEF NotesUnderWay
<1>6. /\ queue' \in Seq(QueueRow) /\ OneRowPerComment'
      /\ DOMAIN queue \subseteq DOMAIN queue'
      /\ \A k \in DOMAIN queue : queue'[k] = queue[k]
      /\ \A k \in DOMAIN queue' \ DOMAIN queue : queue'[k] \in new
      /\ \A r \in new : \E k \in DOMAIN queue' : queue'[k] = r
  BY <1>2, <1>3, <1>4, <1>5, RowsJoin
<1>7. QED
  BY <1>1, <1>4, <1>6

LEMMA NoteStepsKeep ==
  ASSUME QueueInv, NotesUnderWay,
         \/ \E w \in Orders : AddNote(w) \/ TransitionNote(w)
         \/ \E n \in DOMAIN note : ReadLinks(n) \/ CommitNote(n) \/ DeleteNote(n) \/ AttachPhoto(n)
  PROVE  QueueInv'
<1>1. /\ note \in Seq(Note) /\ link \in [Links -> Link] /\ issue \in Seq(IdemKeys \cup {NoOne})
      /\ queue \in Seq(QueueRow) /\ token \subseteq Owners /\ forward \in [Forwards -> Forward]
      /\ excused \subseteq IdemKeys /\ mishaps \in 0..MaxMishaps /\ OneRowPerComment /\ Anchored
      /\ Len(note) \in Nat /\ MaxNotes \in Nat /\ DOMAIN note = 1..Len(note)
  BY SyncAssumption DEF QueueInv, SyncTypeOK
<1>2. ASSUME NEW w \in Orders, AddNote(w) \/ TransitionNote(w)
      PROVE  QueueInv'
  <2>1. PICK m \in Note :
          /\ note' = Append(note, m) /\ Len(note) < MaxNotes
          /\ UNCHANGED <<link, issue, queue, token, forward, sync, comments, uploads, repeated, excused, mishaps>>
    BY <1>2, NoteBegins
  <2>2. /\ note' \in Seq(Note) /\ Len(note') = Len(note) + 1 /\ DOMAIN note \subseteq DOMAIN note'
    BY <1>1, <2>1, NoteJoins
  <2>3. Anchored'
    BY <1>1, <2>1, <2>2 DEF Anchored
  <2>4. OneRowPerComment'
    BY <1>1, <2>1 DEF OneRowPerComment
  <2>5. QED
    BY <1>1, <2>1, <2>2, <2>3, <2>4, GrowthKeeps
<1>3. ASSUME NEW n \in DOMAIN note, ReadLinks(n) \/ CommitNote(n) \/ DeleteNote(n) \/ AttachPhoto(n)
      PROVE  QueueInv'
  <2>1. PICK m \in Note :
          /\ note' = [note EXCEPT ![n] = m]
          /\ UNCHANGED <<link, issue, token, forward, sync, comments, uploads, repeated, excused, mishaps>>
          /\ CommitNote(n) \/ UNCHANGED queue
    BY <1>3, NoteMoves
  <2>2. note' \in Seq(Note) /\ Len(note') = Len(note)
    BY <1>1, <2>1, ExceptSeq
  <2>3. DOMAIN note' = DOMAIN note
    BY <1>1, <2>2
  <2>4. /\ queue' \in Seq(QueueRow) /\ OneRowPerComment'
        /\ DOMAIN queue \subseteq DOMAIN queue'
        /\ \A k \in DOMAIN queue : queue'[k] = queue[k]
        /\ \A k \in DOMAIN queue' \ DOMAIN queue :
             queue'[k].status = "pending" /\ queue'[k].tries = 0 /\ queue'[k].note = n
    <3>1. CASE CommitNote(n)
      BY <3>1, CommitNoteGrows
    <3>2. CASE UNCHANGED queue
      BY <1>1, <3>2 DEF OneRowPerComment
    <3>3. QED
      BY <2>1, <3>1, <3>2
  <2>5. Anchored'
    BY <1>1, <2>1, <2>2, <2>3, <2>4 DEF Anchored
  <2>6. QED
    BY <1>1, <2>1, <2>2, <2>4, <2>5, GrowthKeeps
<1>4. QED
  BY <1>2, <1>3

\* Links and credentials have no part in what is queued already.
LEMMA LinkStepsKeep ==
  ASSUME QueueInv,
         \/ \E l \in Links : RemoveLink(l) \/ \E u \in Owners \cup {NoOne} : RecordLink(l, u)
         \/ \E u \in Owners : StoreToken(u) \/ RevokeToken(u)
  PROVE  QueueInv'
<1>1. /\ note \in Seq(Note) /\ link \in [Links -> Link] /\ issue \in Seq(IdemKeys \cup {NoOne})
      /\ queue \in Seq(QueueRow) /\ token \subseteq Owners /\ forward \in [Forwards -> Forward]
      /\ excused \subseteq IdemKeys /\ mishaps \in 0..MaxMishaps /\ OneRowPerComment /\ Anchored
      /\ Len(note) \in Nat
  BY DEF QueueInv, SyncTypeOK
<1>2. UNCHANGED <<note, issue, queue, forward, sync, comments, uploads, repeated, mishaps>>
      /\ token' \subseteq Owners
  BY <1>1 DEF RemoveLink, RecordLink, StoreToken, RevokeToken
<1>3. ASSUME NEW l \in Links, NEW u \in Owners \cup {NoOne}, NEW key \in IdemKeys \cup {NoOne}
      PROVE  Recorded(l, u, key) \in Link
  BY <1>1 DEF Recorded, Link
<1>4. link' \in [Links -> Link]
  <2>1. ASSUME NEW l \in Links, RemoveLink(l)
        PROVE  link' \in [Links -> Link]
    <3>1. [link[l] EXCEPT !.state = "removed"] \in Link
      BY <1>1 DEF Link
    <3>2. QED
      BY <1>1, <2>1, <3>1 DEF RemoveLink
  <2>2. ASSUME NEW l \in Links, NEW u \in Owners \cup {NoOne}, RecordLink(l, u)
        PROVE  link' \in [Links -> Link]
    BY <1>1, <1>3, <2>2 DEF RecordLink
  <2>3. ASSUME NEW u \in Owners, StoreToken(u) \/ RevokeToken(u)
        PROVE  link' \in [Links -> Link]
    BY <1>1, <2>3 DEF StoreToken, RevokeToken
  <2>4. QED
    BY <2>1, <2>2, <2>3
<1>5. excused' \subseteq IdemKeys
  BY <1>1 DEF RemoveLink, RecordLink, StoreToken, RevokeToken
<1>6. Anchored' /\ OneRowPerComment'
  BY <1>1, <1>2 DEF Anchored, OneRowPerComment
<1>7. QED
  BY <1>1, <1>2, <1>4, <1>5, <1>6, GrowthKeeps

\* What a forward queues of the notes it read: those that are not queued yet.
RowsLeft(r) == {Pending(n, forward[r].issue, forward[r].owner) :
                  n \in {m \in forward[r].notes : ~Queued(m, forward[r].issue)}}

LEMMA QueueNotesGrows ==
  ASSUME QueueInv, NEW r \in Forwards, QueueNotes(r)
  PROVE  /\ queue' \in Seq(QueueRow) /\ OneRowPerComment'
         /\ DOMAIN queue \subseteq DOMAIN queue'
         /\ \A n \in DOMAIN queue : queue'[n] = queue[n]
         /\ \A n \in DOMAIN queue' \ DOMAIN queue :
              /\ queue'[n].status = "pending" /\ queue'[n].tries = 0
              /\ queue'[n].note \in DOMAIN note /\ queue'[n].note \in forward[r].notes
         /\ \A n \in forward[r].notes :
              \E m \in DOMAIN queue' : queue'[m].note = n /\ queue'[m].issue = forward[r].issue
<1>1. PICK i, u, new : i = forward[r].issue /\ u = forward[r].owner /\ new = RowsLeft(r)
  OBVIOUS
<1>2. /\ queue \in Seq(QueueRow) /\ OneRowPerComment /\ forward[r] \in Forward
      /\ i \in Issues /\ u \in Owners /\ forward[r].notes \subseteq DOMAIN note
      /\ queue' = queue \o SetToSeq(new)
  BY <1>1 DEF QueueInv, SyncTypeOK, Anchored, QueueNotes, RowsLeft
<1>3. ASSUME NEW n \in forward[r].notes
      PROVE  /\ Pending(n, i, u) \in QueueRow
             /\ Pending(n, i, u).note = n /\ Pending(n, i, u).issue = i
             /\ Pending(n, i, u).status = "pending" /\ Pending(n, i, u).tries = 0
  BY <1>2, SyncAssumption DEF Pending, QueueRow, Forward
<1>4. new = {Pending(n, i, u) : n \in {m \in forward[r].notes : ~Queued(m, i)}}
  BY <1>1 DEF RowsLeft
<1>5. /\ new \in SUBSET QueueRow
      /\ \A s \in new : /\ s.status = "pending" /\ s.tries = 0
                        /\ s.note \in DOMAIN note /\ s.note \in forward[r].notes
                        /\ ~Queued(s.note, s.issue)
  BY <1>2, <1>3, <1>4
<1>6. \A s, t \in new : s.note = t.note /\ s.issue = t.issue => s = t
  BY <1>3, <1>4
<1>7. \A n \in forward[r].notes : ~Queued(n, i) => \E s \in new : s.note = n /\ s.issue = i
  BY <1>3, <1>4
<1>8. /\ queue' \in Seq(QueueRow) /\ OneRowPerComment'
      /\ DOMAIN queue \subseteq DOMAIN queue'
      /\ \A n \in DOMAIN queue : queue'[n] = queue[n]
      /\ \A n \in DOMAIN queue' \ DOMAIN queue : queue'[n] \in new
      /\ \A s \in new : \E n \in DOMAIN queue' : queue'[n] = s
  BY <1>2, <1>5, <1>6, RowsJoin
<1>9. ASSUME NEW n \in forward[r].notes
      PROVE  \E m \in DOMAIN queue' : queue'[m].note = n /\ queue'[m].issue = i
  <2>1. CASE Queued(n, i)
    BY <1>8, <2>1 DEF Queued
  <2>2. CASE ~Queued(n, i)
    BY <1>7, <1>8, <2>2
  <2>3. QED
    BY <2>1, <2>2
<1>10. QED
  BY <1>1, <1>5, <1>8, <1>9

\* What a step makes of the forward under way.
LEMMA ForwardMoves ==
  ASSUME QueueInv, NEW r \in Forwards,
         \/ ForwardStep(r)
         \/ \E wos \in SUBSET Orders, key \in IdemKeys \cup {NoOne}, u \in Owners : Plan(r, wos, key, u)
  PROVE  \E q \in Forward :
           /\ forward' = [forward EXCEPT ![r] = q]
           /\ q.notes \subseteq DOMAIN note
           /\ \A n \in q.notes : n \in forward[r].notes \/ note[n].stage = "stored"
           /\ q.pc # "idle" => q.owner \in Owners
           /\ q.pc \in {"link", "queue"} => q.issue \in Issues
<1>1. /\ forward \in [Forwards -> Forward] /\ forward[r] \in Forward /\ Anchored
      /\ link \in [Links -> Link] /\ note \in Seq(Note) /\ Len(note) \in Nat /\ Len(issue) \in Nat
      /\ MaxNotes \in Nat
  BY SyncAssumption DEF QueueInv, SyncTypeOK
<1>2. /\ forward[r].notes \subseteq DOMAIN note
      /\ forward[r].pc # "idle" => forward[r].owner \in Owners
      /\ forward[r].pc \in {"link", "queue"} => forward[r].issue \in Issues
      /\ Len(note) <= MaxNotes /\ DOMAIN note = 1..Len(note)
  BY <1>1 DEF Anchored
<1>3. ASSUME NEW wos \in SUBSET Orders, NEW key \in IdemKeys \cup {NoOne}, NEW u \in Owners,
             Plan(r, wos, key, u)
      PROVE  \E q \in Forward :
               /\ forward' = [forward EXCEPT ![r] = q]
               /\ q.notes \subseteq DOMAIN note /\ \A n \in q.notes : note[n].stage = "stored"
               /\ q.owner \in Owners
               /\ q.pc \in {"link", "queue"} => q.issue \in Issues
  <2>1. PICK read : read = {n \in DOMAIN note : note[n].stage = "stored" /\ note[n].wo \in wos
                                                /\ ~note[n].deleted}
    OBVIOUS
  <2>2. /\ read \subseteq DOMAIN note /\ read \subseteq 1..MaxNotes
        /\ \A n \in read : note[n].stage = "stored"
    BY <1>1, <1>2, <2>1
  <2>3. PICK plan : plan = [pc |-> "create", wos |-> wos, todo |-> wos, issue |-> 0, key |-> key,
                            owner |-> u, notes |-> read]
    OBVIOUS
  <2>4. plan \in Forward /\ plan.pc = "create" /\ plan.notes = read /\ plan.owner = u
    BY <2>2, <2>3 DEF Forward
  <2>5. \/ forward' = [forward EXCEPT ![r] = plan]
        \/ \E l \in Links : forward' = [forward EXCEPT ![r] = [plan EXCEPT !.pc = "queue", !.todo = {}, !.issue = l.issue]]
    BY <1>3, <2>1, <2>3 DEF Plan, Keyed
  <2>6. ASSUME NEW l \in Links
        PROVE  LET q == [plan EXCEPT !.pc = "queue", !.todo = {}, !.issue = l.issue]
               IN  q \in Forward /\ q.notes = read /\ q.owner = u /\ q.issue \in Issues
    <3>1. l.issue \in Issues
      BY DEF Links
    <3>2. QED
      BY <2>3, <2>4, <3>1 DEF Forward
  <2>7. CASE forward' = [forward EXCEPT ![r] = plan]
    BY <2>2, <2>4, <2>7
  <2>8. ASSUME NEW l \in Links,
               forward' = [forward EXCEPT ![r] = [plan EXCEPT !.pc = "queue", !.todo = {}, !.issue = l.issue]]
        PROVE  \E q \in Forward :
                 /\ forward' = [forward EXCEPT ![r] = q]
                 /\ q.notes \subseteq DOMAIN note /\ \A n \in q.notes : note[n].stage = "stored"
                 /\ q.owner \in Owners
                 /\ q.pc \in {"link", "queue"} => q.issue \in Issues
    BY <2>2, <2>6, <2>8
  <2>9. QED
    BY <2>5, <2>7, <2>8
<1>4. CASE CreateIssue(r)
  <2>1. PICK q : q = [forward[r] EXCEPT !.pc = "link", !.issue = Len(issue) + 1]
    OBVIOUS
  <2>2. forward' = [forward EXCEPT ![r] = q] /\ Len(issue) < MaxIssues /\ forward[r].pc = "create"
    BY <1>1, <1>4, <2>1 DEF CreateIssue
  <2>3. Len(issue) + 1 \in Issues
    BY <1>1, <2>2, SyncAssumption DEF Issues
  <2>4. q \in Forward /\ q.notes = forward[r].notes /\ q.owner = forward[r].owner /\ q.issue \in Issues
    BY <1>1, <2>1, <2>3 DEF Forward
  <2>5. QED
    BY <1>2, <2>2, <2>4
<1>5. CASE LinkOne(r)
  <2>1. PICK w \in Orders :
          forward' = [forward EXCEPT ![r].todo = @ \ {w},
                                     ![r].pc = IF forward[r].todo = {w} THEN "queue" ELSE "link"]
    BY <1>1, <1>5 DEF LinkOne, Forward
  <2>2. PICK q : q = [forward[r] EXCEPT !.todo = @ \ {w}, !.pc = IF forward[r].todo = {w} THEN "queue" ELSE "link"]
    OBVIOUS
  <2>3. forward' = [forward EXCEPT ![r] = q] /\ forward[r].pc = "link"
    BY <1>1, <1>5, <2>1, <2>2 DEF LinkOne
  <2>4. q \in Forward /\ q.notes = forward[r].notes /\ q.owner = forward[r].owner /\ q.issue = forward[r].issue
    BY <1>1, <2>2 DEF Forward
  <2>5. QED
    BY <1>2, <2>3, <2>4
<1>6. CASE QueueNotes(r)
  <2>1. PICK q : q = [forward[r] EXCEPT !.pc = "flush"]
    OBVIOUS
  <2>2. forward' = [forward EXCEPT ![r] = q] /\ forward[r].pc = "queue"
    BY <1>1, <1>6, <2>1 DEF QueueNotes
  <2>3. q \in Forward /\ q.pc = "flush" /\ q.notes = forward[r].notes /\ q.owner = forward[r].owner
    BY <1>1, <2>1 DEF Forward
  <2>4. QED
    BY <1>2, <2>2, <2>3
<1>7. CASE CreateFails(r) \/ ForwardCrashes(r)
  <2>1. NoForward \in Forward /\ NoForward.pc = "idle" /\ NoForward.notes = {}
    BY DEF NoForward, Forward
  <2>2. forward' = [forward EXCEPT ![r] = NoForward]
    BY <1>7 DEF CreateFails, ForwardCrashes
  <2>3. QED
    BY <2>1, <2>2
<1>8. QED
  BY <1>3, <1>4, <1>5, <1>6, <1>7 DEF ForwardStep

LEMMA ForwardStepsKeep ==
  ASSUME QueueInv, NEW r \in Forwards,
         \/ ForwardStep(r)
         \/ \E wos \in SUBSET Orders, key \in IdemKeys \cup {NoOne}, u \in Owners : Plan(r, wos, key, u)
  PROVE  QueueInv'
<1>1. /\ note \in Seq(Note) /\ link \in [Links -> Link] /\ issue \in Seq(IdemKeys \cup {NoOne})
      /\ queue \in Seq(QueueRow) /\ token \subseteq Owners /\ forward \in [Forwards -> Forward]
      /\ forward[r] \in Forward
      /\ excused \subseteq IdemKeys /\ mishaps \in 0..MaxMishaps /\ OneRowPerComment /\ Anchored
      /\ Len(issue) \in Nat /\ MaxMishaps \in Nat /\ MaxIssues \in Nat
  BY SyncAssumption DEF QueueInv, SyncTypeOK
<1>2. PICK q \in Forward :
        /\ forward' = [forward EXCEPT ![r] = q]
        /\ q.notes \subseteq DOMAIN note
        /\ q.pc # "idle" => q.owner \in Owners
        /\ q.pc \in {"link", "queue"} => q.issue \in Issues
  BY ForwardMoves
<1>3. forward' \in [Forwards -> Forward]
      /\ \A p \in Forwards : forward'[p] = IF p = r THEN q ELSE forward[p]
  BY <1>1, <1>2
<1>4. UNCHANGED <<note, token, sync, comments, uploads, repeated>>
  BY DEF ForwardStep, CreateIssue, CreateFails, LinkOne, QueueNotes, ForwardCrashes, Plan
<1>5. excused' \subseteq IdemKeys
  BY <1>1 DEF ForwardStep, CreateIssue, CreateFails, LinkOne, QueueNotes, ForwardCrashes, Plan
<1>6. mishaps' \in 0..MaxMishaps
  <2>1. mishaps' = mishaps \/ Mishap
    BY DEF ForwardStep, CreateIssue, CreateFails, LinkOne, QueueNotes, ForwardCrashes, Plan
  <2>2. QED
    BY <1>1, <2>1 DEF Mishap
<1>7. issue' \in Seq(IdemKeys \cup {NoOne}) /\ Len(issue') <= MaxIssues
  <2>1. \/ issue' = issue
        \/ Len(issue) < MaxIssues /\ issue' = Append(issue, forward[r].key)
    BY DEF ForwardStep, CreateIssue, CreateFails, LinkOne, QueueNotes, ForwardCrashes, Plan
  <2>2. forward[r].key \in IdemKeys \cup {NoOne}
    BY <1>1 DEF Forward
  <2>3. CASE issue' = issue
    BY <1>1, <2>3 DEF Anchored
  <2>4. CASE Len(issue) < MaxIssues /\ issue' = Append(issue, forward[r].key)
    <3>1. Len(issue') = Len(issue) + 1 /\ issue' \in Seq(IdemKeys \cup {NoOne})
      BY <1>1, <2>2, <2>4, AppendProperties
    <3>2. QED
      BY <1>1, <2>4, <3>1
  <2>5. QED
    BY <2>1, <2>3, <2>4
<1>8. link' \in [Links -> Link]
  <2>1. CASE LinkOne(r)
    <3>1. PICK l : link' = [link EXCEPT ![l] = Recorded(l, forward[r].owner, forward[r].key)]
      BY <2>1 DEF LinkOne
    <3>2. forward[r].owner \in Owners \cup {NoOne} /\ forward[r].key \in IdemKeys \cup {NoOne}
      BY <1>1 DEF Forward
    <3>3. l \in Links => Recorded(l, forward[r].owner, forward[r].key) \in Link
      <4>1. l \in Links => link[l] \in Link
        BY <1>1
      <4>2. Len(note) \in Nat
        BY <1>1
      <4>3. QED
        BY <3>2, <4>1, <4>2 DEF Recorded, Link
    <3>4. QED
      BY <1>1, <3>1, <3>3
  <2>2. CASE ~LinkOne(r)
    BY <1>1, <2>2 DEF ForwardStep, CreateIssue, CreateFails, QueueNotes, ForwardCrashes, Plan
  <2>3. QED
    BY <2>1, <2>2
<1>9. /\ queue' \in Seq(QueueRow) /\ OneRowPerComment' /\ DOMAIN queue \subseteq DOMAIN queue'
      /\ \A n \in DOMAIN queue : queue'[n] = queue[n]
      /\ \A n \in DOMAIN queue' \ DOMAIN queue :
           /\ queue'[n].status = "pending" /\ queue'[n].tries = 0
           /\ queue'[n].note \in DOMAIN note
  <2>1. CASE QueueNotes(r)
    BY <2>1, QueueNotesGrows
  <2>2. CASE ~QueueNotes(r)
    <3>1. queue' = queue
      BY <2>2 DEF ForwardStep, CreateIssue, CreateFails, LinkOne, ForwardCrashes, Plan
    <3>2. QED
      BY <1>1, <3>1 DEF OneRowPerComment
  <2>3. QED
    BY <2>1, <2>2
<1>10. Anchored'
  <2>1. \A n \in DOMAIN queue' : queue'[n].note \in DOMAIN note
    BY <1>1, <1>9 DEF Anchored
  <2>2. \A p \in Forwards :
          /\ forward'[p].notes \subseteq DOMAIN note
          /\ forward'[p].pc # "idle" => forward'[p].owner \in Owners
          /\ forward'[p].pc \in {"link", "queue"} => forward'[p].issue \in Issues
    BY <1>1, <1>2, <1>3 DEF Anchored
  <2>3. QED
    BY <1>1, <1>4, <1>7, <2>1, <2>2 DEF Anchored
<1>11. QED
  BY <1>1, <1>3, <1>4, <1>5, <1>6, <1>7, <1>8, <1>9, <1>10, GrowthKeeps

-----------------------------------------------------------------------------
(***************************************************************************)
(* Notes go once.                                                          *)
(***************************************************************************)
LEMMA QueueInvInit == SyncInit => QueueInv
<1> SUFFICES ASSUME SyncInit
             PROVE  QueueInv
  OBVIOUS
<1>1. NoLink \in Link /\ NoForward \in Forward /\ NoForward.pc = "idle" /\ NoForward.notes = {}
  BY DEF NoLink, Link, NoForward, Forward
<1>2. issue \in Seq(IdemKeys \cup {NoOne}) /\ Len(issue) <= MaxIssues
  <2>1. issue = <<>> \/ issue = <<NoOne>>
    BY DEF SyncInit
  <2>2. CASE issue = <<>>
    <3>1. Len(issue) = 0
      BY <2>2
    <3>2. QED
      BY <2>2, <3>1, SyncAssumption
  <2>3. CASE issue = <<NoOne>>
    <3>1. <<NoOne>> \in Seq(IdemKeys \cup {NoOne}) /\ Len(<<NoOne>>) = 1
      OBVIOUS
    <3>2. QED
      BY <2>3, <3>1, SyncAssumption
  <2>4. QED
    BY <2>1, <2>2, <2>3
<1>3. SyncTypeOK
  <2>1. note \in Seq(Note) /\ queue \in Seq(QueueRow)
    BY DEF SyncInit
  <2>2. link \in [Links -> Link] /\ forward \in [Forwards -> Forward] /\ sync \in [Syncs -> Sync]
    BY <1>1, NoSyncIsTidy DEF SyncInit
  <2>3. comments \in [QueueRows -> Nat] /\ uploads \in [QueueRows -> Nat] /\ repeated \subseteq QueueRows
    BY DEF SyncInit
  <2>4. token \subseteq Owners /\ mishaps \in 0..MaxMishaps
    BY SyncAssumption DEF SyncInit
  <2>5. excused \subseteq IdemKeys
    BY DEF SyncInit
  <2>6. QED
    BY <1>2, <2>1, <2>2, <2>3, <2>4, <2>5 DEF SyncTypeOK
<1>4. Anchored /\ OneRowPerComment /\ FreshQueue /\ UnqueuedSilent
  BY <1>1, <1>2, SyncAssumption DEF SyncInit, Anchored, OneRowPerComment, FreshQueue, UnqueuedSilent
<1>5. TidySyncs /\ OverlapsKnown /\ CommentsKnown /\ UploadsKnown
  BY NoSyncIsTidy DEF SyncInit, TidySyncs, OverlapsKnown, CommentsKnown, UploadsKnown
<1>6. QED
  BY <1>3, <1>4, <1>5 DEF QueueInv

LEMMA QueueInvNext == QueueInv /\ NotesUnderWay /\ [SyncNext]_syncVars => QueueInv'
<1> SUFFICES ASSUME QueueInv, NotesUnderWay, [SyncNext]_syncVars
             PROVE  QueueInv'
  OBVIOUS
<1>1. CASE \/ \E w \in Orders : AddNote(w) \/ TransitionNote(w)
           \/ \E n \in DOMAIN note : ReadLinks(n) \/ CommitNote(n) \/ DeleteNote(n) \/ AttachPhoto(n)
  BY <1>1, NoteStepsKeep
<1>2. CASE \/ \E l \in Links : RemoveLink(l) \/ \E u \in Owners \cup {NoOne} : RecordLink(l, u)
           \/ \E u \in Owners : StoreToken(u) \/ RevokeToken(u)
  BY <1>2, LinkStepsKeep
<1>3. ASSUME NEW r \in Forwards,
             \/ ForwardStep(r)
             \/ \E wos \in SUBSET Orders, key \in IdemKeys \cup {NoOne}, u \in Owners : Plan(r, wos, key, u)
      PROVE  QueueInv'
  BY <1>3, ForwardStepsKeep
<1>4. ASSUME NEW f \in Syncs, SyncStep(f)
      PROVE  QueueInv'
  <2>1. PICK c : c = AtHand(f)
    OBVIOUS
  <2>2. CASE SyncSelect(f)
    BY <2>2, SelectKeeps
  <2>3. CASE LookUp(f)
    BY <2>3, LookUpKeeps
  <2>4. CASE Withheld(f) \/ UploadFails(f) \/ CommentFails(f)
    BY <2>4, FailureKeeps
  <2>5. CASE Upload(f)
    BY <2>1, <2>5, UploadKeeps
  <2>6. CASE Comment(f)
    BY <2>1, <2>6, CommentKeeps
  <2>7. CASE Settle(f)
    BY <2>1, <2>7, SettleKeeps
  <2>8. CASE SyncCrashes(f)
    BY <2>8, CrashKeeps
  <2>9. QED
    BY <1>4, <2>2, <2>3, <2>4, <2>5, <2>6, <2>7, <2>8 DEF SyncStep
<1>5. CASE UNCHANGED syncVars
  <2> USE <1>5 DEF syncVars, QueueInv
  <2>1. SyncTypeOK' /\ Anchored' /\ OneRowPerComment'
    BY DEF SyncTypeOK, Anchored, OneRowPerComment
  <2>2. FreshQueue' /\ UnqueuedSilent' /\ TidySyncs'
    BY DEF FreshQueue, UnqueuedSilent, TidySyncs, Tidy
  <2>3. OverlapsKnown' /\ CommentsKnown' /\ UploadsKnown'
    BY DEF OverlapsKnown, CommentsKnown, UploadsKnown, HandOf, Recording, ReadUploaded
  <2>4. QED
    BY <2>1, <2>2, <2>3
<1>6. QED
  BY <1>1, <1>2, <1>3, <1>4, <1>5 DEF SyncNext

\* The steps of a flush leave it to a row which note it is of, and which issue.
LEMMA RowsKeepTheirNote ==
  ASSUME QueueInv, NEW f \in Syncs, SyncStep(f)
  PROVE  /\ DOMAIN queue' = DOMAIN queue
         /\ \A n \in DOMAIN queue : queue'[n].note = queue[n].note /\ queue'[n].issue = queue[n].issue
<1>1. CASE Upload(f)
  <2>1. PICK c : c = AtHand(f)
    OBVIOUS
  <2>2. c \in DOMAIN queue /\ queue \in Seq(QueueRow) /\ queue[c] \in QueueRow
    BY <1>1, <2>1, AtHandIsHeld DEF Upload, MaySend, QueueInv, SyncTypeOK
  <2>3. queue' = [queue EXCEPT ![c].uploaded = TRUE]
    BY <1>1, <2>1 DEF Upload
  <2>4. QED
    BY <2>2, <2>3 DEF QueueRow
<1>2. CASE Settle(f)
  <2>1. PICK c, r : c = AtHand(f) /\ r = Settled(f, c)
    OBVIOUS
  <2>2. c \in DOMAIN queue /\ queue \in Seq(QueueRow) /\ sync[f].pc = "mark"
    BY <1>2, <2>1, AtHandIsHeld DEF Settle, QueueInv, SyncTypeOK
  <2>3. r.note = queue[c].note /\ r.issue = queue[c].issue
    BY <2>1, <2>2, SettledIsRow
  <2>4. queue' = [queue EXCEPT ![c] = r]
    BY <1>2, <2>1 DEF Settle
  <2>5. QED
    BY <2>2, <2>3, <2>4
<1>3. CASE \/ SyncSelect(f) \/ LookUp(f) \/ Withheld(f) \/ UploadFails(f) \/ SyncCrashes(f)
           \/ Comment(f) \/ CommentFails(f)
  BY <1>3 DEF SyncSelect, LookUp, Withheld, UploadFails, SyncCrashes, Comment, CommentFails
<1>4. QED
  BY <1>1, <1>2, <1>3 DEF SyncStep

\* The queue grows by rows of what forwards have read, and forwards read what is committed.
LEMMA UnderWayStays ==
  ASSUME NotesUnderWay, note' = note,
         \A m \in DOMAIN queue' :
           \/ m \in DOMAIN queue /\ queue'[m].note = queue[m].note
           \/ \E r \in Forwards : queue'[m].note \in forward[r].notes,
         \A r \in Forwards : \A n \in forward'[r].notes :
           n \in forward[r].notes \/ note[n].stage = "stored"
  PROVE  NotesUnderWay'
  BY DEF NotesUnderWay

LEMMA NotesUnderWayNext ==
  ASSUME QueueInv, NotesUnderWay, [SyncNext]_syncVars
  PROVE  NotesUnderWay'
<1>1. /\ note \in Seq(Note) /\ forward \in [Forwards -> Forward]
      /\ \A m \in DOMAIN queue : queue[m].note \in DOMAIN note
      /\ \A r \in Forwards : forward[r].notes \subseteq DOMAIN note
  BY DEF QueueInv, SyncTypeOK, Anchored
<1>2. ASSUME NEW w \in Orders, AddNote(w) \/ TransitionNote(w)
      PROVE  NotesUnderWay'
  <2>1. PICK m \in Note : note' = Append(note, m) /\ m.rows = {} /\ UNCHANGED <<queue, forward>>
    BY <1>2, NoteBegins
  <2>2. /\ DOMAIN note' = DOMAIN note \cup {Len(note) + 1}
        /\ note'[Len(note) + 1] = m /\ \A n \in DOMAIN note : note'[n] = note[n]
    BY <1>1, <2>1, NoteJoins
  <2>3. QED
    BY <1>1, <2>1, <2>2 DEF NotesUnderWay
<1>3. ASSUME NEW n \in DOMAIN note, ReadLinks(n) \/ CommitNote(n) \/ DeleteNote(n) \/ AttachPhoto(n)
      PROVE  NotesUnderWay'
  <2>1. PICK new : new = RowsFor(n)
    OBVIOUS
  <2>2. PICK m \in Note :
          /\ note' = [note EXCEPT ![n] = m]
          /\ note[n].stage = "stored" \/ CommitNote(n) => m.stage = "stored"
          /\ m.rows = note[n].rows \/ m.rows = new \/ m.rows = {}
          /\ UNCHANGED forward
          /\ CommitNote(n) \/ UNCHANGED queue
    BY <1>3, <2>1, NoteMoves
  <2>3. /\ DOMAIN note' = DOMAIN note /\ note'[n] = m
        /\ \A k \in DOMAIN note : k # n => note'[k] = note[k]
    BY <1>1, <2>2
  <2>4. \A k \in DOMAIN note : note[k].stage = "stored" => note'[k].stage = "stored"
    BY <2>2, <2>3
  <2>5. \A r \in m.rows :
          /\ r.note = n /\ r.status = "pending" /\ r.tries = 0
          /\ \A s \in m.rows : s.issue = r.issue => s = r
    <3>1. CASE m.rows = new
      BY <2>1, <3>1, RowsOfNote
    <3>2. CASE m.rows = note[n].rows
      BY <3>2 DEF NotesUnderWay
    <3>3. QED
      BY <2>2, <3>1, <3>2
  <2>6. \A k \in DOMAIN queue' : note'[queue'[k].note].stage = "stored"
    <3>1. CASE CommitNote(n)
      <4>1. \A k \in DOMAIN queue' : IF k \in DOMAIN queue THEN queue'[k] = queue[k] ELSE queue'[k].note = n
        BY <3>1, CommitNoteGrows
      <4>2. QED
        BY <1>1, <2>2, <2>3, <2>4, <3>1, <4>1 DEF NotesUnderWay
    <3>2. CASE UNCHANGED queue
      BY <1>1, <2>4, <3>2 DEF NotesUnderWay
    <3>3. QED
      BY <2>2, <3>1, <3>2
  <2>7. QED
    BY <1>1, <2>2, <2>3, <2>4, <2>5, <2>6 DEF NotesUnderWay
<1>4. ASSUME NEW r \in Forwards,
             \/ ForwardStep(r)
             \/ \E wos \in SUBSET Orders, key \in IdemKeys \cup {NoOne}, u \in Owners : Plan(r, wos, key, u)
      PROVE  NotesUnderWay'
  <2>1. PICK q \in Forward :
          /\ forward' = [forward EXCEPT ![r] = q]
          /\ \A n \in q.notes : n \in forward[r].notes \/ note[n].stage = "stored"
    BY <1>4, ForwardMoves
  <2>2. \A p \in Forwards : \A n \in forward'[p].notes :
          n \in forward[p].notes \/ note[n].stage = "stored"
    BY <1>1, <2>1
  <2>3. note' = note /\ (QueueNotes(r) \/ queue' = queue)
    BY <1>4 DEF ForwardStep, CreateIssue, CreateFails, LinkOne, QueueNotes, ForwardCrashes, Plan
  <2>4. CASE QueueNotes(r)
    <3>1. \A m \in DOMAIN queue' :
            IF m \in DOMAIN queue THEN queue'[m] = queue[m] ELSE queue'[m].note \in forward[r].notes
      BY <2>4, QueueNotesGrows
    <3>2. QED
      BY <2>2, <2>3, <3>1, UnderWayStays
  <2>5. CASE queue' = queue
    BY <2>2, <2>3, <2>5, UnderWayStays
  <2>6. QED
    BY <2>3, <2>4, <2>5
<1>5. ASSUME NEW f \in Syncs, SyncStep(f)
      PROVE  NotesUnderWay'
  <2>1. note' = note
    BY <1>5 DEF SyncStep, SyncSelect, LookUp, Withheld, Upload, UploadFails, Comment, CommentFails,
                Settle, SyncCrashes
  <2>2. forward' = forward \/ (f \in Forwards /\ forward' = [forward EXCEPT ![f] = NoForward])
    BY <1>5 DEF SyncStep, SyncSelect, LookUp, Withheld, Upload, UploadFails, Comment, CommentFails,
                Settle, SyncCrashes
  <2>3. \A p \in Forwards : \A n \in forward'[p].notes : n \in forward[p].notes
    <3>1. NoForward.notes = {}
      BY DEF NoForward
    <3>2. QED
      BY <1>1, <2>2, <3>1
  <2>4. QED
    BY <1>5, <2>1, <2>3, RowsKeepTheirNote, UnderWayStays
<1>6. CASE \/ \E l \in Links : RemoveLink(l) \/ \E u \in Owners \cup {NoOne} : RecordLink(l, u)
           \/ \E u \in Owners : StoreToken(u) \/ RevokeToken(u)
           \/ UNCHANGED syncVars
  <2>1. note' = note /\ queue' = queue /\ forward' = forward
    BY <1>6 DEF RemoveLink, RecordLink, StoreToken, RevokeToken, syncVars
  <2>2. QED
    BY <2>1, UnderWayStays
<1>7. QED
  BY <1>2, <1>3, <1>4, <1>5, <1>6 DEF SyncNext

LEMMA QueueInvHolds == SyncSpec => [](QueueInv /\ NotesUnderWay)
<1>1. SyncInit => NotesUnderWay
  BY DEF SyncInit, NotesUnderWay, NoForward
<1>2. QED
  BY <1>1, QueueInvInit, QueueInvNext, NotesUnderWayNext, PTL DEF SyncSpec

\* However new notes, forwards and flushes race, and whichever of them crash, a note has one
\* row for each issue it goes to, and a comment or photos that Jira has twice have a lost
\* answer, a crash or an overlap of two flushes behind them, which is on record: flush_outbox
\* never sends what it sent before on its own.
THEOREM CommentsGoOnceHolds == SyncSpec => []CommentsGoOnce
<1>1. QueueInv => CommentsGoOnce
  <2> SUFFICES ASSUME QueueInv
               PROVE  RepeatsExcused
    BY DEF QueueInv, CommentsGoOnce
  <2>1. ASSUME NEW n \in QueueRows, comments[n] > 1 \/ uploads[n] > 1, n \notin repeated
        PROVE  FALSE
    <3>1. comments[n] \in Nat /\ uploads[n] \in Nat
      BY DEF QueueInv, SyncTypeOK
    <3>2. n \in DOMAIN queue
      BY <2>1 DEF QueueInv, UnqueuedSilent
    <3>3. comments[n] > 0 => comments[n] = 1
      BY <2>1, <3>2 DEF QueueInv, CommentsKnown
    <3>4. uploads[n] > 0 => uploads[n] = 1
      BY <2>1, <3>2 DEF QueueInv, UploadsKnown
    <3>5. QED
      BY <2>1, <3>1, <3>3, <3>4
  <2>2. QED
    BY <2>1 DEF RepeatsExcused
<1>2. QED
  BY <1>1, QueueInvHolds, PTL

-----------------------------------------------------------------------------
(***************************************************************************)
(* Deleted notes stay home.                                                *)
(***************************************************************************)
\* The steps that add a comment, each of the row at hand, which the flush read as not deleted.
LEMMA CommentsMove ==
  ASSUME QueueInv, [SyncNext]_syncVars
  PROVE  \/ comments' = comments
         \/ \E f \in Syncs :
              /\ Comment(f) \/ CommentFails(f)
              /\ sync[f].pc = "send" /\ ~Row(f).deleted
              /\ comments' = [comments EXCEPT ![AtHand(f)] = @ + 1]
<1>1. CASE \/ \E w \in Orders : AddNote(w) \/ TransitionNote(w)
           \/ \E n \in DOMAIN note : ReadLinks(n) \/ CommitNote(n) \/ DeleteNote(n) \/ AttachPhoto(n)
           \/ \E l \in Links : RemoveLink(l) \/ \E u \in Owners \cup {NoOne} : RecordLink(l, u)
           \/ \E u \in Owners : StoreToken(u) \/ RevokeToken(u)
           \/ UNCHANGED syncVars
  BY <1>1 DEF AddNote, TransitionNote, ReadLinks, CommitNote, DeleteNote, AttachPhoto, RemoveLink,
              RecordLink, StoreToken, RevokeToken, syncVars
<1>2. CASE \E r \in Forwards :
             \/ ForwardStep(r)
             \/ \E wos \in SUBSET Orders, key \in IdemKeys \cup {NoOne}, u \in Owners : Plan(r, wos, key, u)
  BY <1>2 DEF ForwardStep, CreateIssue, CreateFails, LinkOne, QueueNotes, ForwardCrashes, Plan
<1>3. ASSUME NEW f \in Syncs, SyncStep(f), ~Comment(f), ~CommentFails(f)
      PROVE  comments' = comments
  BY <1>3 DEF SyncStep, SyncSelect, LookUp, Withheld, Upload, UploadFails, Settle, SyncCrashes
<1>4. ASSUME NEW f \in Syncs, Comment(f) \/ CommentFails(f)
      PROVE  /\ sync[f].pc = "send" /\ ~Row(f).deleted
             /\ comments' = comments \/ comments' = [comments EXCEPT ![AtHand(f)] = @ + 1]
  BY <1>4 DEF Comment, CommentFails, MaySend
<1>5. QED
  BY <1>1, <1>2, <1>3, <1>4 DEF SyncNext

\* A note that was deleted before any flush or forward under way read it does not become a
\* comment: every comment comes from a row that its flush read as not deleted.
THEOREM DeletedNotesStay == SyncSpec => DeletedNotesStayHome
<1>1. ASSUME QueueInv, [SyncNext]_syncVars, NEW n \in DOMAIN queue, ~ReadAlive(n)
      PROVE  comments'[n] = comments[n]
  <2>1. CASE comments' = comments
    BY <2>1
  <2>2. ASSUME NEW f \in Syncs, sync[f].pc = "send", ~Row(f).deleted,
               comments' = [comments EXCEPT ![AtHand(f)] = @ + 1]
        PROVE  comments'[n] = comments[n]
    <3>1. 1 \in DOMAIN sync[f].todo /\ Row(f) = sync[f].todo[1]
      BY <1>1, <2>2, AtHandIsHeld
    <3>2. n # AtHand(f)
      BY <1>1, <2>2, <3>1 DEF ReadAlive, AtHand
    <3>3. comments \in [QueueRows -> Nat] /\ n \in QueueRows
      BY <1>1, QueueRowsOnly DEF QueueInv, SyncTypeOK
    <3>4. QED
      BY <2>2, <3>2, <3>3
  <2>3. QED
    BY <1>1, <2>1, <2>2, CommentsMove
<1>2. QueueInv /\ [SyncNext]_syncVars =>
        [\A n \in DOMAIN queue :
           note[queue[n].note].deleted /\ ~ReadAlive(n) => comments'[n] = comments[n]]_syncVars
  BY <1>1
<1>3. QED
  BY <1>2, QueueInvHolds, PTL DEF SyncSpec, DeletedNotesStayHome

-----------------------------------------------------------------------------
(***************************************************************************)
(* The queue implements Delivery.                                          *)
(***************************************************************************)
\* What a step does to a row of the queue, in the words of Delivery.
LEMMA StageKept ==
  ASSUME NEW n \in QueueRows, n \in DOMAIN queue, n \in DOMAIN queue',
         queue'[n].status = queue[n].status
  PROVE  CommentStage(n)' = CommentStage(n)
  BY DEF CommentStage

\* Rows that join the queue are queued, all of them in one step.
LEMMA GrowthIsQueue ==
  ASSUME DOMAIN queue \subseteq DOMAIN queue', comments' = comments,
         \A n \in DOMAIN queue : queue'[n] = queue[n],
         \A n \in DOMAIN queue' \ DOMAIN queue : queue'[n].status = "pending"
  PROVE  \E ms \in SUBSET QueueRows : CommentQueue!Queue(ms)
<1> DEFINE ms == {n \in QueueRows : n \in DOMAIN queue' \ DOMAIN queue}
<1>1. \A n \in QueueRows : CommentStage(n)' = IF n \in ms THEN "queued" ELSE CommentStage(n)
  BY DEF CommentStage
<1>2. \A n \in ms : CommentStage(n) = "new"
  BY DEF CommentStage
<1>3. CommentQueue!Queue(ms)
  BY <1>1, <1>2 DEF CommentQueue!Queue
<1>4. QED
  BY <1>3

\* A step that changes what is recorded of no row, and adds no comment, is a stutter.
LEMMA QuietIsStutter ==
  ASSUME DOMAIN queue' = DOMAIN queue, \A n \in DOMAIN queue : queue'[n].status = queue[n].status,
         comments' = comments
  PROVE  UNCHANGED CommentQueue!vars
<1>1. \A n \in QueueRows : CommentStage(n)' = CommentStage(n)
  BY DEF CommentStage
<1>2. QED
  BY <1>1 DEF CommentQueue!vars

\* A comment of a queued row that Jira adds.
LEMMA CommentIsLeave ==
  ASSUME QueueInv, NEW n \in QueueRows, n \in DOMAIN queue, queue' = queue,
         comments' = [comments EXCEPT ![n] = @ + 1]
  PROVE  CommentQueue!Leave(n)
<1>1. CommentStage(n) # "new"
  <2>1. queue[n] \in QueueRow
    BY DEF QueueInv, SyncTypeOK
  <2>2. QED
    BY <2>1 DEF CommentStage, QueueRow
<1>2. [m \in QueueRows |-> CommentStage(m)]' = [m \in QueueRows |-> CommentStage(m)]
  BY DEF CommentStage
<1>3. QED
  BY <1>1, <1>2 DEF CommentQueue!Leave

\* _mark records what Jira was seen to take, or a failure, or what is recorded already.
LEMMA SettleIsRecord ==
  ASSUME QueueInv, NEW f \in Syncs, Settle(f), NEW c, c = AtHand(f)
  PROVE  \/ CommentQueue!RecordSent(c) \/ CommentQueue!RecordFailed(c)
         \/ UNCHANGED CommentQueue!vars
<1>0. PICK r, seen : r = Settled(f, c) /\ seen = Row(f)
  OBVIOUS
<1>1. sync[f].pc = "mark" /\ comments' = comments /\ queue' = [queue EXCEPT ![c] = r]
  BY <1>0 DEF Settle
<1>2. /\ 1 \in DOMAIN sync[f].todo /\ seen = sync[f].todo[1] /\ seen \in RowRead
      /\ c \in DOMAIN queue /\ c \in QueueRows
  BY <1>0, <1>1, AtHandIsHeld
<1>3. queue \in Seq(QueueRow) /\ queue[c] \in QueueRow /\ Tidy(sync[f])
  BY <1>2 DEF QueueInv, SyncTypeOK, TidySyncs
<1>4. CommentStage(c) # "new"
  BY <1>2, <1>3 DEF CommentStage, QueueRow
<1>5. /\ DOMAIN queue' = DOMAIN queue /\ queue'[c] = r
      /\ \A n \in DOMAIN queue : n # c => queue'[n] = queue[n]
  BY <1>1, <1>2, <1>3
<1>6. \A n \in QueueRows : n # c => CommentStage(n)' = CommentStage(n)
  BY <1>5 DEF CommentStage
<1>7. seen.status \in {"pending", "failed"}
  BY <1>2, <1>3 DEF Tidy, RowRead
<1>8. /\ sync[f].went => r.status = "sent"
      /\ ~sync[f].went => r.status = Written("failed", seen.status, queue[c].status)
  BY <1>0, <1>1, SettledIsRow
<1>9. sync[f].went => comments[c] > 0
  BY <1>1, <1>3 DEF Tidy, AtHand, Row
<1>10. CASE sync[f].went
  <2>1. r.status = "sent"
    BY <1>10, <1>8
  <2>2. CommentStage(c)' = "sent"
    BY <1>2, <1>5, <2>1 DEF CommentStage
  <2>3. comments[c] > 0
    BY <1>10, <1>9
  <2>4. [n \in QueueRows |-> CommentStage(n)]' = [[n \in QueueRows |-> CommentStage(n)] EXCEPT ![c] = "sent"]
    BY <1>2, <1>6, <2>2
  <2>5. CommentQueue!RecordSent(c)
    BY <1>1, <1>2, <1>4, <2>3, <2>4 DEF CommentQueue!RecordSent
  <2>6. QED
    BY <2>5
<1>11. CASE ~sync[f].went /\ seen.status = "pending"
  <2>1. r.status = "failed"
    BY <1>11, <1>8 DEF Written
  <2>2. CommentStage(c)' = "failed"
    BY <1>2, <1>5, <2>1 DEF CommentStage
  <2>3. [n \in QueueRows |-> CommentStage(n)]' = [[n \in QueueRows |-> CommentStage(n)] EXCEPT ![c] = "failed"]
    BY <1>2, <1>6, <2>2
  <2>4. CommentQueue!RecordFailed(c)
    BY <1>1, <1>2, <1>4, <2>3 DEF CommentQueue!RecordFailed
  <2>5. QED
    BY <2>4
<1>12. CASE ~sync[f].went /\ seen.status = "failed"
  <2>1. r.status = queue[c].status
    BY <1>12, <1>8 DEF Written
  <2>2. CommentStage(c)' = CommentStage(c)
    BY <1>2, <1>5, <2>1, StageKept
  <2>3. [n \in QueueRows |-> CommentStage(n)]' = [n \in QueueRows |-> CommentStage(n)]
    BY <1>6, <2>2
  <2>4. QED
    BY <1>1, <2>3 DEF CommentQueue!vars
<1>13. QED
  BY <1>7, <1>10, <1>11, <1>12

LEMMA StepRefines ==
  ASSUME QueueInv, NotesUnderWay, [SyncNext]_syncVars
  PROVE  [CommentQueue!Next]_CommentQueue!vars
<1>1. ASSUME NEW n \in DOMAIN note, CommitNote(n)
      PROVE  [CommentQueue!Next]_CommentQueue!vars
  <2>1. /\ comments' = comments /\ DOMAIN queue \subseteq DOMAIN queue'
        /\ \A k \in DOMAIN queue : queue'[k] = queue[k]
        /\ \A k \in DOMAIN queue' \ DOMAIN queue : queue'[k].status = "pending"
    BY <1>1, CommitNoteGrows DEF CommitNote
  <2>2. QED
    BY <2>1, GrowthIsQueue DEF CommentQueue!Next
<1>2. ASSUME NEW r \in Forwards, QueueNotes(r)
      PROVE  [CommentQueue!Next]_CommentQueue!vars
  <2>1. /\ comments' = comments /\ DOMAIN queue \subseteq DOMAIN queue'
        /\ \A n \in DOMAIN queue : queue'[n] = queue[n]
        /\ \A n \in DOMAIN queue' \ DOMAIN queue : queue'[n].status = "pending"
    BY <1>2, QueueNotesGrows DEF QueueNotes
  <2>2. QED
    BY <2>1, GrowthIsQueue DEF CommentQueue!Next
<1>3. ASSUME NEW f \in Syncs, Comment(f) \/ CommentFails(f)
      PROVE  [CommentQueue!Next]_CommentQueue!vars
  <2>1. /\ sync[f].pc = "send" /\ queue' = queue
        /\ comments' = comments \/ comments' = [comments EXCEPT ![AtHand(f)] = @ + 1]
    BY <1>3 DEF Comment, CommentFails, MaySend
  <2>2. AtHand(f) \in QueueRows /\ AtHand(f) \in DOMAIN queue
    BY <2>1, AtHandIsHeld
  <2>3. CASE comments' = comments
    BY <2>1, <2>3, QuietIsStutter
  <2>4. CASE comments' = [comments EXCEPT ![AtHand(f)] = @ + 1]
    BY <2>1, <2>2, <2>4, CommentIsLeave DEF CommentQueue!Next
  <2>5. QED
    BY <2>1, <2>3, <2>4
<1>4. ASSUME NEW f \in Syncs, Settle(f)
      PROVE  [CommentQueue!Next]_CommentQueue!vars
  <2>1. PICK c : c = AtHand(f)
    OBVIOUS
  <2>2. c \in QueueRows
    BY <1>4, <2>1, AtHandIsHeld DEF Settle
  <2>3. QED
    BY <1>4, <2>1, <2>2, SettleIsRecord DEF CommentQueue!Next
<1>5. ASSUME NEW f \in Syncs, Upload(f)
      PROVE  [CommentQueue!Next]_CommentQueue!vars
  <2>1. PICK c : c = AtHand(f)
    OBVIOUS
  <2>2. c \in DOMAIN queue /\ queue \in Seq(QueueRow) /\ queue[c] \in QueueRow
    BY <1>5, <2>1, AtHandIsHeld DEF Upload, MaySend, QueueInv, SyncTypeOK
  <2>3. queue' = [queue EXCEPT ![c].uploaded = TRUE] /\ comments' = comments
    BY <1>5, <2>1 DEF Upload
  <2>4. DOMAIN queue' = DOMAIN queue /\ \A n \in DOMAIN queue : queue'[n].status = queue[n].status
    BY <2>2, <2>3 DEF QueueRow
  <2>5. QED
    BY <2>3, <2>4, QuietIsStutter
<1>6. ASSUME NEW f \in Syncs,
             SyncSelect(f) \/ LookUp(f) \/ Withheld(f) \/ UploadFails(f) \/ SyncCrashes(f)
      PROVE  queue' = queue /\ comments' = comments
  BY <1>6 DEF SyncSelect, LookUp, Withheld, UploadFails, SyncCrashes
<1>7. ASSUME NEW r \in Forwards,
             \/ CreateIssue(r) \/ CreateFails(r) \/ LinkOne(r) \/ ForwardCrashes(r)
             \/ \E wos \in SUBSET Orders, key \in IdemKeys \cup {NoOne}, u \in Owners : Plan(r, wos, key, u)
      PROVE  queue' = queue /\ comments' = comments
  BY <1>7 DEF CreateIssue, CreateFails, LinkOne, ForwardCrashes, Plan
<1>8. ASSUME \/ \E w \in Orders : AddNote(w) \/ TransitionNote(w)
             \/ \E n \in DOMAIN note : ReadLinks(n) \/ DeleteNote(n) \/ AttachPhoto(n)
             \/ \E l \in Links : RemoveLink(l) \/ \E u \in Owners \cup {NoOne} : RecordLink(l, u)
             \/ \E u \in Owners : StoreToken(u) \/ RevokeToken(u)
             \/ UNCHANGED syncVars
      PROVE  queue' = queue /\ comments' = comments
  BY <1>8 DEF AddNote, TransitionNote, ReadLinks, DeleteNote, AttachPhoto, RemoveLink, RecordLink,
              StoreToken, RevokeToken, syncVars
<1>9. CASE queue' = queue /\ comments' = comments
  BY <1>9, QuietIsStutter
<1>10. QED
  BY <1>1, <1>2, <1>3, <1>4, <1>5, <1>6, <1>7, <1>8, <1>9 DEF SyncNext, SyncStep, ForwardStep

\* The queue implements Delivery: a comment is added only for a row of the queue, and a row
\* says "sent" only when Jira has its comment.
THEOREM CommentsDeliveredHolds == SyncSpec => CommentsDelivered
<1>1. SyncInit => CommentQueue!Init
  BY DEF SyncInit, CommentQueue!Init, CommentStage
<1>2. QueueInv /\ NotesUnderWay /\ [SyncNext]_syncVars => [CommentQueue!Next]_CommentQueue!vars
  BY StepRefines
<1>3. QED
  BY <1>1, <1>2, QueueInvHolds, PTL DEF SyncSpec, CommentsDelivered, CommentQueue!Spec

-----------------------------------------------------------------------------
(***************************************************************************)
(* The inductive invariant of links and forwards.                          *)
(***************************************************************************)
\* Links, and the forwards that have one, are of issues that were opened.
LinksAtHome == \A l \in Links : link[l].state # "none" => l.issue \in DOMAIN issue

ForwardsAtHome ==
  \A r \in Forwards :
    /\ forward[r].pc \in {"idle", "create"} => forward[r].issue = 0
    /\ forward[r].pc \in {"link", "queue", "flush"} => forward[r].issue \in DOMAIN issue

LinkOf(q, w) == [wo |-> w, issue |-> q.issue, type |-> "forwarded"]

\* A forward that opens an issue has linked what it no longer has to.
Linked(q) ==
  /\ q.pc = "create" => q.todo = q.wos
  /\ q.todo \subseteq q.wos
  /\ q.key = NoOne =>
       /\ q.pc \in {"link", "queue", "flush"} => \A w \in q.wos \ q.todo : link[LinkOf(q, w)].state # "none"
       /\ q.pc \in {"queue", "flush"} => q.todo = {}

ForwardsLink == \A r \in Forwards : Linked(forward[r])

ForwardsQueue ==
  \A r \in Forwards :
    forward[r].pc = "flush" => \A n \in forward[r].notes : Queued(n, forward[r].issue)

\* No two forwards link one issue.
IssuesApart ==
  \A q, r \in Forwards :
    q # r /\ forward[q].pc = "link" /\ forward[r].pc = "link" => forward[q].issue # forward[r].issue

\* The issue of a key is found by a live link, or the one forward that opens it has linked
\* nothing yet and finds its links unmade.
OneKey(k) ==
  /\ \A i, j \in DOMAIN issue : issue[i] = k /\ issue[j] = k => i = j
  /\ \A i \in DOMAIN issue :
       issue[i] = k => Keyed(k) # {} \/ \E r \in Opening(k) : forward[r].pc = "link"
  /\ \A q, r \in Opening(k) : q = r
  /\ \A r \in Opening(k) :
       /\ forward[r].pc = "create" => \A i \in DOMAIN issue : issue[i] # k
       /\ forward[r].pc = "link" => \A w \in forward[r].wos : link[LinkOf(forward[r], w)].state = "none"

ForwardInv ==
  /\ LinksAtHome /\ ForwardsAtHome /\ ForwardsLink /\ ForwardsQueue /\ IssuesApart
  /\ \A k \in IdemKeys \ excused : OneKey(k)

-----------------------------------------------------------------------------
(***************************************************************************)
(* What the steps of the queue leave of it.                                *)
(***************************************************************************)
\* A note that is queued for an issue stays queued.
LEMMA QueuedStays ==
  ASSUME QueueInv, NotesUnderWay, [SyncNext]_syncVars
  PROVE  \A n, i : Queued(n, i) => Queued(n, i)'
<1>1. ASSUME NEW k \in DOMAIN note, CommitNote(k)
      PROVE  \A n, i : Queued(n, i) => Queued(n, i)'
  BY <1>1, CommitNoteGrows DEF Queued
<1>2. ASSUME \E r \in Forwards : QueueNotes(r)
      PROVE  \A n, i : Queued(n, i) => Queued(n, i)'
  BY <1>2, QueueNotesGrows DEF Queued
<1>3. ASSUME NEW f \in Syncs, SyncStep(f)
      PROVE  \A n, i : Queued(n, i) => Queued(n, i)'
  BY <1>3, RowsKeepTheirNote DEF Queued
<1>5. CASE queue' = queue
  BY <1>5 DEF Queued
<1>7. ASSUME NEW r \in Forwards,
             \/ CreateIssue(r) \/ CreateFails(r) \/ LinkOne(r) \/ ForwardCrashes(r)
             \/ \E wos \in SUBSET Orders, key \in IdemKeys \cup {NoOne}, u \in Owners : Plan(r, wos, key, u)
      PROVE  queue' = queue
  BY <1>7 DEF CreateIssue, CreateFails, LinkOne, ForwardCrashes, Plan
<1>8. ASSUME \/ \E w \in Orders : AddNote(w) \/ TransitionNote(w)
             \/ \E n \in DOMAIN note : ReadLinks(n) \/ DeleteNote(n) \/ AttachPhoto(n)
             \/ \E l \in Links : RemoveLink(l) \/ \E u \in Owners \cup {NoOne} : RecordLink(l, u)
             \/ \E u \in Owners : StoreToken(u) \/ RevokeToken(u)
             \/ UNCHANGED syncVars
      PROVE  queue' = queue
  BY <1>8 DEF AddNote, TransitionNote, ReadLinks, DeleteNote, AttachPhoto, RemoveLink, RecordLink,
              StoreToken, RevokeToken, syncVars
<1>9. QED
  BY <1>1, <1>2, <1>3, <1>5, <1>7, <1>8 DEF SyncNext, ForwardStep

\* A step that opens no issue for a key and starts no forward for it, keeps a link that names
\* its issue, and makes none of the links that the forward opening it is to make.
LEMMA KeyKept ==
  ASSUME NEW k \in IdemKeys, OneKey(k),
         \A i \in DOMAIN issue' : issue'[i] = k => i \in DOMAIN issue /\ issue[i] = k,
         Keyed(k) # {} => Keyed(k)' # {},
         \A r \in Opening(k)' :
           /\ r \in Opening(k) /\ forward'[r].pc = forward[r].pc
           /\ forward'[r].issue = forward[r].issue /\ forward'[r].wos = forward[r].wos,
         \A r \in Opening(k) :
           forward[r].pc = "link" => Keyed(k)' # {} \/ (r \in Opening(k)' /\ forward'[r].pc = "link"),
         \A r \in Opening(k)' : forward[r].pc = "link" =>
           \A w \in forward[r].wos : link[LinkOf(forward[r], w)].state = "none" =>
                                     link'[LinkOf(forward[r], w)].state = "none"
  PROVE  OneKey(k)'
<1>1. \A i, j \in DOMAIN issue' : issue'[i] = k /\ issue'[j] = k => i = j
  BY DEF OneKey
<1>2. ASSUME NEW i \in DOMAIN issue', issue'[i] = k
      PROVE  Keyed(k)' # {} \/ \E r \in Opening(k)' : forward'[r].pc = "link"
  <2>1. Keyed(k) # {} \/ \E r \in Opening(k) : forward[r].pc = "link"
    BY <1>2 DEF OneKey
  <2>2. QED
    BY <2>1
<1>3. \A q, r \in Opening(k)' : q = r
  BY DEF OneKey
<1>4. ASSUME NEW r \in Opening(k)'
      PROVE  /\ forward'[r].pc = "create" => \A i \in DOMAIN issue' : issue'[i] # k
             /\ forward'[r].pc = "link" =>
                  \A w \in forward'[r].wos : link'[LinkOf(forward[r], w)'].state = "none"
  <2>1. \A w : LinkOf(forward[r], w)' = LinkOf(forward[r], w)
    BY DEF LinkOf
  <2>2. QED
    BY <1>4, <2>1 DEF OneKey
<1>5. QED
  BY <1>1, <1>2, <1>3, <1>4 DEF OneKey

\* The steps that are not about links, issues and forwards; a flush ends the forward it is of.
LEMMA QuietStepsKeep ==
  ASSUME QueueInv, ForwardInv, \A n, i : Queued(n, i) => Queued(n, i)',
         UNCHANGED <<link, issue, excused>>,
         \/ forward' = forward
         \/ \E r \in Forwards : forward[r].pc = "flush" /\ forward' = [forward EXCEPT ![r] = NoForward]
  PROVE  ForwardInv'
<1>1. forward \in [Forwards -> Forward]
  BY DEF QueueInv, SyncTypeOK
<1>2. /\ NoForward.pc = "idle" /\ NoForward.issue = 0 /\ NoForward.notes = {}
      /\ NoForward.todo \subseteq NoForward.wos
  BY DEF NoForward
<1>3. \A r \in Forwards : forward'[r] = forward[r] \/ (forward'[r] = NoForward /\ forward[r].pc = "flush")
  BY <1>1
<1>4. LinksAtHome' /\ ForwardsAtHome'
  BY <1>2, <1>3 DEF ForwardInv, LinksAtHome, ForwardsAtHome
<1>5. ForwardsLink'
  BY <1>2, <1>3 DEF ForwardInv, ForwardsLink, Linked, LinkOf
<1>6. ForwardsQueue'
  BY <1>2, <1>3 DEF ForwardInv, ForwardsQueue
<1>7. IssuesApart'
  BY <1>2, <1>3 DEF ForwardInv, IssuesApart
<1>8. ASSUME NEW k \in IdemKeys \ excused'
      PROVE  OneKey(k)'
  <2>1. OneKey(k)
    BY <1>8 DEF ForwardInv
  <2>2. Keyed(k)' = Keyed(k)
    BY DEF Keyed
  <2>3. \A r \in Forwards : forward[r].pc \in {"create", "link"} => forward'[r] = forward[r]
    BY <1>3
  <2>4. \A r : r \in Opening(k)' <=> r \in Opening(k)
    BY <1>2, <1>3, <2>3 DEF Opening
  <2>5. \A r \in Opening(k) : forward'[r] = forward[r]
    BY <2>3 DEF Opening
  <2>6. QED
    BY <2>1, <2>2, <2>4, <2>5, KeyKept
<1>9. QED
  BY <1>4, <1>5, <1>6, <1>7, <1>8 DEF ForwardInv

\* record_external_link and its removal, by hand.
LEMMA HandLinksKeep ==
  ASSUME QueueInv, ForwardInv, \A n, i : Queued(n, i) => Queued(n, i)',
         NEW l \in Links, RemoveLink(l) \/ \E u \in Owners \cup {NoOne} : RecordLink(l, u)
  PROVE  ForwardInv'
<1>1. /\ forward \in [Forwards -> Forward] /\ link \in [Links -> Link] /\ link[l] \in Link
      /\ link[l].state \in {"none", "live", "removed"}
  <2>1. forward \in [Forwards -> Forward] /\ link \in [Links -> Link]
    BY DEF QueueInv, SyncTypeOK
  <2>2. QED
    BY <2>1 DEF Link
<1>2. PICK new : /\ link' = [link EXCEPT ![l] = new] /\ new.state # "none"
                 /\ \/ link[l].state = "live" /\ excused' = excused \cup {k \in IdemKeys : Keyed(k) = {l}}
                    \/ /\ link[l].state # "live" /\ l.issue \in DOMAIN issue
                       /\ excused' = excused \cup {k \in IdemKeys : l.type = "forwarded"
                                          /\ \E r \in Opening(k) : forward[r].issue = l.issue}
                 /\ UNCHANGED <<issue, forward>>
  <2>1. CASE RemoveLink(l)
    <3>1. PICK new : new = [link[l] EXCEPT !.state = "removed"]
      OBVIOUS
    <3>2. new.state = "removed"
      BY <1>1, <3>1 DEF Link
    <3>3. link' = [link EXCEPT ![l] = new] /\ link[l].state = "live" /\ UNCHANGED <<issue, forward>>
      BY <1>1, <2>1, <3>1 DEF RemoveLink
    <3>4. excused' = excused \cup {k \in IdemKeys : Keyed(k) = {l}}
      BY <2>1 DEF RemoveLink
    <3>5. QED
      BY <3>2, <3>3, <3>4
  <2>2. ASSUME NEW u \in Owners \cup {NoOne}, RecordLink(l, u)
        PROVE  \E new : /\ link' = [link EXCEPT ![l] = new] /\ new.state # "none"
                        /\ link[l].state # "live" /\ l.issue \in DOMAIN issue
                        /\ excused' = excused \cup {k \in IdemKeys : l.type = "forwarded"
                                           /\ \E r \in Opening(k) : forward[r].issue = l.issue}
                        /\ UNCHANGED <<issue, forward>>
    <3>1. PICK new : new = Recorded(l, u, NoOne)
      OBVIOUS
    <3>2. new.state # "none"
      BY <1>1, <3>1 DEF Recorded, Link
    <3>3. link' = [link EXCEPT ![l] = new] /\ link[l].state # "live" /\ l.issue \in DOMAIN issue
          /\ UNCHANGED <<issue, forward>>
      BY <2>2, <3>1 DEF RecordLink
    <3>4. excused' = excused \cup {k \in IdemKeys : l.type = "forwarded"
                                  /\ \E r \in Opening(k) : forward[r].issue = l.issue}
      BY <2>2 DEF RecordLink
    <3>5. QED
      BY <3>2, <3>3, <3>4
  <2>3. QED
    BY <2>1, <2>2
<1>3. link'[l] = new /\ \A k \in Links : k # l => link'[k] = link[k]
  BY <1>1, <1>2
<1>4. LinksAtHome'
  BY <1>2, <1>3 DEF ForwardInv, LinksAtHome
<1>5. ForwardsAtHome' /\ ForwardsQueue'
  BY <1>2 DEF ForwardInv, ForwardsAtHome, ForwardsQueue
<1>6. ForwardsLink'
  <2>1. ASSUME NEW k, link[k].state # "none"
        PROVE  link'[k].state # "none"
    BY <1>1, <1>2, <2>1
  <2>2. QED
    BY <1>2, <2>1 DEF ForwardInv, ForwardsLink, Linked, LinkOf
<1>7. IssuesApart'
  BY <1>2 DEF ForwardInv, IssuesApart
<1>8. ASSUME NEW k \in IdemKeys \ excused'
      PROVE  OneKey(k)'
  <2>1. OneKey(k)
    BY <1>2, <1>8 DEF ForwardInv
  <2>2. Opening(k)' = Opening(k)
    BY <1>2 DEF Opening
  <2>3. Keyed(k) # {} => Keyed(k)' # {}
    <3>1. CASE link[l].state = "live"
      <4>1. Keyed(k) # {l}
        BY <1>1, <1>2, <1>8, <3>1
      <4>2. \A m \in Keyed(k) : m # l => m \in Keyed(k)'
        BY <1>3 DEF Keyed
      <4>3. QED
        BY <4>1, <4>2
    <3>2. CASE link[l].state # "live"
      <4>1. \A m \in Keyed(k) : m \in Keyed(k)'
        BY <1>3, <3>2 DEF Keyed
      <4>2. QED
        BY <4>1
    <3>3. QED
      BY <3>1, <3>2
  <2>4. ASSUME NEW r \in Opening(k), NEW w, link[LinkOf(forward[r], w)].state = "none"
        PROVE  link'[LinkOf(forward[r], w)].state = "none"
    <3>1. LinkOf(forward[r], w) # l
      <4>1. CASE link[l].state = "live"
        BY <2>4, <4>1
      <4>2. CASE link[l].state # "live"
        <5>1. ~(l.type = "forwarded" /\ \E q \in Opening(k) : forward[q].issue = l.issue)
          BY <1>1, <1>2, <1>8, <4>2
        <5>2. QED
          BY <5>1 DEF LinkOf
      <4>3. QED
        BY <4>1, <4>2
    <3>2. QED
      BY <1>1, <1>2, <2>4, <3>1
  <2>5. QED
    BY <1>2, <2>1, <2>2, <2>3, <2>4, KeyKept
<1>9. QED
  BY <1>4, <1>5, <1>6, <1>7, <1>8 DEF ForwardInv

-----------------------------------------------------------------------------
(***************************************************************************)
(* The steps of a forward.                                                 *)
(***************************************************************************)
\* A forward starts, and opens an issue only for a key with none, unless another is about to.
LEMMA PlanKeeps ==
  ASSUME QueueInv, ForwardInv, \A n, i : Queued(n, i) => Queued(n, i)', NEW r \in Forwards,
         NEW wos \in SUBSET Orders, NEW key \in IdemKeys \cup {NoOne}, NEW u \in Owners,
         Plan(r, wos, key, u)
  PROVE  ForwardInv'
<1>1. forward \in [Forwards -> Forward] /\ link \in [Links -> Link]
  BY DEF QueueInv, SyncTypeOK
<1>2. PICK read : read = {n \in DOMAIN note : note[n].stage = "stored" /\ note[n].wo \in wos
                                              /\ ~note[n].deleted}
  OBVIOUS
<1>3. PICK plan : plan = [pc |-> "create", wos |-> wos, todo |-> wos, issue |-> 0, key |-> key,
                          owner |-> u, notes |-> read]
  OBVIOUS
<1>4. /\ forward[r].pc = "idle"
      /\ \/ /\ key # NoOne
            /\ \E l \in Keyed(key) :
                 forward' = [forward EXCEPT ![r] = [plan EXCEPT !.pc = "queue", !.todo = {}, !.issue = l.issue]]
         \/ /\ key = NoOne \/ Keyed(key) = {}
            /\ forward' = [forward EXCEPT ![r] = plan]
      /\ excused' = excused \cup {k \in IdemKeys : k = key /\ Opening(k) # {}}
      /\ UNCHANGED <<link, issue>>
  BY <1>2, <1>3 DEF Plan
<1>5. PICK q : /\ forward' = [forward EXCEPT ![r] = q]
               /\ q.key = key
               /\ \/ q.pc = "create" /\ q.todo = q.wos /\ q.issue = 0 /\ (key = NoOne \/ Keyed(key) = {})
                  \/ q.pc = "queue" /\ q.todo = {} /\ key # NoOne /\ q.issue \in DOMAIN issue
  <2>1. CASE \E l \in Keyed(key) :
               key # NoOne /\ forward' = [forward EXCEPT ![r] = [plan EXCEPT !.pc = "queue", !.todo = {}, !.issue = l.issue]]
    <3>1. PICK l \in Keyed(key) :
            forward' = [forward EXCEPT ![r] = [plan EXCEPT !.pc = "queue", !.todo = {}, !.issue = l.issue]]
      BY <2>1
    <3>2. l.issue \in DOMAIN issue
      BY DEF ForwardInv, LinksAtHome, Keyed
    <3>3. PICK q : q = [plan EXCEPT !.pc = "queue", !.todo = {}, !.issue = l.issue]
      OBVIOUS
    <3>4. q.pc = "queue" /\ q.todo = {} /\ q.issue = l.issue /\ q.key = key
      BY <1>3, <3>3
    <3>5. QED
      BY <2>1, <3>1, <3>2, <3>3, <3>4
  <2>2. CASE (key = NoOne \/ Keyed(key) = {}) /\ forward' = [forward EXCEPT ![r] = plan]
    <3>1. plan.pc = "create" /\ plan.todo = plan.wos /\ plan.issue = 0 /\ plan.key = key
      BY <1>3
    <3>2. QED
      BY <2>2, <3>1
  <2>3. QED
    BY <1>4, <2>1, <2>2
<1>6. forward'[r] = q /\ \A p \in Forwards : p # r => forward'[p] = forward[p]
  BY <1>1, <1>5
<1>7. LinksAtHome' /\ ForwardsAtHome'
  BY <1>4, <1>5, <1>6 DEF ForwardInv, LinksAtHome, ForwardsAtHome
<1>8. ForwardsLink'
  <2>1. Linked(forward[r])'
    BY <1>5, <1>6 DEF Linked
  <2>2. ASSUME NEW p \in Forwards, p # r
        PROVE  Linked(forward[p])'
    <3>1. Linked(forward[p]) /\ forward'[p] = forward[p]
      BY <1>6, <2>2 DEF ForwardInv, ForwardsLink
    <3>2. QED
      BY <1>4, <3>1 DEF Linked, LinkOf
  <2>3. QED
    BY <2>1, <2>2 DEF ForwardsLink
<1>9. ForwardsQueue'
  BY <1>4, <1>5, <1>6 DEF ForwardInv, ForwardsQueue
<1>10. IssuesApart'
  <2>1. forward'[r].pc # "link"
    BY <1>5, <1>6
  <2>2. QED
    BY <1>6, <2>1 DEF ForwardInv, IssuesApart
<1>11. ASSUME NEW k \in IdemKeys \ excused'
       PROVE  OneKey(k)'
  <2>1. OneKey(k) /\ (k = key => Opening(k) = {})
    BY <1>4, <1>11 DEF ForwardInv
  <2>2. Keyed(k)' = Keyed(k)
    BY <1>4 DEF Keyed
  <2>3. r \notin Opening(k)
    BY <1>4 DEF Opening
  <2>4. \A p : p # r => (p \in Opening(k)' <=> p \in Opening(k))
    BY <1>6 DEF Opening
  <2>5. \A p \in Opening(k) : p \in Forwards /\ forward'[p] = forward[p]
    BY <1>6, <2>3 DEF Opening
  <2>6. CASE r \in Opening(k)'
    <3>1. k = key /\ q.pc = "create" /\ Keyed(k) = {}
      BY <1>5, <1>6, <2>6, SyncAssumption DEF Opening
    <3>2. Opening(k) = {}
      BY <2>1, <3>1
    <3>3. \A i \in DOMAIN issue : issue[i] # k
      BY <2>1, <3>1, <3>2 DEF OneKey
    <3>4. \A p \in Opening(k)' : p = r
      BY <2>4, <3>2
    <3>5. QED
      BY <1>4, <1>6, <3>1, <3>3, <3>4 DEF OneKey
  <2>7. CASE r \notin Opening(k)'
    <3>1. \A p : p \in Opening(k)' <=> p \in Opening(k)
      BY <2>3, <2>4, <2>7
    <3>2. QED
      BY <1>4, <2>1, <2>2, <2>5, <3>1, KeyKept
  <2>8. QED
    BY <2>6, <2>7
<1>12. QED
  BY <1>7, <1>8, <1>9, <1>10, <1>11 DEF ForwardInv

\* create_mrq: the issue is new, and so are its links.
LEMMA CreateKeeps ==
  ASSUME QueueInv, ForwardInv, \A n, i : Queued(n, i) => Queued(n, i)',
         NEW r \in Forwards, CreateIssue(r)
  PROVE  ForwardInv'
<1>1. /\ forward \in [Forwards -> Forward] /\ link \in [Links -> Link] /\ forward[r] \in Forward
      /\ issue \in Seq(IdemKeys \cup {NoOne}) /\ Len(issue) \in Nat /\ DOMAIN issue = 1..Len(issue)
  BY DEF QueueInv, SyncTypeOK
<1>2. PICK i, q : i = Len(issue) + 1 /\ q = [forward[r] EXCEPT !.pc = "link", !.issue = i]
  OBVIOUS
<1>3. /\ forward[r].pc = "create" /\ forward' = [forward EXCEPT ![r] = q]
      /\ issue' = Append(issue, forward[r].key)
      /\ UNCHANGED <<link, queue, excused>>
  BY <1>1, <1>2 DEF CreateIssue
<1>4. /\ q.pc = "link" /\ q.issue = i /\ q.key = forward[r].key /\ q.todo = forward[r].todo
      /\ q.wos = forward[r].wos
  BY <1>1, <1>2 DEF Forward
<1>5. forward'[r] = q /\ \A p \in Forwards : p # r => forward'[p] = forward[p]
  BY <1>1, <1>3
<1>6. forward[r].key \in IdemKeys \cup {NoOne}
  BY <1>1 DEF Forward
<1>7. /\ DOMAIN issue' = DOMAIN issue \cup {i} /\ i \notin DOMAIN issue
      /\ issue'[i] = q.key /\ \A j \in DOMAIN issue : issue'[j] = issue[j]
  BY <1>1, <1>2, <1>3, <1>4, <1>6, AppendProperties
<1>8. LinksAtHome' /\ ForwardsAtHome'
  BY <1>3, <1>4, <1>5, <1>7 DEF ForwardInv, LinksAtHome, ForwardsAtHome
<1>9. ForwardsQueue'
  BY <1>3, <1>4, <1>5 DEF ForwardInv, ForwardsQueue
<1>10. ForwardsLink'
  BY <1>3, <1>4, <1>5 DEF ForwardInv, ForwardsLink, Linked, LinkOf
<1>11. IssuesApart'
  BY <1>4, <1>5, <1>7 DEF ForwardInv, IssuesApart, ForwardsAtHome
<1>12. ASSUME NEW w \in q.todo
       PROVE  link[LinkOf(q, w)].state = "none"
  <2>1. LinkOf(q, w).issue = i
    BY <1>4 DEF LinkOf
  <2>2. i \in Issues
    BY <1>1, <1>2, SyncAssumption DEF Issues, CreateIssue
  <2>3. w \in Orders
    BY <1>1, <1>4, <1>12 DEF Forward
  <2>4. LinkOf(q, w) \in Links
    BY <1>4, <2>2, <2>3 DEF LinkOf, Links, LinkTypes
  <2>5. QED
    BY <1>7, <2>1, <2>4 DEF ForwardInv, LinksAtHome
<1>13. q.todo = q.wos
  BY <1>3, <1>4 DEF ForwardInv, ForwardsLink, Linked
<1>14. ASSUME NEW k \in IdemKeys \ excused'
       PROVE  OneKey(k)'
  <2>1. OneKey(k)
    BY <1>3, <1>14 DEF ForwardInv
  <2>2. Keyed(k)' = Keyed(k)
    BY <1>3 DEF Keyed
  <2>3. \A p : p # r => (p \in Opening(k)' <=> p \in Opening(k))
    BY <1>5 DEF Opening
  <2>4. \A p \in Opening(k) : p \in Forwards /\ (p # r => forward'[p] = forward[p])
    BY <1>5 DEF Opening
  <2>5. CASE q.key = k
    <3>1. r \in Opening(k)
      BY <1>3, <1>4, <1>13, <2>5 DEF Opening
    <3>2. (\A p \in Opening(k) : p = r) /\ \A j \in DOMAIN issue : issue[j] # k
      BY <1>3, <2>1, <3>1 DEF OneKey
    <3>3. r \in Opening(k)' /\ \A p \in Opening(k)' : p = r
      BY <1>4, <1>5, <1>13, <2>3, <2>5, <3>2 DEF Opening
    <3>4. \A j \in DOMAIN issue' : issue'[j] = k => j = i
      BY <1>7, <3>2
    <3>5. \A w \in forward'[r].wos : link'[LinkOf(forward[r], w)'].state = "none"
      BY <1>3, <1>5, <1>12, <1>13 DEF LinkOf
    <3>6. forward'[r].pc = "link"
      BY <1>4, <1>5
    <3>7. QED
      BY <3>3, <3>4, <3>5, <3>6 DEF OneKey
  <2>6. CASE q.key # k
    <3>1. r \notin Opening(k) /\ r \notin Opening(k)'
      BY <1>4, <1>5, <2>6 DEF Opening
    <3>2. \A j \in DOMAIN issue' : issue'[j] = k => j \in DOMAIN issue /\ issue[j] = k
      BY <1>7, <2>6
    <3>3. \A p : p \in Opening(k)' <=> p \in Opening(k)
      BY <2>3, <3>1
    <3>4. \A p \in Opening(k) : forward'[p] = forward[p]
      BY <2>4, <3>1
    <3>5. QED
      BY <1>3, <2>1, <2>2, <3>2, <3>3, <3>4, KeyKept
  <2>7. QED
    BY <2>5, <2>6
<1>15. QED
  BY <1>8, <1>9, <1>10, <1>11, <1>14 DEF ForwardInv

\* Each link is made on an issue that its forward opened, and keeps the key.
LEMMA LinkOneKeeps ==
  ASSUME QueueInv, ForwardInv, \A n, i : Queued(n, i) => Queued(n, i)',
         NEW r \in Forwards, LinkOne(r)
  PROVE  ForwardInv'
<1>1. /\ forward \in [Forwards -> Forward] /\ link \in [Links -> Link] /\ forward[r] \in Forward
      /\ forward[r].pc = "link" /\ forward[r].issue \in DOMAIN issue
      /\ issue \in Seq(IdemKeys \cup {NoOne}) /\ Len(issue) \in Nat /\ Len(issue) <= MaxIssues
      /\ UNCHANGED <<issue, excused>>
  BY DEF QueueInv, SyncTypeOK, Anchored, ForwardInv, ForwardsAtHome, LinkOne
<1>a. PICK w \in forward[r].todo :
        /\ link' = [link EXCEPT ![LinkOf(forward[r], w)] =
                      Recorded(LinkOf(forward[r], w), forward[r].owner, forward[r].key)]
        /\ forward' = [forward EXCEPT ![r].todo = @ \ {w},
                                      ![r].pc = IF forward[r].todo = {w} THEN "queue" ELSE "link"]
  BY DEF LinkOne, LinkOf
<1>2. PICK l :
        /\ w \in forward[r].todo
        /\ l = LinkOf(forward[r], w)
        /\ link' = [link EXCEPT ![l] = Recorded(l, forward[r].owner, forward[r].key)]
        /\ forward' = [forward EXCEPT ![r].todo = @ \ {w},
                                      ![r].pc = IF forward[r].todo = {w} THEN "queue" ELSE "link"]
  BY <1>a
<1>3. PICK q, new : /\ q = [forward[r] EXCEPT !.todo = @ \ {w}, !.pc = IF forward[r].todo = {w} THEN "queue" ELSE "link"]
                    /\ new = Recorded(l, forward[r].owner, forward[r].key)
  OBVIOUS
<1>4. /\ forward' = [forward EXCEPT ![r] = q] /\ link' = [link EXCEPT ![l] = new]
      /\ forward'[r] = q /\ \A p \in Forwards : p # r => forward'[p] = forward[p]
  BY <1>1, <1>2, <1>3
<1>5. /\ q.todo = forward[r].todo \ {w} /\ q.wos = forward[r].wos /\ q.notes = forward[r].notes
      /\ q.issue = forward[r].issue /\ q.key = forward[r].key /\ q.pc \in {"link", "queue"}
      /\ q.pc = "queue" => q.todo = {}
  BY <1>1, <1>3 DEF Forward
<1>6. l \in Links /\ l.type = "forwarded" /\ l.issue = forward[r].issue /\ link[l] \in Link
  <2>1. forward[r].issue \in Issues
    BY <1>1, SyncAssumption DEF Issues
  <2>2. w \in Orders
    BY <1>1, <1>2 DEF Forward
  <2>3. QED
    BY <1>1, <1>2, <2>1, <2>2 DEF LinkOf, Links, LinkTypes
<1>7. /\ link'[l] = new /\ \A k \in Links : k # l => link'[k] = link[k]
      /\ new.state # "none"
      /\ link[l].state = "none" => new.state = "live" /\ new.key = forward[r].key
  <2>1. new.state # "none" /\ (link[l].state = "none" => new.state = "live" /\ new.key = forward[r].key)
    BY <1>3, <1>6 DEF Recorded, Link
  <2>2. QED
    BY <1>1, <1>4, <1>6, <2>1
<1>8. LinksAtHome' /\ ForwardsAtHome'
  BY <1>1, <1>4, <1>5, <1>6, <1>7 DEF ForwardInv, LinksAtHome, ForwardsAtHome
<1>9. ForwardsQueue'
  BY <1>4, <1>5 DEF ForwardInv, ForwardsQueue
<1>10. ForwardsLink'
  <2>1. ASSUME NEW k, link[k].state # "none"
        PROVE  link'[k].state # "none"
    BY <1>1, <1>4, <1>7, <2>1
  <2>2. ASSUME NEW p \in Forwards, p # r
        PROVE  Linked(forward[p])'
    <3>1. Linked(forward[p]) /\ forward'[p] = forward[p]
      BY <1>4, <2>2 DEF ForwardInv, ForwardsLink
    <3>2. QED
      BY <2>1, <3>1 DEF Linked, LinkOf
  <2>3. Linked(forward[r])'
    <3>a. q.todo \subseteq q.wos
      BY <1>5 DEF ForwardInv, ForwardsLink, Linked
    <3>1. \A v \in q.wos \ q.todo : forward[r].key = NoOne => link'[LinkOf(q, v)].state # "none"
      <4>1. SUFFICES ASSUME NEW v \in q.wos \ q.todo, forward[r].key = NoOne
                     PROVE  link'[LinkOf(q, v)].state # "none"
        OBVIOUS
      <4>2. LinkOf(q, v) = LinkOf(forward[r], v)
        BY <1>5 DEF LinkOf
      <4>3. CASE v = w
        BY <1>2, <1>7, <4>2, <4>3
      <4>4. CASE v # w
        <5>1. v \in forward[r].wos \ forward[r].todo
          BY <1>5, <4>1, <4>4
        <5>2. link[LinkOf(forward[r], v)].state # "none"
          BY <1>1, <4>1, <5>1 DEF ForwardInv, ForwardsLink, Linked
        <5>3. QED
          BY <2>1, <4>2, <5>2
      <4>5. QED
        BY <4>3, <4>4
    <3>2. QED
      BY <1>4, <1>5, <3>a, <3>1 DEF Linked, LinkOf
  <2>4. QED
    BY <2>2, <2>3 DEF ForwardsLink
<1>11. IssuesApart'
  BY <1>1, <1>4, <1>5 DEF ForwardInv, IssuesApart
<1>12. w \in q.wos /\ q.todo # q.wos
  BY <1>2, <1>5 DEF ForwardInv, ForwardsLink, Linked
<1>13. ASSUME NEW k \in IdemKeys \ excused'
       PROVE  OneKey(k)'
  <2>1. OneKey(k) /\ UNCHANGED issue
    BY <1>1, <1>13 DEF ForwardInv
  <2>2. r \notin Opening(k)'
    BY <1>4, <1>12 DEF Opening
  <2>3. \A p \in Opening(k)' : p # r /\ p \in Opening(k) /\ forward'[p] = forward[p]
    BY <1>4, <2>2 DEF Opening
  <2>4. ASSUME NEW m \in Keyed(k)
        PROVE  m \in Keyed(k)'
    <3>1. m \in Links /\ link[m].state = "live"
      BY DEF Keyed
    <3>2. link'[m] = link[m]
      <4>1. CASE m = l
        BY <1>3, <1>7, <3>1, <4>1 DEF Recorded
      <4>2. CASE m # l
        BY <1>7, <3>1, <4>2
      <4>3. QED
        BY <4>1, <4>2
    <3>3. QED
      BY <3>2 DEF Keyed
  <2>5. ASSUME NEW p \in Opening(k), forward[p].pc = "link"
        PROVE  Keyed(k)' # {} \/ (p \in Opening(k)' /\ forward'[p].pc = "link")
    <3>1. CASE p = r
      <4>1. link[l].state = "none" /\ forward[r].key = k
        BY <1>2, <1>5, <1>12, <2>1, <2>5, <3>1 DEF OneKey, Opening
      <4>2. l \in Keyed(k)'
        BY <1>6, <1>7, <4>1 DEF Keyed
      <4>3. QED
        BY <4>2
    <3>2. CASE p # r
      BY <1>4, <2>5, <3>2 DEF Opening
    <3>3. QED
      BY <3>1, <3>2
  <2>6. ASSUME NEW p \in Opening(k)', forward[p].pc = "link", NEW v \in forward[p].wos,
               link[LinkOf(forward[p], v)].state = "none"
        PROVE  link'[LinkOf(forward[p], v)].state = "none"
    <3>1. p \in Forwards /\ p # r
      BY <2>3 DEF Opening
    <3>2. forward[p].issue # forward[r].issue
      BY <1>1, <2>6, <3>1 DEF ForwardInv, IssuesApart
    <3>3. LinkOf(forward[p], v) # l
      BY <1>6, <3>2 DEF LinkOf
    <3>4. QED
      BY <1>1, <1>4, <2>6, <3>3
  <2>7. QED
    BY <2>1, <2>3, <2>4, <2>5, <2>6, KeyKept
<1>14. QED
  BY <1>8, <1>9, <1>10, <1>11, <1>13 DEF ForwardInv

LEMMA QueueNotesKeeps ==
  ASSUME QueueInv, ForwardInv, \A n, i : Queued(n, i) => Queued(n, i)',
         NEW r \in Forwards, QueueNotes(r)
  PROVE  ForwardInv'
<1>1. /\ forward \in [Forwards -> Forward] /\ forward[r] \in Forward /\ forward[r].pc = "queue"
      /\ UNCHANGED <<link, issue, excused>>
  BY DEF QueueInv, SyncTypeOK, QueueNotes
<1>2. PICK q : q = [forward[r] EXCEPT !.pc = "flush"]
  OBVIOUS
<1>3. /\ q.pc = "flush" /\ q.issue = forward[r].issue /\ q.key = forward[r].key
      /\ q.todo = forward[r].todo /\ q.wos = forward[r].wos /\ q.notes = forward[r].notes
      /\ forward' = [forward EXCEPT ![r] = q]
      /\ forward'[r] = q /\ \A p \in Forwards : p # r => forward'[p] = forward[p]
  BY <1>1, <1>2 DEF Forward, QueueNotes
<1>4. LinksAtHome' /\ ForwardsAtHome'
  BY <1>1, <1>3 DEF ForwardInv, LinksAtHome, ForwardsAtHome
<1>5. ForwardsLink'
  BY <1>1, <1>3 DEF ForwardInv, ForwardsLink, Linked, LinkOf
<1>6. ForwardsQueue'
  <2>1. \A n \in q.notes : Queued(n, q.issue)'
    <3>1. \A n \in forward[r].notes :
            \E m \in DOMAIN queue' : queue'[m].note = n /\ queue'[m].issue = forward[r].issue
      BY QueueNotesGrows
    <3>2. \A n \in q.notes : \E m \in DOMAIN queue' : queue'[m].note = n /\ queue'[m].issue = q.issue
      BY <1>3, <3>1
    <3>3. QED
      BY <3>2 DEF Queued
  <2>2. ASSUME NEW p \in Forwards, forward'[p].pc = "flush", NEW n \in forward'[p].notes
        PROVE  \E m \in DOMAIN queue' : queue'[m].note = n /\ queue'[m].issue = forward'[p].issue
    <3>1. CASE p = r
      BY <1>3, <2>1, <2>2, <3>1 DEF Queued
    <3>2. CASE p # r
      <4>1. Queued(n, forward[p].issue)
        BY <1>3, <2>2, <3>2 DEF ForwardInv, ForwardsQueue
      <4>2. QED
        BY <1>3, <3>2, <4>1 DEF Queued
    <3>3. QED
      BY <3>1, <3>2
  <2>3. QED
    BY <2>2 DEF ForwardsQueue, Queued
<1>7. IssuesApart'
  BY <1>1, <1>3 DEF ForwardInv, IssuesApart
<1>8. ASSUME NEW k \in IdemKeys \ excused'
      PROVE  OneKey(k)'
  <2>1. OneKey(k)
    BY <1>1, <1>8 DEF ForwardInv
  <2>2. Keyed(k)' = Keyed(k)
    BY <1>1 DEF Keyed
  <2>3. r \notin Opening(k) /\ r \notin Opening(k)'
    BY <1>1, <1>3 DEF Opening
  <2>4. \A p : p \in Opening(k)' <=> p \in Opening(k)
    BY <1>3, <2>3 DEF Opening
  <2>5. \A p \in Opening(k) : forward'[p] = forward[p]
    BY <1>3, <2>3 DEF Opening
  <2>6. QED
    BY <1>1, <2>1, <2>2, <2>4, <2>5, KeyKept
<1>9. QED
  BY <1>4, <1>5, <1>6, <1>7, <1>8 DEF ForwardInv

\* A forward that ends on the way, an issue of it in Jira or not.
LEMMA ForwardFailureKeeps ==
  ASSUME QueueInv, ForwardInv, \A n, i : Queued(n, i) => Queued(n, i)',
         NEW r \in Forwards, CreateFails(r) \/ ForwardCrashes(r)
  PROVE  ForwardInv'
<1>1. forward \in [Forwards -> Forward] /\ issue \in Seq(IdemKeys \cup {NoOne})
      /\ forward[r].key \in IdemKeys \cup {NoOne} /\ Len(issue) \in Nat
  <2>1. forward \in [Forwards -> Forward] /\ issue \in Seq(IdemKeys \cup {NoOne})
    BY DEF QueueInv, SyncTypeOK
  <2>2. QED
    BY <2>1 DEF Forward
<1>2. /\ forward' = [forward EXCEPT ![r] = NoForward] /\ UNCHANGED link /\ excused \subseteq excused'
      /\ \/ issue' = issue
         \/ issue' = Append(issue, forward[r].key) /\ IdemKeys \cap {forward[r].key} \subseteq excused'
      /\ \A k \in IdemKeys \ excused' : forward[r].pc = "link" => r \notin Opening(k)
  BY DEF CreateFails, ForwardCrashes
<1>3. /\ NoForward.pc = "idle" /\ NoForward.issue = 0 /\ NoForward.notes = {}
      /\ NoForward.todo \subseteq NoForward.wos
  BY DEF NoForward
<1>4. \A p \in Forwards : forward'[p] = IF p = r THEN NoForward ELSE forward[p]
  BY <1>1, <1>2
<1>5. DOMAIN issue \subseteq DOMAIN issue'
  <2>1. CASE issue' = issue
    BY <2>1
  <2>2. CASE issue' = Append(issue, forward[r].key)
    BY <1>1, <2>2, AppendProperties
  <2>3. QED
    BY <1>2, <2>1, <2>2
<1>6. LinksAtHome' /\ ForwardsAtHome'
  BY <1>2, <1>3, <1>4, <1>5 DEF ForwardInv, LinksAtHome, ForwardsAtHome
<1>7. ForwardsLink'
  BY <1>2, <1>3, <1>4 DEF ForwardInv, ForwardsLink, Linked, LinkOf
<1>8. ForwardsQueue'
  BY <1>2, <1>3, <1>4 DEF ForwardInv, ForwardsQueue
<1>9. IssuesApart'
  BY <1>3, <1>4 DEF ForwardInv, IssuesApart
<1>10. ASSUME NEW k \in IdemKeys \ excused'
       PROVE  OneKey(k)'
  <2>1. OneKey(k)
    BY <1>2, <1>10 DEF ForwardInv
  <2>2. Keyed(k)' = Keyed(k)
    BY <1>2 DEF Keyed
  <2>3. r \notin Opening(k)'
    BY <1>3, <1>4 DEF Opening
  <2>4. \A p \in Opening(k)' : p # r /\ p \in Opening(k) /\ forward'[p] = forward[p]
    BY <1>4, <2>3 DEF Opening
  <2>5. \A p \in Opening(k) : forward[p].pc = "link" => p \in Opening(k)' /\ forward'[p].pc = "link"
    BY <1>2, <1>4, <1>10 DEF Opening
  <2>6. \A i \in DOMAIN issue' : issue'[i] = k => i \in DOMAIN issue /\ issue[i] = k
    <3>1. CASE issue' = issue
      BY <3>1
    <3>2. CASE issue' = Append(issue, forward[r].key) /\ IdemKeys \cap {forward[r].key} \subseteq excused'
      <4>1. forward[r].key # k
        BY <1>10, <3>2
      <4>2. /\ DOMAIN issue' = DOMAIN issue \cup {Len(issue) + 1}
            /\ issue'[Len(issue) + 1] = forward[r].key
            /\ \A i \in DOMAIN issue : issue'[i] = issue[i]
        BY <1>1, <3>2, AppendProperties
      <4>3. QED
        BY <4>1, <4>2
    <3>3. QED
      BY <1>2, <3>1, <3>2
  <2>7. \A p \in Opening(k)' : \A w : link'[LinkOf(forward[p], w)] = link[LinkOf(forward[p], w)]
    BY <1>2
  <2>8. QED
    BY <2>1, <2>2, <2>4, <2>5, <2>6, <2>7, KeyKept
<1>11. QED
  BY <1>6, <1>7, <1>8, <1>9, <1>10 DEF ForwardInv

LEMMA ForwardInvNext ==
  ASSUME QueueInv, NotesUnderWay, ForwardInv, [SyncNext]_syncVars
  PROVE  ForwardInv'
<1>1. \A n, i : Queued(n, i) => Queued(n, i)'
  BY QueuedStays
<1>2. ASSUME NEW r \in Forwards,
             \/ ForwardStep(r)
             \/ \E wos \in SUBSET Orders, key \in IdemKeys \cup {NoOne}, u \in Owners : Plan(r, wos, key, u)
      PROVE  ForwardInv'
  <2>1. ASSUME NEW wos \in SUBSET Orders, NEW key \in IdemKeys \cup {NoOne}, NEW u \in Owners,
               Plan(r, wos, key, u)
        PROVE  ForwardInv'
    BY <1>1, <2>1, PlanKeeps
  <2>2. CASE CreateIssue(r)
    BY <1>1, <2>2, CreateKeeps
  <2>3. CASE LinkOne(r)
    BY <1>1, <2>3, LinkOneKeeps
  <2>4. CASE QueueNotes(r)
    BY <1>1, <2>4, QueueNotesKeeps
  <2>5. CASE CreateFails(r) \/ ForwardCrashes(r)
    BY <1>1, <2>5, ForwardFailureKeeps
  <2>6. QED
    BY <1>2, <2>1, <2>2, <2>3, <2>4, <2>5 DEF ForwardStep
<1>3. ASSUME NEW l \in Links, RemoveLink(l) \/ \E u \in Owners \cup {NoOne} : RecordLink(l, u)
      PROVE  ForwardInv'
  BY <1>1, <1>3, HandLinksKeep
<1>4. ASSUME \/ \E w \in Orders : AddNote(w) \/ TransitionNote(w)
             \/ \E n \in DOMAIN note : ReadLinks(n) \/ CommitNote(n) \/ DeleteNote(n) \/ AttachPhoto(n)
             \/ \E u \in Owners : StoreToken(u) \/ RevokeToken(u)
             \/ UNCHANGED syncVars
      PROVE  UNCHANGED <<link, issue, excused, forward>>
  BY <1>4 DEF AddNote, TransitionNote, ReadLinks, CommitNote, DeleteNote, AttachPhoto, StoreToken,
              RevokeToken, syncVars
<1>5. ASSUME NEW f \in Syncs, SyncStep(f)
      PROVE  /\ UNCHANGED <<link, issue, excused>>
             /\ \/ forward' = forward
                \/ \E r \in Forwards : forward[r].pc = "flush" /\ forward' = [forward EXCEPT ![r] = NoForward]
  <2>1. CASE SyncSelect(f)
    BY <2>1 DEF SyncSelect
  <2>2. CASE LookUp(f) \/ Withheld(f) \/ Upload(f) \/ UploadFails(f) \/ Comment(f) \/ CommentFails(f)
             \/ Settle(f) \/ SyncCrashes(f)
    BY <2>2 DEF LookUp, Withheld, Upload, UploadFails, Comment, CommentFails, Settle, SyncCrashes
  <2>3. QED
    BY <1>5, <2>1, <2>2 DEF SyncStep
<1>6. QED
  BY <1>1, <1>2, <1>3, <1>4, <1>5, QuietStepsKeep DEF SyncNext

LEMMA ForwardInvInit == SyncInit => ForwardInv
<1> SUFFICES ASSUME SyncInit
             PROVE  ForwardInv
  OBVIOUS
<1>1. /\ NoForward.pc = "idle" /\ NoForward.issue = 0 /\ NoForward.notes = {}
      /\ NoForward.todo \subseteq NoForward.wos
      /\ NoLink.state = "none"
  BY DEF NoForward, NoLink
<1>2. /\ \A r \in Forwards : forward[r] = NoForward
      /\ \A l \in Links : link[l] = NoLink
  BY DEF SyncInit
<1>3. LinksAtHome /\ ForwardsAtHome /\ ForwardsLink /\ ForwardsQueue
  BY <1>1, <1>2 DEF LinksAtHome, ForwardsAtHome, ForwardsLink, Linked, ForwardsQueue
<1>4. IssuesApart /\ \A k : Opening(k) = {}
  BY <1>1, <1>2 DEF IssuesApart, Opening
<1>5. \A i \in DOMAIN issue : issue[i] = NoOne
  <2>1. issue = <<>> \/ issue = <<NoOne>>
    BY DEF SyncInit
  <2>2. CASE issue = <<>>
    BY <2>2
  <2>3. CASE issue = <<NoOne>>
    BY <2>3
  <2>4. QED
    BY <2>1, <2>2, <2>3
<1>6. ASSUME NEW k \in IdemKeys
      PROVE  OneKey(k)
  <2>1. k # NoOne
    BY SyncAssumption
  <2>2. QED
    BY <1>4, <1>5, <2>1 DEF OneKey
<1>7. QED
  BY <1>3, <1>4, <1>6 DEF ForwardInv

-----------------------------------------------------------------------------
(***************************************************************************)
(* Forwards are whole.                                                     *)
(***************************************************************************)
\* A note is queued for an issue, or is about to be.
Promised(n, i) == Queued(n, i) \/ (note[n].stage = "read" /\ \E r \in note[n].rows : r.issue = i)

NotesPromised ==
  \A n \in DOMAIN note :
    note[n].kind = "manual" /\ note[n].stage # "drawn" =>
      \A l \in Links : Syncing(l) /\ l.wo = note[n].wo /\ n > link[l].since => Promised(n, l.issue)

\* Steps that change no link, and no note that has read them but by making its promise good.
LEMMA PromisesStay ==
  ASSUME NotesPromised, \A n, i : Queued(n, i) => Queued(n, i)', link' = link,
         \A n \in DOMAIN note' :
           note'[n].kind = "manual" /\ note'[n].stage # "drawn" =>
             /\ n \in DOMAIN note /\ note[n].kind = "manual" /\ note'[n].wo = note[n].wo
             /\ \/ note'[n].stage = note[n].stage /\ note'[n].rows = note[n].rows
                \/ \A l \in Links : Syncing(l) /\ l.wo = note[n].wo /\ n > link[l].since => Promised(n, l.issue)'
  PROVE  NotesPromised'
<1>1. SUFFICES ASSUME NEW n \in DOMAIN note', note'[n].kind = "manual", note'[n].stage # "drawn",
                      NEW l \in Links, Syncing(l), l.wo = note'[n].wo, n > link[l].since
               PROVE  Promised(n, l.issue)'
  BY DEF NotesPromised, Syncing
<1>2. CASE note'[n].stage = note[n].stage /\ note'[n].rows = note[n].rows
  <2>1. Promised(n, l.issue)
    BY <1>1, <1>2 DEF NotesPromised
  <2>2. Queued(n, l.issue) => Queued(n, l.issue)'
    OBVIOUS
  <2>3. QED
    BY <1>2, <2>1, <2>2 DEF Promised
<1>3. QED
  BY <1>1, <1>2

\* A link that comes, or comes back, is younger than every note that is there.
LEMMA LinkedFromNowOn ==
  ASSUME QueueInv, NotesPromised, \A n, i : Queued(n, i) => Queued(n, i)', note' = note,
         NEW l, NEW new, link' = [link EXCEPT ![l] = new],
         new.state = "live" => new = link[l] \/ new.since = Len(note)
  PROVE  NotesPromised'
<1>1. link \in [Links -> Link] /\ note \in Seq(Note) /\ Len(note) \in Nat /\ DOMAIN note = 1..Len(note)
  BY DEF QueueInv, SyncTypeOK
<1>2. SUFFICES ASSUME NEW n \in DOMAIN note, note[n].kind = "manual", note[n].stage # "drawn", NEW k \in Links,
                      link'[k].state = "live" /\ k.type # "referenced" /\ link'[k].owner # NoOne,
                      k.wo = note[n].wo, n > link'[k].since
               PROVE  Promised(n, k.issue)'
  BY DEF NotesPromised, Syncing
<1>3. link'[k] = link[k]
  <2>1. CASE k = l
    <3>1. link'[k] = new
      BY <1>1, <2>1
    <3>2. ~(new.since = Len(note))
      BY <1>1, <1>2, <3>1
    <3>3. QED
      BY <1>2, <2>1, <3>1, <3>2
  <2>2. CASE k # l
    BY <1>1, <2>2
  <2>3. QED
    BY <2>1, <2>2
<1>4. Promised(n, k.issue)
  BY <1>2, <1>3 DEF NotesPromised, Syncing
<1>5. Queued(n, k.issue) => Queued(n, k.issue)'
  OBVIOUS
<1>6. QED
  BY <1>4, <1>5 DEF Promised

LEMMA RecordedIsYoung ==
  ASSUME QueueInv, NEW l \in Links, NEW u, NEW key
  PROVE  Recorded(l, u, key).state = "live" =>
           Recorded(l, u, key) = link[l] \/ Recorded(l, u, key).since = Len(note)
<1>1. link[l] \in Link /\ link[l].state \in {"none", "live", "removed"}
  <2>1. link[l] \in Link
    BY DEF QueueInv, SyncTypeOK
  <2>2. QED
    BY <2>1 DEF Link
<1>2. CASE link[l].state = "none"
  BY <1>2 DEF Recorded
<1>3. CASE link[l].state = "removed"
  BY <1>1, <1>3 DEF Recorded, Link
<1>4. CASE link[l].state = "live"
  BY <1>4 DEF Recorded
<1>5. QED
  BY <1>1, <1>2, <1>3, <1>4

\* A note that reads the links promises to be queued for their issues, and its commit keeps
\* the promise.
LEMMA NotesKeepPromises ==
  ASSUME QueueInv, NotesUnderWay, NotesPromised, \A n, i : Queued(n, i) => Queued(n, i)',
         NEW n \in DOMAIN note, ReadLinks(n) \/ CommitNote(n) \/ DeleteNote(n) \/ AttachPhoto(n)
  PROVE  NotesPromised'
<1>1. note \in Seq(Note)
  BY DEF QueueInv, SyncTypeOK
<1>2. PICK m \in Note :
        /\ note' = [note EXCEPT ![n] = m]
        /\ m.wo = note[n].wo /\ m.kind = note[n].kind
        /\ \/ m.rows = note[n].rows /\ m.stage = note[n].stage
           \/ m.rows = RowsFor(n) /\ m.stage = "read" /\ note[n].stage = "drawn"
           \/ m.rows = {} /\ m.stage = "stored" /\ CommitNote(n)
        /\ link' = link
  BY NoteMoves
<1>3. DOMAIN note' = DOMAIN note /\ note'[n] = m /\ \A k \in DOMAIN note : k # n => note'[k] = note[k]
  BY <1>1, <1>2
<1>4. ASSUME NEW l \in Links, Syncing(l), l.wo = note[n].wo, m.rows = RowsFor(n), m.stage = "read"
      PROVE  Promised(n, l.issue)'
  <2>1. l.issue \in IssuesOf(note[n].wo)
    <3>1. l.issue \in Issues
      BY DEF Links
    <3>2. QED
      BY <1>4, <3>1 DEF IssuesOf
  <2>2. \E r \in m.rows : r.issue = l.issue
    BY <1>4, <2>1, RowsOfNote
  <2>3. QED
    BY <1>3, <1>4, <2>2 DEF Promised
<1>5. ASSUME NEW l \in Links, Syncing(l), l.wo = note[n].wo, n > link[l].since, note[n].kind = "manual",
             CommitNote(n)
      PROVE  Promised(n, l.issue)'
  <2>1. Promised(n, l.issue)
    BY <1>5 DEF NotesPromised, CommitNote
  <2>2. \A r \in note[n].rows : \E k \in DOMAIN queue' : queue'[k].note = n /\ queue'[k].issue = r.issue
    BY <1>5, CommitNoteGrows
  <2>3. Queued(n, l.issue)'
    <3>1. CASE Queued(n, l.issue)
      BY <3>1
    <3>2. CASE \E r \in note[n].rows : r.issue = l.issue
      BY <2>2, <3>2 DEF Queued
    <3>3. QED
      BY <2>1, <3>1, <3>2 DEF Promised
  <2>4. QED
    BY <2>3 DEF Promised
<1>6. QED
  BY <1>2, <1>3, <1>4, <1>5, PromisesStay

LEMMA NotesPromisedNext ==
  ASSUME QueueInv, NotesUnderWay, NotesPromised, [SyncNext]_syncVars
  PROVE  NotesPromised'
<1>1. \A n, i : Queued(n, i) => Queued(n, i)'
  BY QueuedStays
<1>2. /\ note \in Seq(Note) /\ link \in [Links -> Link]
  BY DEF QueueInv, SyncTypeOK
<1>3. ASSUME NEW w \in Orders, AddNote(w) \/ TransitionNote(w)
      PROVE  NotesPromised'
  <2>1. PICK m \in Note : /\ note' = Append(note, m) /\ link' = link
                          /\ m.kind = "manual" => m.stage = "drawn"
    BY <1>3, NoteBegins
  <2>2. /\ DOMAIN note' = DOMAIN note \cup {Len(note) + 1}
        /\ note'[Len(note) + 1] = m /\ \A n \in DOMAIN note : note'[n] = note[n]
    BY <1>2, <2>1, NoteJoins
  <2>3. QED
    BY <1>1, <2>1, <2>2, PromisesStay
<1>4. ASSUME NEW n \in DOMAIN note, ReadLinks(n) \/ CommitNote(n) \/ DeleteNote(n) \/ AttachPhoto(n)
      PROVE  NotesPromised'
  BY <1>1, <1>4, NotesKeepPromises
<1>5. ASSUME NEW l \in Links, RemoveLink(l)
      PROVE  NotesPromised'
  <2>1. PICK new : new = [link[l] EXCEPT !.state = "removed"]
    OBVIOUS
  <2>2. link' = [link EXCEPT ![l] = new] /\ note' = note
    BY <1>2, <1>5, <2>1 DEF RemoveLink
  <2>3. new.state # "live"
    BY <1>2, <2>1 DEF Link
  <2>4. QED
    BY <1>1, <2>2, <2>3, LinkedFromNowOn
<1>6. ASSUME NEW l \in Links, NEW u \in Owners \cup {NoOne}, RecordLink(l, u)
      PROVE  NotesPromised'
  <2>1. PICK new : new = Recorded(l, u, NoOne)
    OBVIOUS
  <2>2. link' = [link EXCEPT ![l] = new] /\ note' = note
    BY <1>6, <2>1 DEF RecordLink
  <2>3. QED
    BY <1>1, <2>1, <2>2, RecordedIsYoung, LinkedFromNowOn
<1>7. ASSUME NEW r \in Forwards, LinkOne(r)
      PROVE  NotesPromised'
  <2>1. /\ forward[r] \in Forward /\ forward[r].pc = "link" /\ note' = note
    BY <1>7 DEF LinkOne, QueueInv, SyncTypeOK
  <2>2. forward[r].issue \in Issues
    BY <2>1 DEF QueueInv, Anchored
  <2>3. PICK w \in forward[r].todo :
          LET k == [wo |-> w, issue |-> forward[r].issue, type |-> "forwarded"] IN
          link' = [link EXCEPT ![k] = Recorded(k, forward[r].owner, forward[r].key)]
    BY <1>7 DEF LinkOne
  <2>4. PICK l :
          /\ w \in forward[r].todo
          /\ l = [wo |-> w, issue |-> forward[r].issue, type |-> "forwarded"]
          /\ link' = [link EXCEPT ![l] = Recorded(l, forward[r].owner, forward[r].key)]
    BY <2>3
  <2>5. l \in Links
    BY <2>1, <2>2, <2>4 DEF Links, LinkTypes, Forward
  <2>6. PICK new : new = Recorded(l, forward[r].owner, forward[r].key)
    OBVIOUS
  <2>7. new.state = "live" => new = link[l] \/ new.since = Len(note)
    BY <2>5, <2>6, RecordedIsYoung
  <2>8. QED
    BY <1>1, <2>1, <2>4, <2>6, <2>7, LinkedFromNowOn
<1>8. CASE note' = note /\ link' = link
  BY <1>1, <1>8, PromisesStay
<1>9. ASSUME NEW f \in Syncs, SyncStep(f)
      PROVE  note' = note /\ link' = link
  BY <1>9 DEF SyncStep, SyncSelect, LookUp, Withheld, Upload, UploadFails, Comment, CommentFails,
              Settle, SyncCrashes
<1>10. ASSUME NEW r \in Forwards,
              \/ CreateIssue(r) \/ CreateFails(r) \/ QueueNotes(r) \/ ForwardCrashes(r)
              \/ \E wos \in SUBSET Orders, key \in IdemKeys \cup {NoOne}, u \in Owners : Plan(r, wos, key, u)
       PROVE  note' = note /\ link' = link
  BY <1>10 DEF CreateIssue, CreateFails, QueueNotes, ForwardCrashes, Plan
<1>11. ASSUME (\E u \in Owners : StoreToken(u) \/ RevokeToken(u)) \/ UNCHANGED syncVars
       PROVE  note' = note /\ link' = link
  BY <1>11 DEF StoreToken, RevokeToken, syncVars
<1>12. QED
  BY <1>3, <1>4, <1>5, <1>6, <1>7, <1>8, <1>9, <1>10, <1>11 DEF SyncNext, ForwardStep

\* Whatever races and crashes: the notes that a forward read are queued, and its work orders
\* linked, when it comes to its end; a note that was begun once a live link was there is queued
\* for its issue when it commits; and a key has one issue, unless a lost answer, a crash before
\* the first link, two forwards of the key at once, or a hand at its links is on record for it.
THEOREM ForwardsAreWholeHolds == SyncSpec => []ForwardsAreWhole
<1>1. SyncInit => NotesPromised
  BY DEF SyncInit, NotesPromised
<1>2. /\ QueueInv /\ NotesUnderWay /\ ForwardInv /\ [SyncNext]_syncVars => ForwardInv'
      /\ QueueInv /\ NotesUnderWay /\ NotesPromised /\ [SyncNext]_syncVars => NotesPromised'
  BY ForwardInvNext, NotesPromisedNext
<1>3. SyncSpec => [](QueueInv /\ ForwardInv /\ NotesPromised)
  BY <1>1, <1>2, ForwardInvInit, QueueInvHolds, PTL DEF SyncSpec
<1>4. QueueInv /\ ForwardInv /\ NotesPromised => ForwardsAreWhole
  <2> SUFFICES ASSUME QueueInv, ForwardInv, NotesPromised
               PROVE  OneIssuePerKey /\ ForwardIsWhole /\ ManualNotesQueued
    BY DEF ForwardsAreWhole
  <2>1. OneIssuePerKey
    <3>1. \A i \in DOMAIN issue : issue[i] \in IdemKeys \cup {NoOne}
      BY DEF QueueInv, SyncTypeOK
    <3>2. QED
      BY <3>1 DEF ForwardInv, OneKey, OneIssuePerKey
  <2>2. ASSUME NEW r \in Forwards, forward[r].pc = "flush"
        PROVE  /\ \A n \in forward[r].notes : Queued(n, forward[r].issue)
               /\ forward[r].key = NoOne =>
                    \A w \in forward[r].wos :
                      link[[wo |-> w, issue |-> forward[r].issue, type |-> "forwarded"]].state # "none"
    <3>1. \A n \in forward[r].notes : Queued(n, forward[r].issue)
      BY <2>2 DEF ForwardInv, ForwardsQueue
    <3>2. Linked(forward[r])
      BY DEF ForwardInv, ForwardsLink
    <3>3. QED
      BY <2>2, <3>1, <3>2 DEF Linked, LinkOf
  <2>3. ManualNotesQueued
    BY DEF NotesPromised, Promised, ManualNotesQueued, QueuedOnceLinked
  <2>4. QED
    BY <2>1, <2>2, <2>3 DEF ForwardIsWhole
<1>5. QED
  BY <1>3, <1>4, PTL

=============================================================================
