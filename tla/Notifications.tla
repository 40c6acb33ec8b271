--------------------------- MODULE Notifications ---------------------------
(***************************************************************************)
(* Notifications of work orders: enqueue_work_order_notifications, which   *)
(* the open and the close of a work order call in their own transaction,   *)
(* the recipients that admins keep, and NotificationService.flush_outbox,  *)
(* which a background task of the web server and the daily scheduler run   *)
(* over the network, each with a database session of its own.              *)
(***************************************************************************)
EXTENDS Naturals, Sequences, FiniteSets, SequencesExt, Session

CONSTANTS
  Jobs,          \* work orders
  People,        \* the names of assignees
  Assigned,      \* Assigned[w]: the assignees of the work order
  Recipients,
  Profiles,      \* what an admin may save of a recipient
  Flushers,      \* the flushes that can be under way at once
  Daily,         \* ... one of them the scheduler's, the others background tasks of the web
  Limit,         \* flush_outbox's limit
  MaxAttempts,   \* _MAX_ATTEMPTS
  MaxBackground, \* bound: flushes begun by web requests
  MaxFaults      \* bound: sends refused, answers lost, and flushes that crash

ASSUME NotifyAssumption ==
  /\ IsFiniteSet(Jobs) /\ IsFiniteSet(Recipients)
  /\ Assigned \in [Jobs -> SUBSET People]
  /\ Daily \in Flushers
  /\ Limit \in Nat \ {0} /\ MaxAttempts \in Nat \ {0} /\ MaxBackground \in Nat /\ MaxFaults \in Nat

Channels == {"email", "telegram"}

VARIABLES
  recipient,   \* recipient[p]: notify_recipient with its notify_watch rows
  job,         \* job[w]: "absent", "open" or "closed"
  closing,     \* closing[w]: the requests that loaded w to close it
  outbox,      \* notification_outbox in the order of its ids
  begun,       \* how many background flushes web requests have begun
  wired,       \* the channels whose settings are complete
  flush,       \* flush[f]: the flush under way
  copies,      \* copies[n]: how often the message of row n was delivered
  disturbed,   \* the rows whose answer was lost, whose flush crashed after the send, or
               \* which two flushes took at once
  faults       \* how many faults there were

notifyVars == <<recipient, job, closing, outbox, begun, wired, flush, copies, disturbed, faults>>

Profile == [active : BOOLEAN, channels : SUBSET Channels, own : People \cup {"nobody"},
            watch : SUBSET People, onOpen : BOOLEAN, onClose : BOOLEAN]
NoProfile == [active |-> FALSE, channels |-> {}, own |-> "nobody", watch |-> {},
              onOpen |-> FALSE, onClose |-> FALSE]

ASSUME ProfilesAssumption == Profiles \subseteq Profile

Notice == [job : Jobs, event : {"opened", "closed"}, channel : Channels, to : Recipients,
           status : {"pending", "sent", "failed"}, attempts : 0..MaxAttempts]

Rows == 1..(4 * Cardinality(Jobs) * Cardinality(Recipients))

\* A flush: the rows it has to do, as it read them, the channels it may use, and how the
\* send it is about to record went.
Read == [row : Rows, status : {"pending", "sent", "failed"}, attempts : 0..MaxAttempts]
Flush == [pc : {"idle", "send", "mark"}, todo : Seq(Read), can : SUBSET Channels, went : BOOLEAN]
Resting == [pc |-> "idle", todo |-> <<>>, can |-> {}, went |-> FALSE]

-----------------------------------------------------------------------------
\* Whom an event of the work order concerns: by broadcast, by name, or by watch.
Concerned(w, event) ==
  {p \in Recipients :
     /\ recipient[p].active
     /\ \/ event = "opened" /\ recipient[p].onOpen
        \/ event = "closed" /\ recipient[p].onClose
        \/ recipient[p].own \in Assigned[w]
        \/ recipient[p].watch \cap Assigned[w] # {}}

Key(n) == [job |-> n.job, event |-> n.event, channel |-> n.channel, to |-> n.to]
Keys == {Key(outbox[n]) : n \in DOMAIN outbox}

\* Faulty variant: the INSERT does not mind the unique key.
EnqueueAnyway(w, event) ==
  LET due == {k \in [job : {w}, event : {event}, channel : Channels, to : Recipients] :
                k.to \in Concerned(w, event) /\ k.channel \in recipient[k.to].channels}
      new == {[job |-> k.job, event |-> k.event, channel |-> k.channel, to |-> k.to,
               status |-> "pending", attempts |-> 0] : k \in due}
  IN  outbox' = outbox \o SetToSeq(new)

\* One row for each of them and each of their channels, unless the key is there.
Enqueue(w, event) ==
  LET due == {k \in [job : {w}, event : {event}, channel : Channels, to : Recipients] :
                k.to \in Concerned(w, event) /\ k.channel \in recipient[k.to].channels}
      new == {[job |-> k.job, event |-> k.event, channel |-> k.channel, to |-> k.to,
               status |-> "pending", attempts |-> 0] : k \in due \ Keys}
  IN  outbox' = outbox \o SetToSeq(new)

Open(w) ==
  /\ job[w] = "absent"
  /\ job' = [job EXCEPT ![w] = "open"]
  /\ Enqueue(w, "opened")
  /\ UNCHANGED <<recipient, closing, begun, wired, flush, copies, disturbed, faults>>

\* Two requests may load a work order before either closes it.
LoadToClose(w) ==
  /\ job[w] = "open" /\ closing[w] < 2
  /\ closing' = [closing EXCEPT ![w] = @ + 1]
  /\ UNCHANGED <<recipient, job, outbox, begun, wired, flush, copies, disturbed, faults>>

Close(w) ==
  /\ closing[w] > 0
  /\ closing' = [closing EXCEPT ![w] = @ - 1]
  /\ job' = [job EXCEPT ![w] = "closed"]
  /\ Enqueue(w, "closed")
  /\ UNCHANGED <<recipient, begun, wired, flush, copies, disturbed, faults>>

-----------------------------------------------------------------------------
\* create_recipient and update_recipient: at least one channel, and no watch of oneself.
SaveRecipient(p, profile) ==
  /\ profile.channels # {}
  /\ recipient' = [recipient EXCEPT ![p] =
       [profile EXCEPT !.watch = @ \ {profile.own},
                       !.active = recipient[p] = NoProfile \/ recipient[p].active]]
  /\ UNCHANGED <<job, closing, outbox, begun, wired, flush, copies, disturbed, faults>>

SetRecipientActive(p) ==
  /\ recipient[p] # NoProfile
  /\ recipient' = [recipient EXCEPT ![p].active = ~@]
  /\ UNCHANGED <<job, closing, outbox, begun, wired, flush, copies, disturbed, faults>>

\* fill_telegram_chat_id: of the recipients with this name, those without a chat get one.
FillTelegramChatId(name) ==
  LET bare == {p \in Recipients : recipient[p].own = name /\ "telegram" \notin recipient[p].channels}
  IN  /\ bare # {}
      /\ recipient' = [p \in Recipients |->
                         IF p \in bare THEN [recipient[p] EXCEPT !.channels = @ \cup {"telegram"}]
                         ELSE recipient[p]]
      /\ UNCHANGED <<job, closing, outbox, begun, wired, flush, copies, disturbed, faults>>

\* The settings of a channel are completed.
Configure(c) ==
  /\ c \notin wired
  /\ wired' = wired \cup {c}
  /\ UNCHANGED <<recipient, job, closing, outbox, begun, flush, copies, disturbed, faults>>

-----------------------------------------------------------------------------
\* Faulty variant: sent rows are taken again.
WaitingOrSent(n) ==
  \/ outbox[n].status \in {"pending", "sent"}
  \/ outbox[n].status = "failed" /\ outbox[n].attempts < MaxAttempts

Waiting(n) ==
  \/ outbox[n].status = "pending"
  \/ outbox[n].status = "failed" /\ outbox[n].attempts < MaxAttempts

\* ORDER BY id LIMIT: of the waiting rows, the one in place i has i - 1 before it.
Batch ==
  LET waiting  == {n \in DOMAIN outbox : Waiting(n)}
      Place(n) == Cardinality({m \in waiting : m <= n})
  IN  [i \in 1..Min({Limit, Cardinality(waiting)}) |-> CHOOSE n \in waiting : Place(n) = i]

InHand(f) == {flush[f].todo[n].row : n \in DOMAIN flush[f].todo}
Shared(f) == ToSet(Batch) \cap UNION {InHand(g) : g \in Flushers \ {f}}

\* flush_outbox reads its batch, whatever the channels, and the settings.  No flush runs
\* where no channel is configured.
Select(f) ==
  LET Reading(n) == [row |-> n, status |-> outbox[n].status, attempts |-> outbox[n].attempts]
  IN  /\ flush[f].pc = "idle" /\ wired # {} /\ Batch # <<>>
      /\ f = Daily \/ begun < MaxBackground
      /\ begun' = IF f = Daily THEN begun ELSE begun + 1
      /\ flush' = [flush EXCEPT ![f] =
           [pc |-> "send", todo |-> [i \in DOMAIN Batch |-> Reading(Batch[i])],
                 can |-> wired, went |-> FALSE]]
      /\ disturbed' = disturbed \cup Shared(f)
      /\ UNCHANGED <<recipient, job, closing, outbox, wired, copies, faults>>

Current(f) == Head(flush[f].todo).row

\* The flush as it goes on to its next row.
Onward(f) ==
  IF Len(flush[f].todo) = 1 THEN Resting
  ELSE [flush[f] EXCEPT !.pc = "send", !.todo = Tail(@), !.went = FALSE]

\* Faulty variant: a row of a channel that is not configured ends the batch.
SkipStops(f) ==
  /\ flush[f].pc = "send" /\ outbox[Current(f)].channel \notin flush[f].can
  /\ flush' = [flush EXCEPT ![f] = Resting]
  /\ UNCHANGED <<recipient, job, closing, outbox, begun, wired, copies, disturbed, faults>>

\* Rows of channels that are not configured count towards the limit and stay.
Skip(f) ==
  /\ flush[f].pc = "send" /\ outbox[Current(f)].channel \notin flush[f].can
  /\ flush' = [flush EXCEPT ![f] = Onward(f)]
  /\ UNCHANGED <<recipient, job, closing, outbox, begun, wired, copies, disturbed, faults>>

Sending(f) == flush[f].pc = "send" /\ outbox[Current(f)].channel \in flush[f].can

Delivered(n) == copies' = [copies EXCEPT ![n] = @ + 1]
Disturbed(n) == disturbed' = disturbed \cup {n}
Fault == faults < MaxFaults /\ faults' = faults + 1

Sent(f) ==
  LET n == Current(f)
  IN  /\ Sending(f)
      /\ outbox[n].channel \in recipient[outbox[n].to].channels
      /\ Delivered(n)
      /\ flush' = [flush EXCEPT ![f].pc = "mark", ![f].went = TRUE]
      /\ UNCHANGED <<recipient, job, closing, outbox, begun, wired, disturbed, faults>>

Refused(f) ==
  /\ Sending(f) /\ Fault
  /\ flush' = [flush EXCEPT ![f].pc = "mark", ![f].went = FALSE]
  /\ UNCHANGED <<recipient, job, closing, outbox, begun, wired, copies, disturbed>>

\* The address has been taken away since the row was queued: the send fails.
Unaddressed(f) ==
  LET n == Current(f)
  IN  /\ Sending(f)
      /\ outbox[n].channel \notin recipient[outbox[n].to].channels
      /\ flush' = [flush EXCEPT ![f].pc = "mark", ![f].went = FALSE]
      /\ UNCHANGED <<recipient, job, closing, outbox, begun, wired, copies, disturbed, faults>>

\* The message arrives and the answer does not: an EmailError or TelegramError like any other.
AnswerLost(f) ==
  LET n == Current(f)
  IN  /\ Sending(f) /\ Fault
      /\ outbox[n].channel \in recipient[outbox[n].to].channels
      /\ Delivered(n) /\ Disturbed(n)
      /\ flush' = [flush EXCEPT ![f].pc = "mark", ![f].went = FALSE]
      /\ UNCHANGED <<recipient, job, closing, outbox, begun, wired>>

\* _mark, in a transaction of its own.
Marked(f, n) ==
  LET seen == Head(flush[f].todo)
  IN  [outbox[n] EXCEPT
         !.status = Written(IF flush[f].went THEN "sent" ELSE "failed", seen.status, @),
         !.attempts = IF flush[f].went THEN @ ELSE seen.attempts + 1]

\* Faulty variant: the row is marked sent before it is sent, or whatever came of it.
MarkSent(f) ==
  LET n == Current(f)
  IN  /\ flush[f].pc = "mark"
      /\ outbox' = [outbox EXCEPT ![n].status = "sent"]
      /\ flush' = [flush EXCEPT ![f] = Onward(f)]
      /\ UNCHANGED <<recipient, job, closing, begun, wired, copies, disturbed, faults>>

Mark(f) ==
  LET n == Current(f)
  IN  /\ flush[f].pc = "mark"
      /\ outbox' = [outbox EXCEPT ![n] = Marked(f, n)]
      /\ flush' = [flush EXCEPT ![f] = Onward(f)]
      /\ UNCHANGED <<recipient, job, closing, begun, wired, copies, disturbed, faults>>

\* The process ends, or an exception of another kind ends the batch: a row that was sent and
\* not marked will be sent again.
Crash(f) ==
  /\ flush[f].pc # "idle" /\ Fault
  /\ flush' = [flush EXCEPT ![f] = Resting]
  /\ IF flush[f].pc = "mark" /\ flush[f].went THEN Disturbed(Current(f)) ELSE UNCHANGED disturbed
  /\ UNCHANGED <<recipient, job, closing, outbox, begun, wired, copies>>

-----------------------------------------------------------------------------
NotifyInit ==
  /\ recipient = [p \in Recipients |-> NoProfile]
  /\ job = [w \in Jobs |-> "absent"]
  /\ closing = [w \in Jobs |-> 0]
  /\ outbox = <<>>
  /\ begun = 0
  /\ wired = {"email"}
  /\ flush = [f \in Flushers |-> Resting]
  /\ copies = [n \in Rows |-> 0]
  /\ disturbed = {}
  /\ faults = 0

\* What a flush that has begun does next, unless it crashes.
Proceed(f) == Skip(f) \/ Sent(f) \/ Refused(f) \/ Unaddressed(f) \/ AnswerLost(f) \/ Mark(f)

NotifyNext ==
  \/ \E w \in Jobs : Open(w) \/ LoadToClose(w) \/ Close(w)
  \/ \E p \in Recipients : SetRecipientActive(p) \/ \E profile \in Profiles : SaveRecipient(p, profile)
  \/ \E name \in People : FillTelegramChatId(name)
  \/ \E c \in Channels : Configure(c)
  \/ \E f \in Flushers : Select(f) \/ Proceed(f) \/ Crash(f)

NotifySpec == NotifyInit /\ [][NotifyNext]_notifyVars

-----------------------------------------------------------------------------
NotifyTypeOK ==
  /\ recipient \in [Recipients -> Profile]
  /\ job \in [Jobs -> {"absent", "open", "closed"}]
  /\ closing \in [Jobs -> 0..2]
  /\ outbox \in Seq(Notice) /\ Len(outbox) <= Cardinality(Rows)
  /\ wired \subseteq Channels
  /\ flush \in [Flushers -> Flush]
  /\ begun \in 0..MaxBackground
  /\ copies \in [Rows -> Nat] /\ disturbed \subseteq Rows
  /\ faults \in 0..MaxFaults

\* However closes race, a recipient has one row for each event and channel.
OneNoticeEach ==
  \A m, n \in DOMAIN outbox : Key(outbox[m]) = Key(outbox[n]) => m = n

\* A message goes out a second time only after a lost answer or a crash, or when two
\* flushes took its row at once.
SecondCopyExcused == \A n \in Rows : copies[n] > 1 => n \in disturbed

\* The opening and the closing of a work order notify a recipient once each, and a notice
\* that goes out twice has a lost answer, a crash or an overlapping flush behind it.
NoticesGoOnce == NotifyTypeOK /\ OneNoticeEach /\ SecondCopyExcused

\* The outbox delivers at least once, and records as sent only what was delivered.
Stage(n) ==
  IF n \notin DOMAIN outbox THEN "new"
  ELSE IF outbox[n].status = "pending" THEN "queued" ELSE outbox[n].status

Outbox == INSTANCE Delivery WITH
  Messages <- Rows, state <- [n \in Rows |-> Stage(n)], copies <- copies

NoticesDelivered == Outbox!Spec

\* A row that a flush can send, and the rows it can only skip.
Due(n) == n \in DOMAIN outbox /\ Waiting(n) /\ outbox[n].channel \in wired
Stuck == {n \in DOMAIN outbox : Waiting(n) /\ outbox[n].channel \notin wired}

\* The scheduler flushes again and again, and a flush that runs comes to its end.
NotifyFairness ==
  /\ WF_notifyVars(Select(Daily))
  /\ \A f \in Flushers : WF_notifyVars(Proceed(f))

\* Every notice that can be sent is sent in the end, or given up after MaxAttempts, unless
\* so many rows of channels that are not configured wait that they fill every batch.
NoticesSettle == (\E n \in Rows : Due(n)) ~> (Cardinality(Stuck) >= Limit \/ \A n \in Rows : ~Due(n))

=============================================================================
