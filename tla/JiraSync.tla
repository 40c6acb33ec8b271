----------------------------- MODULE JiraSync -----------------------------
(***************************************************************************)
(* The notes of work orders and their way to Jira: add_note and the other  *)
(* writers of work_order_note, the links of work orders to issues,         *)
(* JiraSyncService.forward_work_orders_to_mrq, which opens one issue for   *)
(* several work orders, and flush_outbox, which sends queued notes as      *)
(* comments.  Requests and flushes interleave on one database, call Jira   *)
(* over the network, and may end between any two of their transactions.    *)
(***************************************************************************)
EXTENDS Naturals, Sequences, FiniteSets, SequencesExt, Session

CONSTANTS
  Orders,        \* work orders
  Owners,        \* the people whose tokens write to Jira
  IdemKeys,      \* idempotency keys of forwards
  Forwards,      \* the forwards that can be under way at once
  Cron,          \* the flush that is not part of a forward
  NoOne,         \* no owner, and no key
  SyncLimit, MaxTries,            \* flush_outbox's limit and _MAX_ATTEMPTS
  MaxNotes, MaxIssues, MaxMishaps \* bounds: notes, issues; answers lost, refusals and crashes

ASSUME SyncAssumption ==
  /\ SyncLimit \in Nat \ {0} /\ MaxTries \in Nat \ {0}
  /\ MaxNotes \in Nat /\ MaxIssues \in Nat \ {0} /\ MaxMishaps \in Nat
  /\ Cron \notin Forwards /\ NoOne \notin Owners \cup IdemKeys

VARIABLES
  note,      \* work_order_note in the order of its ids
  link,      \* link[l]: the work_order_external_link row l
  issue,     \* the issues in Jira: the key each was created for
  queue,     \* jira_outbox
  token,     \* the owners with a usable credential, where Jira is configured
  forward,   \* forward[r]: the forward under way
  sync,      \* sync[f]: the flush under way
  comments,  \* comments[n]: how often the comment of row n was added
  uploads,   \* uploads[n]: how often its photos were added
  repeated,  \* the rows that a lost answer, a crash or two flushes may have sent twice
  excused,   \* the keys for which a second issue has an explanation
  mishaps

syncVars == <<note, link, issue, queue, token, forward, sync, comments, uploads, repeated,
              excused, mishaps>>

Issues == 1..MaxIssues
LinkTypes == {"referenced", "forwarded", "appended"}
Links == [wo : Orders, issue : Issues, type : LinkTypes]
QueueRows == 1..(MaxNotes * MaxIssues)

QueueRow == [note : 1..MaxNotes, issue : Issues, owner : Owners,
             status : {"pending", "sent", "failed"}, tries : 0..MaxTries, uploaded : BOOLEAN]

\* stage: the id is drawn, the links are read, or the transaction is committed; rows: what the
\* transaction has inserted into jira_outbox and not committed.
Note == [wo : Orders, kind : {"manual", "transition"}, deleted : BOOLEAN, photo : BOOLEAN,
         stage : {"drawn", "read", "stored"}, rows : SUBSET QueueRow]
NewNote(w, kind, stage) ==
  [wo |-> w, kind |-> kind, deleted |-> FALSE, photo |-> FALSE, stage |-> stage, rows |-> {}]

\* since: how many ids of notes were drawn when the link was made.
Link == [state : {"none", "live", "removed"}, owner : Owners \cup {NoOne},
         key : IdemKeys \cup {NoOne}, since : Nat]
NoLink == [state |-> "none", owner |-> NoOne, key |-> NoOne, since |-> 0]

Forward == [pc : {"idle", "create", "link", "queue", "flush"}, wos : SUBSET Orders,
            todo : SUBSET Orders, notes : SUBSET (1..MaxNotes), issue : Issues \cup {0},
            key : IdemKeys \cup {NoOne}, owner : Owners \cup {NoOne}]
NoForward == [pc |-> "idle", wos |-> {}, todo |-> {}, notes |-> {}, issue |-> 0,
              key |-> NoOne, owner |-> NoOne]

\* What a flush read of a row: its state, and whether its note was deleted and had photos.
\* asked: the owners whose credential it has looked up; pats: those that had one.
RowRead == [row : QueueRows, status : {"pending", "sent", "failed"}, tries : 0..MaxTries,
            uploaded : BOOLEAN, deleted : BOOLEAN, photo : BOOLEAN]
Sync == [pc : {"idle", "send", "mark"}, todo : Seq(RowRead), went : BOOLEAN,
         asked : SUBSET Owners, pats : SUBSET Owners]
NoSync == [pc |-> "idle", todo |-> <<>>, went |-> FALSE, asked |-> {}, pats |-> {}]

Mishap == mishaps < MaxMishaps /\ mishaps' = mishaps + 1

-----------------------------------------------------------------------------
Syncing(l) == link[l].state = "live" /\ l.type # "referenced" /\ link[l].owner # NoOne

Queued(n, i) == \E m \in DOMAIN queue : queue[m].note = n /\ queue[m].issue = i

\* Faulty variant: only the links that forwards made.
IssuesForwarded(w) == {i \in Issues : \E l \in Links : l.wo = w /\ l.issue = i /\ l.type = "forwarded"
                                                       /\ Syncing(l)}

\* The issues that the notes of a work order go to.
IssuesOf(w) == {i \in Issues : \E l \in Links : l.wo = w /\ l.issue = i /\ Syncing(l)}

OwnerOf(w, i) == CHOOSE u \in Owners : \E l \in Links : l.wo = w /\ l.issue = i /\ Syncing(l) /\ link[l].owner = u

Pending(n, i, u) ==
  [note |-> n, issue |-> i, owner |-> u, status |-> "pending", tries |-> 0, uploaded |-> FALSE]

\* add_note: the flush draws the id of the note.
AddNote(w) ==
  /\ Len(note) < MaxNotes
  /\ note' = Append(note, NewNote(w, "manual", "drawn"))
  /\ UNCHANGED <<link, issue, queue, token, forward, sync, comments, uploads, repeated, excused, mishaps>>

\* _enqueue_note_to_outbox, in the same transaction: a row for each issue linked by then.
RowsFor(n) == {Pending(n, i, OwnerOf(note[n].wo, i)) : i \in IssuesOf(note[n].wo)}

ReadLinks(n) ==
  /\ note[n].stage = "drawn"
  /\ note' = [note EXCEPT ![n].stage = "read", ![n].rows = RowsFor(n)]
  /\ UNCHANGED <<link, issue, queue, token, forward, sync, comments, uploads, repeated, excused, mishaps>>

\* The commit shows the note and its rows to the others.  A transaction that is rolled back
\* is one that never comes here.
CommitNote(n) ==
  /\ note[n].stage = "read"
  /\ note' = [note EXCEPT ![n].stage = "stored", ![n].rows = {}]
  /\ queue' = queue \o SetToSeq(note[n].rows)
  /\ UNCHANGED <<link, issue, token, forward, sync, comments, uploads, repeated, excused, mishaps>>

\* _transition writes the note of a transition itself, and commits at once.
TransitionNote(w) ==
  /\ Len(note) < MaxNotes
  /\ note' = Append(note, NewNote(w, "transition", "stored"))
  /\ UNCHANGED <<link, issue, queue, token, forward, sync, comments, uploads, repeated, excused, mishaps>>

DeleteNote(n) ==
  /\ note[n].stage = "stored" /\ ~note[n].deleted
  /\ note' = [note EXCEPT ![n].deleted = TRUE]
  /\ UNCHANGED <<link, issue, queue, token, forward, sync, comments, uploads, repeated, excused, mishaps>>

\* The photos of a note are stored after the note.
AttachPhoto(n) ==
  /\ note[n].stage = "stored" /\ ~note[n].photo
  /\ note' = [note EXCEPT ![n].photo = TRUE]
  /\ UNCHANGED <<link, issue, queue, token, forward, sync, comments, uploads, repeated, excused, mishaps>>

\* The links by which a forward with the key finds the issue of an earlier one.
Keyed(key) == {l \in Links : l.type = "forwarded" /\ link[l].state = "live" /\ link[l].key = key}

\* The forwards with the key that open an issue and have not linked it yet.
Opening(key) ==
  {r \in Forwards : forward[r].key = key /\ forward[r].pc \in {"create", "link"}
                                        /\ forward[r].todo = forward[r].wos}

\* record_external_link: a row that was removed comes back with the owner it had.
Recorded(l, u, key) ==
  CASE link[l].state = "none"    -> [state |-> "live", owner |-> u, key |-> key, since |-> Len(note)]
    [] link[l].state = "removed" -> [link[l] EXCEPT !.state = "live", !.since = Len(note)]
    [] OTHER                     -> link[l]

RecordLink(l, u) ==
  /\ l.issue \in DOMAIN issue /\ link[l].state # "live"
  /\ link' = [link EXCEPT ![l] = Recorded(l, u, NoOne)]
  /\ excused' = excused \cup {k \in IdemKeys : l.type = "forwarded"
                                               /\ \E r \in Opening(k) : forward[r].issue = l.issue}
  /\ UNCHANGED <<note, issue, queue, token, forward, sync, comments, uploads, repeated, mishaps>>

RemoveLink(l) ==
  /\ link[l].state = "live"
  /\ link' = [link EXCEPT ![l].state = "removed"]
  /\ excused' = excused \cup {k \in IdemKeys : Keyed(k) = {l}}
  /\ UNCHANGED <<note, issue, queue, token, forward, sync, comments, uploads, repeated, mishaps>>

\* The vault: a credential is stored, or revoked.
StoreToken(u) ==
  /\ u \notin token /\ token' = token \cup {u}
  /\ UNCHANGED <<note, link, issue, queue, forward, sync, comments, uploads, repeated, excused, mishaps>>

RevokeToken(u) ==
  /\ u \in token /\ token' = token \ {u}
  /\ UNCHANGED <<note, link, issue, queue, forward, sync, comments, uploads, repeated, excused, mishaps>>

-----------------------------------------------------------------------------
(***************************************************************************)
(* forward_work_orders_to_mrq.                                             *)
(***************************************************************************)
\* It reads the notes, and the issue of an earlier forward with its key.
Plan(r, wos, key, u) ==
  LET plan == [pc |-> "create", wos |-> wos, todo |-> wos, issue |-> 0, key |-> key, owner |-> u,
               notes |-> {n \in DOMAIN note : note[n].stage = "stored" /\ note[n].wo \in wos
                                               /\ ~note[n].deleted}]
  IN  /\ forward[r].pc = "idle" /\ sync[r].pc = "idle"
      /\ wos # {}
      /\ \/ /\ key # NoOne
            /\ \E l \in Keyed(key) :
                 forward' = [forward EXCEPT ![r] = [plan EXCEPT !.pc = "queue", !.todo = {}, !.issue = l.issue]]
         \/ /\ key = NoOne \/ Keyed(key) = {}
            /\ u \in token
            /\ forward' = [forward EXCEPT ![r] = plan]
      /\ excused' = excused \cup {k \in IdemKeys : k = key /\ Opening(k) # {}}
      /\ UNCHANGED <<note, link, issue, queue, token, sync, comments, uploads, repeated, mishaps>>

CreateIssue(r) ==
  /\ forward[r].pc = "create" /\ Len(issue) < MaxIssues
  /\ issue' = Append(issue, forward[r].key)
  /\ forward' = [forward EXCEPT ![r].pc = "link", ![r].issue = Len(issue) + 1]
  /\ UNCHANGED <<note, link, queue, token, sync, comments, uploads, repeated, excused, mishaps>>

\* Jira refuses, or its answer is lost.
CreateFails(r) ==
  /\ forward[r].pc = "create" /\ Mishap
  /\ \/ UNCHANGED <<issue, excused>>
     \/ /\ Len(issue) < MaxIssues /\ issue' = Append(issue, forward[r].key)
        /\ excused' = excused \cup (IdemKeys \cap {forward[r].key})
  /\ forward' = [forward EXCEPT ![r] = NoForward]
  /\ UNCHANGED <<note, link, queue, token, sync, comments, uploads, repeated>>

\* Faulty variants: only the last link keeps the key; only the first work order is linked.
LinkLastKeyed(r) ==
  LET q == forward[r]
  IN  /\ q.pc = "link"
      /\ \E w \in q.todo :
           LET l == [wo |-> w, issue |-> q.issue, type |-> "forwarded"]
           IN  /\ link' = [link EXCEPT ![l] = Recorded(l, q.owner, IF q.todo = {w} THEN q.key ELSE NoOne)]
               /\ forward' = [forward EXCEPT ![r].todo = @ \ {w},
                                             ![r].pc = IF q.todo = {w} THEN "queue" ELSE "link"]
      /\ UNCHANGED <<note, issue, queue, token, sync, comments, uploads, repeated, excused, mishaps>>
LinkFirst(r) ==
  LET q == forward[r]
  IN  /\ q.pc = "link"
      /\ \E w \in q.todo :
           LET l == [wo |-> w, issue |-> q.issue, type |-> "forwarded"]
           IN  /\ link' = [link EXCEPT ![l] = Recorded(l, q.owner, q.key)]
               /\ forward' = [forward EXCEPT ![r].todo = {}, ![r].pc = "queue"]
      /\ UNCHANGED <<note, issue, queue, token, sync, comments, uploads, repeated, excused, mishaps>>

\* Each work order is linked in a transaction of its own.
LinkOne(r) ==
  LET q == forward[r]
  IN  /\ q.pc = "link"
      /\ \E w \in q.todo :
           LET l == [wo |-> w, issue |-> q.issue, type |-> "forwarded"]
           IN  /\ link' = [link EXCEPT ![l] = Recorded(l, q.owner, q.key)]
               /\ forward' = [forward EXCEPT ![r].todo = @ \ {w},
                                             ![r].pc = IF q.todo = {w} THEN "queue" ELSE "link"]
      /\ UNCHANGED <<note, issue, queue, token, sync, comments, uploads, repeated, excused, mishaps>>

\* Faulty variant: no ON CONFLICT.
QueueAgain(r) ==
  LET q == forward[r]
  IN  /\ q.pc = "queue"
      /\ Len(queue) + Cardinality(q.notes) \in QueueRows
      /\ queue' = queue \o SetToSeq({Pending(n, q.issue, q.owner) : n \in q.notes})
      /\ forward' = [forward EXCEPT ![r].pc = "flush"]
      /\ UNCHANGED <<note, link, issue, token, sync, comments, uploads, repeated, excused, mishaps>>

\* The notes it read are queued, those that are not yet.
QueueNotes(r) ==
  LET q == forward[r]
  IN  /\ q.pc = "queue"
      /\ queue' = queue \o SetToSeq({Pending(n, q.issue, q.owner) :
                                       n \in {m \in q.notes : ~Queued(m, q.issue)}})
      /\ forward' = [forward EXCEPT ![r].pc = "flush"]
      /\ UNCHANGED <<note, link, issue, token, sync, comments, uploads, repeated, excused, mishaps>>

\* The issue is lost to a retry when no link names it yet.
ForwardCrashes(r) ==
  /\ forward[r].pc # "idle" /\ Mishap
  /\ forward' = [forward EXCEPT ![r] = NoForward]
  /\ excused' = excused \cup {k \in IdemKeys : forward[r].pc = "link" /\ r \in Opening(k)}
  /\ UNCHANGED <<note, link, issue, queue, token, sync, comments, uploads, repeated>>

-----------------------------------------------------------------------------
(***************************************************************************)
(* flush_outbox.                                                           *)
(***************************************************************************)
\* Faulty variant: sent rows are taken again.
ToSendOrSent(n) ==
  queue[n].status \in {"pending", "sent"} \/ (queue[n].status = "failed" /\ queue[n].tries < MaxTries)

ToSend(n) ==
  queue[n].status = "pending" \/ (queue[n].status = "failed" /\ queue[n].tries < MaxTries)

\* By issue, then in the order of the notes.
Before(m, n) ==
  \/ queue[m].issue < queue[n].issue
  \/ queue[m].issue = queue[n].issue /\ queue[m].note < queue[n].note

\* The flush that ends a forward takes enough rows for its notes.
SyncBatch(f) ==
  LET rows     == {n \in DOMAIN queue : ToSend(n)}
      Place(n) == Cardinality({m \in rows : m = n \/ Before(m, n)})
      limit    == IF f \in Forwards THEN Max({SyncLimit, Cardinality(forward[f].notes) + 5}) ELSE SyncLimit
  IN  [i \in 1..Min({limit, Cardinality(rows)}) |-> CHOOSE n \in rows : Place(n) = i]

\* A note the session of a forward has read keeps what it read.
DeletedAsRead(f, n) == note[n].deleted /\ ~(f \in Forwards /\ n \in forward[f].notes)

SyncHas(f) == {sync[f].todo[n].row : n \in DOMAIN sync[f].todo}
Syncs == Forwards \cup {Cron}

SyncSelect(f) ==
  LET batch == SyncBatch(f)
      Reading(n) ==
        [row |-> n, status |-> queue[n].status, tries |-> queue[n].tries,
         uploaded |-> queue[n].uploaded, deleted |-> DeletedAsRead(f, queue[n].note),
         photo |-> note[queue[n].note].photo]
  IN  /\ sync[f].pc = "idle"
      /\ IF f \in Forwards THEN forward[f].pc = "flush" ELSE batch # <<>>
      /\ sync' = IF batch = <<>> THEN sync
                 ELSE [sync EXCEPT ![f] = [NoSync EXCEPT !.pc = "send",
                                             !.todo = [i \in DOMAIN batch |-> Reading(batch[i])]]]
      /\ forward' = IF f \in Forwards THEN [forward EXCEPT ![f] = NoForward] ELSE forward
      /\ repeated' = repeated \cup (ToSet(batch) \cap UNION {SyncHas(g) : g \in Syncs \ {f}})
      /\ UNCHANGED <<note, link, issue, queue, token, comments, uploads, excused, mishaps>>

Row(f) == Head(sync[f].todo)
AtHand(f) == Row(f).row
Verdict(f, went) == sync' = [sync EXCEPT ![f].pc = "mark", ![f].went = went]

OwnerAtHand(f) == queue[AtHand(f)].owner

\* The credential of an owner is looked up once in a flush.
LookUp(f) ==
  LET u == OwnerAtHand(f)
  IN  /\ sync[f].pc = "send" /\ ~Row(f).deleted /\ u \notin sync[f].asked
      /\ sync' = [sync EXCEPT ![f].asked = @ \cup {u}, ![f].pats = @ \cup ({u} \cap token)]
      /\ UNCHANGED <<note, link, issue, queue, token, forward, comments, uploads, repeated, excused, mishaps>>

\* Faulty variant: deleted notes are sent as well.
MaySendAny(f) == sync[f].pc = "send" /\ (Row(f).deleted \/ OwnerAtHand(f) \in sync[f].pats)

MaySend(f) == sync[f].pc = "send" /\ ~Row(f).deleted /\ OwnerAtHand(f) \in sync[f].pats

\* The note is deleted, or its owner had no usable credential.
Withheld(f) ==
  /\ sync[f].pc = "send" /\ ~MaySend(f)
  /\ Row(f).deleted \/ OwnerAtHand(f) \in sync[f].asked
  /\ Verdict(f, FALSE)
  /\ UNCHANGED <<note, link, issue, queue, token, forward, comments, uploads, repeated, excused, mishaps>>

PhotosFirst(f) == Row(f).photo /\ ~Row(f).uploaded

\* The photos are uploaded, and a transaction says so.
Upload(f) ==
  LET n == AtHand(f)
  IN  /\ MaySend(f) /\ PhotosFirst(f)
      /\ uploads' = [uploads EXCEPT ![n] = @ + 1]
      /\ queue' = [queue EXCEPT ![n].uploaded = TRUE]
      /\ sync' = [sync EXCEPT ![f].todo[1].uploaded = TRUE]
      /\ UNCHANGED <<note, link, issue, token, forward, comments, repeated, excused, mishaps>>

\* Some of them arrive, and not all.
UploadFails(f) ==
  LET n == AtHand(f)
  IN  /\ MaySend(f) /\ PhotosFirst(f) /\ Mishap
      /\ uploads' = [uploads EXCEPT ![n] = @ + 1]
      /\ repeated' = repeated \cup {n}
      /\ Verdict(f, FALSE)
      /\ UNCHANGED <<note, link, issue, queue, token, forward, comments, excused>>

Comment(f) ==
  LET n == AtHand(f)
  IN  /\ MaySend(f) /\ ~PhotosFirst(f)
      /\ comments' = [comments EXCEPT ![n] = @ + 1]
      /\ Verdict(f, TRUE)
      /\ UNCHANGED <<note, link, issue, queue, token, forward, uploads, repeated, excused, mishaps>>

\* Jira refuses the comment, or its answer is lost.
CommentFails(f) ==
  LET n == AtHand(f)
  IN  /\ MaySend(f) /\ ~PhotosFirst(f) /\ Mishap
      /\ \/ UNCHANGED <<comments, repeated>>
         \/ comments' = [comments EXCEPT ![n] = @ + 1] /\ repeated' = repeated \cup {n}
      /\ Verdict(f, FALSE)
      /\ UNCHANGED <<note, link, issue, queue, token, forward, uploads, excused>>

NextRow(f) ==
  IF Len(sync[f].todo) = 1 THEN NoSync
  ELSE [sync[f] EXCEPT !.pc = "send", !.todo = Tail(@), !.went = FALSE]

\* Faulty variant: a row is sent once it was tried.
SettledTried(f, n) == [queue[n] EXCEPT !.status = "sent"]

\* _mark.
Settled(f, n) ==
  [queue[n] EXCEPT !.status = Written(IF sync[f].went THEN "sent" ELSE "failed", Row(f).status, @),
                   !.tries = IF sync[f].went THEN @ ELSE Row(f).tries + 1]

Settle(f) ==
  LET n == AtHand(f)
  IN  /\ sync[f].pc = "mark"
      /\ queue' = [queue EXCEPT ![n] = Settled(f, n)]
      /\ sync' = [sync EXCEPT ![f] = NextRow(f)]
      /\ UNCHANGED <<note, link, issue, token, forward, comments, uploads, repeated, excused, mishaps>>

SyncCrashes(f) ==
  /\ sync[f].pc # "idle" /\ Mishap
  /\ sync' = [sync EXCEPT ![f] = NoSync]
  /\ repeated' = IF sync[f].pc = "mark" /\ sync[f].went THEN repeated \cup {AtHand(f)} ELSE repeated
  /\ UNCHANGED <<note, link, issue, queue, token, forward, comments, uploads, excused>>

-----------------------------------------------------------------------------
SyncInit ==
  /\ note = <<>> /\ queue = <<>>
  /\ link = [l \in Links |-> NoLink]
  /\ issue \in {<<>>, <<NoOne>>}
  /\ token = Owners
  /\ forward = [r \in Forwards |-> NoForward]
  /\ sync = [f \in Syncs |-> NoSync]
  /\ comments = [n \in QueueRows |-> 0] /\ uploads = [n \in QueueRows |-> 0]
  /\ repeated = {} /\ excused = {} /\ mishaps = 0

ForwardStep(r) == CreateIssue(r) \/ CreateFails(r) \/ LinkOne(r) \/ QueueNotes(r) \/ ForwardCrashes(r)

SyncStep(f) ==
  \/ SyncSelect(f) \/ LookUp(f) \/ Withheld(f)
  \/ Upload(f) \/ UploadFails(f)
  \/ Comment(f) \/ CommentFails(f)
  \/ Settle(f) \/ SyncCrashes(f)

SyncNext ==
  \/ \E w \in Orders : AddNote(w) \/ TransitionNote(w)
  \/ \E n \in DOMAIN note : ReadLinks(n) \/ CommitNote(n) \/ DeleteNote(n) \/ AttachPhoto(n)
  \/ \E l \in Links : RemoveLink(l) \/ \E u \in Owners \cup {NoOne} : RecordLink(l, u)
  \/ \E u \in Owners : StoreToken(u) \/ RevokeToken(u)
  \/ \E r \in Forwards :
       \/ ForwardStep(r)
       \/ \E wos \in SUBSET Orders, key \in IdemKeys \cup {NoOne}, u \in Owners : Plan(r, wos, key, u)
  \/ \E f \in Syncs : SyncStep(f)

SyncSpec == SyncInit /\ [][SyncNext]_syncVars

-----------------------------------------------------------------------------
SyncTypeOK ==
  /\ note \in Seq(Note)
  /\ link \in [Links -> Link]
  /\ issue \in Seq(IdemKeys \cup {NoOne})
  /\ queue \in Seq(QueueRow)
  /\ token \subseteq Owners
  /\ forward \in [Forwards -> Forward]
  /\ sync \in [Syncs -> Sync]
  /\ comments \in [QueueRows -> Nat] /\ uploads \in [QueueRows -> Nat]
  /\ repeated \subseteq QueueRows /\ excused \subseteq IdemKeys
  /\ mishaps \in 0..MaxMishaps

\* "one comment for one note on one issue": however forwards and new notes race, a note is
\* queued once for an issue.
OneRowPerComment ==
  \A m, n \in DOMAIN queue :
    queue[m].note = queue[n].note /\ queue[m].issue = queue[n].issue => m = n

\* A comment or its photos appear twice in Jira only after a lost answer, a partial upload
\* or a crash, or when two flushes took the row at once.
RepeatsExcused ==
  \A n \in QueueRows : comments[n] > 1 \/ uploads[n] > 1 => n \in repeated

\* A note has one row for each issue, whoever queues it, and a comment that Jira has twice
\* has a lost answer, a crash or an overlapping flush behind it.
CommentsGoOnce == SyncTypeOK /\ OneRowPerComment /\ RepeatsExcused

ReadAlive(n) ==
  \/ \E f \in Syncs : \E i \in DOMAIN sync[f].todo : sync[f].todo[i].row = n /\ ~sync[f].todo[i].deleted
  \/ \E r \in Forwards : queue[n].note \in forward[r].notes

\* A note that was deleted before any flush or forward under way read it never becomes a
\* comment.
DeletedNotesStayHome ==
  [][\A n \in DOMAIN queue :
       note[queue[n].note].deleted /\ ~ReadAlive(n) => comments'[n] = comments[n]]_syncVars

\* One key opens one issue, however often the forward is repeated, refused, or cut off after
\* its first link.  A second issue is explained by a lost answer of create_mrq, a crash before
\* the first link, two forwards of the key that both have linked nothing yet, the removal of
\* the last link with the key, or a link made by hand in place of the first one.
OneIssuePerKey ==
  \A i, j \in DOMAIN issue : issue[i] = issue[j] /\ issue[i] \notin excused \cup {NoOne} => i = j

\* A forward that comes to its end has queued every note it read; and one that was not to
\* repeat an earlier one has linked every work order (a link that is gone again was removed).
ForwardIsWhole ==
  \A r \in Forwards :
    forward[r].pc = "flush" =>
      /\ \A n \in forward[r].notes : Queued(n, forward[r].issue)
      /\ forward[r].key = NoOne =>
           \A w \in forward[r].wos :
             link[[wo |-> w, issue |-> forward[r].issue, type |-> "forwarded"]].state # "none"

QueuedOnceLinked(n) ==
  \A l \in Links : Syncing(l) /\ l.wo = note[n].wo /\ n > link[l].since => Queued(n, l.issue)

\* add_note queues a note for every issue its work order was linked to before the note was
\* begun.  A link that commits while the note is under way may be missed by both sides.
ManualNotesQueued ==
  \A n \in DOMAIN note : note[n].kind = "manual" /\ note[n].stage = "stored" => QueuedOnceLinked(n)

\* A key opens one issue unless excused, a forward that comes to its end is whole, and every
\* note begun once a link is there is queued.
ForwardsAreWhole == OneIssuePerKey /\ ForwardIsWhole /\ ManualNotesQueued

\* docs/domain-model/02-work-orders.md: "every subsequent work_order_note", that of a
\* transition too, is queued for the issues of its work order in the same transaction.
EveryNoteQueued == \A n \in DOMAIN note : note[n].stage = "stored" => QueuedOnceLinked(n)

\* The queue delivers at least once, and records as sent only what Jira has.
CommentStage(n) ==
  IF n \notin DOMAIN queue THEN "new"
  ELSE IF queue[n].status = "pending" THEN "queued" ELSE queue[n].status

CommentQueue == INSTANCE Delivery WITH
  Messages <- QueueRows, state <- [n \in QueueRows |-> CommentStage(n)], copies <- comments

CommentsDelivered == CommentQueue!Spec

=============================================================================
