----------------------------- MODULE MCDelivery -----------------------------
(***************************************************************************)
(* A small instance of the two outboxes, which share no state: "part" says *)
(* what a behaviour is about: notices, the comments on an issue that is    *)
(* there, or the forwards that open issues.                                *)
(***************************************************************************)
EXTENDS Notifications, JiraSync

CONSTANTS w1, w2, ann, p1, f1, f2, u1, k1, q1, MaxAsked

VARIABLES
  part,   \* what the behaviour is about
  asked   \* how many requests there were about notes, links and forwards

vars == <<notifyVars, syncVars, part, asked>>

AssignedDef == [w \in Jobs |-> {ann}]

\* A watcher of all that opens, by chat, and an assignee on the watch list, by mail.
ProfilesDef ==
  {[active |-> TRUE, channels |-> {"telegram"}, own |-> "nobody", watch |-> {ann},
    onOpen |-> TRUE, onClose |-> FALSE],
   [active |-> TRUE, channels |-> {"email"}, own |-> ann, watch |-> {ann},
    onOpen |-> FALSE, onClose |-> FALSE]}

Appended == [wo |-> w1, issue |-> 1, type |-> "appended"]
ByHand == [wo |-> w1, issue |-> 1, type |-> "forwarded"]

\* Admins change the recipients before the first flush and leave them active then.
Notify ==
  /\ NotifyNext
  /\ \/ recipient' = recipient
     \/ outbox = <<>>
     \/ /\ Len(outbox) = 1 /\ begun = 0 /\ \A w \in Jobs : closing[w] = 0
        /\ \A p \in Recipients : recipient'[p].active = recipient[p].active

NoteUnderWay == \E n \in DOMAIN note : note[n].stage # "stored"

\* Of what is asked while add_note is under way only the links matter to it; that two notes are
\* under way at once is left to the forwards.
Ask ==
  \/ (part = "comments" => ~NoteUnderWay) /\ AddNote(w1)
  \/ \E l \in Links : l.wo = w1 /\ RemoveLink(l)
  \/ \E r \in Forwards :
       IF part = "comments" THEN Plan(r, {w1}, k1, u1)
       ELSE \E key \in {k1, NoOne} : Plan(r, Orders, key, u1)
  \/ part = "forwards" /\ RecordLink(ByHand, NoOne)
  \/ /\ part = "comments"
     /\ \/ RecordLink(Appended, u1)
        \/ /\ ~NoteUnderWay
           /\ \/ note # <<>> /\ (TransitionNote(w1) \/ DeleteNote(1) \/ AttachPhoto(1))
              \/ \E u \in Owners : StoreToken(u) \/ RevokeToken(u)

Answer ==
  \/ \E n \in DOMAIN note : ReadLinks(n) \/ CommitNote(n)
  \/ \E r \in Forwards : ForwardStep(r)
  \/ \E f \in Syncs : SyncStep(f)

MCInit ==
  /\ NotifyInit /\ SyncInit
  /\ part \in {"notices", "comments", "forwards"}
  /\ (issue = <<>>) <=> (part = "forwards")
  /\ asked = IF part = "forwards" THEN 1 ELSE 0

MCNext ==
  /\ UNCHANGED part
  /\ \/ part = "notices" /\ Notify /\ UNCHANGED <<syncVars, asked>>
     \/ /\ part # "notices" /\ asked < MaxAsked /\ asked' = asked + 1
        /\ Ask
        /\ UNCHANGED notifyVars
     \/ part # "notices" /\ Answer /\ UNCHANGED <<notifyVars, asked>>

MCSpec == MCInit /\ [][MCNext]_vars /\ NotifyFairness

=============================================================================
