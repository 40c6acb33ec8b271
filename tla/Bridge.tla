------------------------------- MODULE Bridge -------------------------------
(***************************************************************************)
(* TelegramBridgeService and the webhook that feeds it: the one-time codes *)
(* that bind a chat to an account, and the updates that Telegram delivers  *)
(* until it has an answer.                                                 *)
(***************************************************************************)
EXTENDS Naturals, FiniteSets, Sequences

CONSTANTS
  Members,     \* user accounts, all of them active
  Chats,
  Updates,     \* the update_ids of the commands "/start <code>"
  MaxCodes, MaxDeliveries, MaxCrashes,   \* bounds
  NoChat

ASSUME BridgeAssumption ==
  /\ NoChat \notin Chats /\ Chats # {}
  /\ MaxCodes \in Nat /\ MaxDeliveries \in Nat /\ MaxCrashes \in Nat

VARIABLES
  code,       \* telegram_link_code: the codes in the order they were made
  chatOf,     \* telegram_link: the chat of a member
  update,     \* update[n]: what Telegram knows of an update it has to deliver
  seen,       \* telegram_update_seen
  start,      \* start[n]: the processing of the command of update n
  making,     \* making[u]: the live codes a call of create_link_code has read
  bound,      \* bound[n]: the chat that update n bound, and its code
  contested,  \* codes that were redeemed from a read that another redemption overtook
  processed,  \* processed[n]: how often the command of n was begun
  lost        \* updates whose processing a crash ended

bridgeVars == <<code, chatOf, update, seen, start, making, bound, contested, processed, lost>>

LinkCode == [user : Members, state : {"unused", "used", "gone"}]
Update == [sent : BOOLEAN, chat : Chats, code : 0..MaxCodes, deliveries : 0..MaxDeliveries,
           answered : BOOLEAN]
NoUpdate == [sent |-> FALSE, chat |-> CHOOSE c \in Chats : TRUE, code |-> 0, deliveries |-> 0,
             answered |-> FALSE]

\* How far the command is: its code and chat were tested, and then the link of its user was
\* read; "late": another redemption of the code has committed since.
Start == [pc : {"idle", "dispatch", "redeem", "write"}, linked : BOOLEAN, late : BOOLEAN]
Resting == [pc |-> "idle", linked |-> FALSE, late |-> FALSE]

Codes == 1..MaxCodes
Unused(u) == {c \in DOMAIN code : code[c].user = u /\ code[c].state = "unused"}

\* create_link_code reads the codes it will delete ...
ReadCodes(u) ==
  /\ making[u].pc = "idle"
  /\ making' = [making EXCEPT ![u] = [pc |-> "read", codes |-> Unused(u)]]
  /\ UNCHANGED <<code, chatOf, update, seen, start, bound, contested, processed, lost>>

\* ... and replaces them by a new one.
CreateCode(u) ==
  /\ making[u].pc = "read" /\ Len(code) < MaxCodes
  /\ code' = Append([c \in DOMAIN code |-> IF c \in making[u].codes
                                           THEN [code[c] EXCEPT !.state = "gone"] ELSE code[c]],
                    [user |-> u, state |-> "unused"])
  /\ making' = [making EXCEPT ![u] = [pc |-> "idle", codes |-> {}]]
  /\ UNCHANGED <<chatOf, update, seen, start, bound, contested, processed, lost>>

\* A code is worth nothing after ten minutes.
ExpireCode(c) ==
  /\ code[c].state = "unused"
  /\ code' = [code EXCEPT ![c].state = "gone"]
  /\ UNCHANGED <<chatOf, update, seen, start, making, bound, contested, processed, lost>>

-----------------------------------------------------------------------------
\* Somebody sends "/start <code>" from a chat.
Send(n, chat, c) ==
  /\ ~update[n].sent /\ c \in DOMAIN code
  /\ update' = [update EXCEPT ![n] = [NoUpdate EXCEPT !.sent = TRUE, !.chat = chat, !.code = c]]
  /\ UNCHANGED <<code, chatOf, seen, start, making, bound, contested, processed, lost>>

\* Faulty variant: the row of an update is written whether it is there or not.
AlwaysNew(n) == TRUE

\* mark_update_seen: the INSERT counts a row only the first time.
FirstTime(n) == n \notin seen

\* Telegram delivers, and delivers again until it has an answer.
Deliver(n) ==
  /\ update[n].sent /\ ~update[n].answered /\ update[n].deliveries < MaxDeliveries
  /\ start[n].pc = "idle"
  /\ seen' = seen \cup {n}
  /\ IF FirstTime(n)
     THEN /\ start' = [start EXCEPT ![n].pc = "dispatch"]
          /\ processed' = [processed EXCEPT ![n] = @ + 1]
          /\ update' = [update EXCEPT ![n].deliveries = @ + 1]
     ELSE /\ update' = [update EXCEPT ![n].deliveries = @ + 1, ![n].answered = TRUE]
          /\ UNCHANGED <<start, processed>>
  /\ UNCHANGED <<code, chatOf, making, bound, contested, lost>>

\* The process dies before it has answered.
CrashCommand(n) ==
  /\ start[n].pc # "idle" /\ Cardinality(lost) < MaxCrashes
  /\ start' = [start EXCEPT ![n] = Resting]
  /\ lost' = lost \cup {n}
  /\ UNCHANGED <<code, chatOf, update, seen, making, bound, contested, processed>>

\* Every way out of the webhook, failures included, answers 200.
AnswerOk(n) == update' = [update EXCEPT ![n].answered = TRUE]

CodeOf(n) == code[update[n].code]

\* Faulty variant: a used code is as good as a new one.
Redeemable(n) == CodeOf(n).state # "gone"

\* peek_code_user and the tests of redeem_code: the code, and whose the chat is.
MayRedeem(n) ==
  /\ CodeOf(n).state = "unused"
  /\ \A u \in Members : chatOf[u] = update[n].chat => u = CodeOf(n).user

TestCode(n) ==
  /\ start[n].pc = "dispatch"
  /\ IF MayRedeem(n)
     THEN /\ start' = [start EXCEPT ![n].pc = "redeem"]
          /\ UNCHANGED update
     ELSE /\ start' = [start EXCEPT ![n] = Resting]
          /\ AnswerOk(n)
  /\ UNCHANGED <<code, chatOf, seen, making, bound, contested, processed, lost>>

ReadLink(n) ==
  /\ start[n].pc = "redeem"
  /\ start' = [start EXCEPT ![n].pc = "write", ![n].linked = chatOf[CodeOf(n).user] # NoChat]
  /\ UNCHANGED <<code, chatOf, update, seen, making, bound, contested, processed, lost>>

\* The flush fails when the code's row was deleted, the link's came or went since it was read,
\* or the chat is another member's by now.
Fails(n) ==
  \/ CodeOf(n).state = "gone"
  \/ start[n].linked # (chatOf[CodeOf(n).user] # NoChat)
  \/ \E u \in Members : chatOf[u] = update[n].chat /\ u # CodeOf(n).user

CommitRedeem(n) ==
  LET c == update[n].code IN
  /\ start[n].pc = "write"
  /\ IF Fails(n)
     THEN /\ start' = [start EXCEPT ![n] = Resting]
          /\ UNCHANGED <<code, chatOf, bound, contested>>
     ELSE /\ code' = [code EXCEPT ![c].state = "used"]
          /\ chatOf' = [chatOf EXCEPT ![code[c].user] = update[n].chat]
          /\ bound' = [bound EXCEPT ![n] = [chat |-> update[n].chat, code |-> c]]
          /\ contested' = IF start[n].late THEN contested \cup {c} ELSE contested
          /\ start' = [m \in Updates |->
               IF m = n THEN Resting
               ELSE [start[m] EXCEPT !.late = @ \/ (start[m].pc \in {"redeem", "write"} /\ update[m].code = c)]]
  /\ AnswerOk(n)
  /\ UNCHANGED <<seen, making, processed, lost>>

UnlinkChat(u) ==
  /\ chatOf[u] # NoChat
  /\ chatOf' = [chatOf EXCEPT ![u] = NoChat]
  /\ UNCHANGED <<code, update, seen, start, making, bound, contested, processed, lost>>

\* _dispatch of "/start <code>" (the other texts are questions, or close a conversation).
Dispatch(n) == TestCode(n) \/ ReadLink(n) \/ CommitRedeem(n)

-----------------------------------------------------------------------------
BridgeInit ==
  /\ code = <<>> /\ chatOf = [u \in Members |-> NoChat]
  /\ update = [n \in Updates |-> NoUpdate] /\ seen = {}
  /\ start = [n \in Updates |-> Resting]
  /\ making = [u \in Members |-> [pc |-> "idle", codes |-> {}]]
  /\ bound = [n \in Updates |-> [chat |-> NoChat, code |-> 0]]
  /\ contested = {} /\ processed = [n \in Updates |-> 0] /\ lost = {}

BridgeNext ==
  \/ \E u \in Members : ReadCodes(u) \/ CreateCode(u) \/ UnlinkChat(u)
  \/ \E c \in DOMAIN code : ExpireCode(c)
  \/ \E n \in Updates :
       \/ \E chat \in Chats, c \in Codes : Send(n, chat, c)
       \/ Deliver(n) \/ CrashCommand(n) \/ Dispatch(n)

BridgeSpec == BridgeInit /\ [][BridgeNext]_bridgeVars

-----------------------------------------------------------------------------
BridgeTypeOK ==
  /\ code \in Seq(LinkCode) /\ chatOf \in [Members -> Chats \cup {NoChat}]
  /\ update \in [Updates -> Update] /\ seen \subseteq Updates /\ start \in [Updates -> Start]
  /\ making \in [Members -> [pc : {"idle", "read"}, codes : SUBSET Codes]]
  /\ bound \in [Updates -> [chat : Chats \cup {NoChat}, code : 0..MaxCodes]]
  /\ contested \subseteq Codes /\ processed \in [Updates -> Nat] /\ lost \subseteq Updates

\* A code binds a chat once, unless two chats had both read it unused.
CodeBindsOnce ==
  \A m, n \in Updates :
    bound[m].code # 0 /\ bound[m].code = bound[n].code => m = n \/ bound[m].code \in contested

\* However redemptions race, a chat belongs to one member, and to the one whose code named it.
ChatsAreOwn ==
  /\ \A u, v \in Members : chatOf[u] # NoChat /\ chatOf[u] = chatOf[v] => u = v
  /\ \A u \in Members : chatOf[u] # NoChat =>
       \E n \in Updates : bound[n].chat = chatOf[u] /\ code[bound[n].code].user = u

\* A command is carried out at most once, however often it is delivered, and an update that
\* Telegram counts as delivered was not carried out to its end only when the process died.
CommandsOnce ==
  \A n \in Updates :
    /\ processed[n] <= 1
    /\ update[n].answered => processed[n] = 1
    /\ n \in seen /\ start[n].pc = "idle" /\ ~update[n].answered => n \in lost

BridgeSafe == CodeBindsOnce /\ ChatsAreOwn /\ CommandsOnce

=============================================================================
