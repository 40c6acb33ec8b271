--------------------------- MODULE Conversations ---------------------------
(***************************************************************************)
(* AssistantService with its two callers, the dock of the web and the      *)
(* messenger's background task, for one user (users share nothing): a      *)
(* question is stored first, the answer comes over the network and is      *)
(* stored after it.                                                        *)
(***************************************************************************)
EXTENDS Naturals, FiniteSets, Sequences

CONSTANTS
  Turns,       \* the requests and background tasks that can be under way at once
  MaxOpen,     \* MAX_OPEN_CONVERSATIONS
  MaxConversations, MaxMessages   \* bounds

ASSUME ConversationAssumption == MaxOpen \in Nat \ {0} /\ MaxConversations \in Nat /\ MaxMessages \in Nat

VARIABLES
  conversation,  \* assistant_conversation in the order of the ids
  message,       \* assistant_message in the order of the ids
  turn,          \* turn[t]: the request under way
  shown,         \* the answers the dock has shown: <<question, answer>>
  crowded,       \* a conversation was opened by a count that another one overtook
  crossed        \* conversations where a question came, or was asked again, while one was open

talkVars == <<conversation, message, turn, shown, crowded, crossed>>

ChatSources == {"web", "telegram"}
Conversation == [open : BOOLEAN, title : ChatSources]
\* "of" is the question that an answer answers.
Message == [conversation : 1..MaxConversations, role : {"user", "assistant"}, of : 0..MaxMessages]
Turn == [pc : {"idle", "open", "post", "ask", "call"}, source : ChatSources,
         conversation : 0..MaxConversations, question : 0..MaxMessages, late : BOOLEAN]
NoTurn == [pc |-> "idle", source |-> "web", conversation |-> 0, question |-> 0, late |-> FALSE]

OpenConversations == {c \in DOMAIN conversation : conversation[c].open}
TelegramConversations == {c \in OpenConversations : conversation[c].title = "telegram"}

\* The questions of a conversation that have no answer yet.
Unanswered(c) ==
  {m \in DOMAIN message : /\ message[m].conversation = c /\ message[m].role = "user"
                          /\ \A n \in DOMAIN message : message[n].of # m}
Asking(m) == \E t \in Turns : turn[t].pc = "call" /\ turn[t].question = m

-----------------------------------------------------------------------------
\* A question without a conversation: the count of the open ones is tested, then one is
\* inserted.  Of the web, its question is stored in the same transaction.
TestLimit(t, source) ==
  /\ turn[t].pc = "idle"
  /\ source = "telegram" => TelegramConversations = {}
  /\ Cardinality(OpenConversations) < MaxOpen
  /\ turn' = [turn EXCEPT ![t] = [NoTurn EXCEPT !.pc = "open", !.source = source]]
  /\ UNCHANGED <<conversation, message, shown, crowded, crossed>>

Opened(source) == Append(conversation, [open |-> TRUE, title |-> source])
Said(c) == Append(message, [conversation |-> c, role |-> "user", of |-> 0])

CreateConversation(t) ==
  LET k == turn[t]
      c == Len(conversation) + 1
  IN  /\ k.pc = "open" /\ c <= MaxConversations /\ Len(message) < MaxMessages
      /\ conversation' = Opened(k.source)
      /\ crowded' = (crowded \/ k.late)
      /\ IF k.source = "web"
         THEN /\ message' = Said(c)
              /\ turn' = [o \in Turns |-> IF o = t THEN NoTurn
                                          ELSE [turn[o] EXCEPT !.late = @ \/ turn[o].pc = "open"]]
         ELSE /\ UNCHANGED message
              /\ turn' = [o \in Turns |->
                   IF o = t THEN [k EXCEPT !.pc = "post", !.conversation = c]
                   ELSE [turn[o] EXCEPT !.late = @ \/ turn[o].pc = "open"]]
      /\ UNCHANGED <<shown, crossed>>

\* A question in a conversation that is open when it is loaded.
LoadConversation(t, c, source) ==
  /\ turn[t].pc = "idle" /\ conversation[c].open
  /\ source = "telegram" => conversation[c].title = "telegram"
  /\ turn' = [turn EXCEPT ![t] = [NoTurn EXCEPT !.pc = "post", !.source = source,
                                                !.conversation = c]]
  /\ UNCHANGED <<conversation, message, shown, crowded, crossed>>

\* The messenger's task goes on with its question; the dock asks in a request of its own.
AddUserMessage(t) ==
  LET k == turn[t] IN
  /\ k.pc = "post" /\ Len(message) < MaxMessages
  /\ message' = Said(k.conversation)
  /\ turn' = [turn EXCEPT ![t] = IF k.source = "web" THEN NoTurn
                                 ELSE [k EXCEPT !.pc = "call", !.question = Len(message) + 1]]
  /\ crossed' = IF Unanswered(k.conversation) # {} THEN crossed \cup {k.conversation} ELSE crossed
  /\ UNCHANGED <<conversation, shown, crowded>>

\* next_message_after
Later(m) == {n \in DOMAIN message : n > m /\ message[n].conversation = message[m].conversation}
Next1(m) == CHOOSE n \in Later(m) : \A o \in Later(m) : n <= o

\* Faulty variant: a question is asked as often as the dock comes.
NeverAnswered(m) == FALSE

Answered1(m) == Later(m) # {} /\ message[Next1(m)].role = "assistant"

\* The second request of the dock: an answer that is there is shown again.
AskAgain(t, m) ==
  /\ turn[t].pc = "idle"
  /\ message[m].role = "user" /\ conversation[message[m].conversation].open
  /\ IF Answered1(m)
     THEN /\ shown' = shown \cup {<<m, Next1(m)>>}
          /\ UNCHANGED <<turn, crossed>>
     ELSE /\ turn' = [turn EXCEPT ![t] = [NoTurn EXCEPT !.pc = "call", !.question = m,
                                            !.conversation = message[m].conversation]]
          /\ crossed' = IF Asking(m) THEN crossed \cup {message[m].conversation} ELSE crossed
          /\ UNCHANGED shown
  /\ UNCHANGED <<conversation, message, crowded>>

\* The gateway answers: the session of the turn still has the conversation as it loaded it, so
\* one that was closed meanwhile gets its answer too.
StoreAnswer(t) ==
  LET k == turn[t] IN
  /\ k.pc = "call" /\ Len(message) < MaxMessages
  /\ message' = Append(message, [conversation |-> k.conversation, role |-> "assistant",
                                 of |-> k.question])
  /\ shown' = IF k.source = "web" THEN shown \cup {<<k.question, Len(message) + 1>>} ELSE shown
  /\ turn' = [turn EXCEPT ![t] = NoTurn]
  /\ UNCHANGED <<conversation, crowded, crossed>>

\* The gateway fails, times out or refuses, or the process ends: the question stays.
NoAnswer(t) ==
  /\ turn[t].pc # "idle"
  /\ turn' = [turn EXCEPT ![t] = NoTurn]
  /\ UNCHANGED <<conversation, message, shown, crowded, crossed>>

\* close_conversation, and "/new" for those of the messenger
CloseConversation(c) ==
  /\ conversation[c].open
  /\ conversation' = [conversation EXCEPT ![c].open = FALSE]
  /\ UNCHANGED <<message, turn, shown, crowded, crossed>>

CloseTelegram ==
  /\ TelegramConversations # {}
  /\ conversation' = [c \in DOMAIN conversation |->
       [conversation[c] EXCEPT !.open = @ /\ conversation[c].title # "telegram"]]
  /\ UNCHANGED <<message, turn, shown, crowded, crossed>>

-----------------------------------------------------------------------------
TalkInit ==
  /\ conversation = <<>> /\ message = <<>> /\ turn = [t \in Turns |-> NoTurn]
  /\ shown = {} /\ crowded = FALSE /\ crossed = {}

\* assistant_send and "new conversation": the first request of the dock.
SendInDock(t) ==
  \/ TestLimit(t, "web")
  \/ \E c \in DOMAIN conversation : LoadConversation(t, c, "web")
  \/ turn[t].source = "web" /\ (CreateConversation(t) \/ AddUserMessage(t))

\* assistant_reply: the second one, which the page makes by itself, and again when it is told to.
ReplyInDock(t) ==
  \/ \E m \in DOMAIN message : AskAgain(t, m)
  \/ turn[t].source = "web" /\ (StoreAnswer(t) \/ NoAnswer(t))

\* _process_telegram_question: all of it in one task after the webhook has answered, with the
\* conversation found by its title.
AskInChat(t) ==
  \/ TestLimit(t, "telegram")
  \/ \E c \in DOMAIN conversation : LoadConversation(t, c, "telegram")
  \/ /\ turn[t].source = "telegram"
     /\ CreateConversation(t) \/ AddUserMessage(t) \/ StoreAnswer(t) \/ NoAnswer(t)

TalkNext ==
  \/ \E t \in Turns : SendInDock(t) \/ ReplyInDock(t) \/ AskInChat(t)
  \/ \E c \in DOMAIN conversation : CloseConversation(c)
  \/ CloseTelegram

TalkSpec == TalkInit /\ [][TalkNext]_talkVars

-----------------------------------------------------------------------------
TalkTypeOK ==
  /\ conversation \in Seq(Conversation) /\ message \in Seq(Message) /\ turn \in [Turns -> Turn]
  /\ shown \subseteq (1..MaxMessages) \X (1..MaxMessages)

\* "per user": there are never more open conversations than MAX_OPEN_CONVERSATIONS, unless two
\* questions were counted at once.
OpenWithinLimit == Cardinality(OpenConversations) <= MaxOpen \/ crowded

\* A question that is asked again gets the answer it had, not a second one and not that of
\* another question, in a conversation where each question has its answer before the next comes.
AnswersAreOwn ==
  /\ \A m, n \in DOMAIN message :
       message[m].role = "assistant" /\ message[m].of = message[n].of /\ m # n =>
         message[m].conversation \in crossed
  /\ \A pair \in shown :
       message[pair[2]].of = pair[1] \/ message[pair[1]].conversation \in crossed

TalksAreSound == OpenWithinLimit /\ AnswersAreOwn

=============================================================================
