------------------------------ MODULE Gateway ------------------------------
(***************************************************************************)
(* The Hermes gateway in front of the language model: what a question must *)
(* pass before money is spent on it (the month's budget, which all targets *)
(* share, the day's budget of its own target, and the questions that its   *)
(* source has left that day), the semaphore it waits for, and what the     *)
(* ledger records when it ends.  The event loop runs one handler at a time *)
(* between awaits; several wait for the model at once.  Costs are in units *)
(* of the price list.  The codex back end, which has no ledger, is left    *)
(* out; so are the secret and the targets' addresses, which refuse before  *)
(* anything is read.                                                       *)
(***************************************************************************)
EXTENDS Integers, Sequences, FiniteSets, FiniteSetsExt

CONSTANTS
  Targets,        \* the products that share the gateway
  CmmsTarget,     \* the one whose work orders are summarised
  Sources,        \* the hashes of the clients that ask
  Asks,           \* requests that may be under way at once
  Concurrency,    \* HERMES_MAX_CONCURRENCY
  DailyBudget,    \* of each target
  MonthlyBudget,  \* of all together
  QuestionLimit,  \* of a source, a day, by target; none when it is not positive
  MaxCost,        \* what one request costs at most
  MonthLength,    \* days in a month
  LastDay         \* bound: the days that are looked at

ASSUME GatewayAssumption ==
  /\ IsFiniteSet(Targets) /\ IsFiniteSet(Asks) /\ Sources # {}
  /\ CmmsTarget \in Targets
  /\ DailyBudget \in [Targets -> Int] /\ QuestionLimit \in [Targets -> Int]
  /\ MonthlyBudget \in Int
  /\ Concurrency \in Nat \ {0} /\ MaxCost \in Nat \ {0}
  /\ MonthLength \in Nat \ {0} /\ LastDay \in Nat

VARIABLES
  today,      \* the day, in UTC
  calls,      \* by day and target, what the rows of calls add up to
  questions,  \* by day, target and source, the rows of questions
  ask,        \* the requests
  line,       \* those that wait for the semaphore, first come first served
  answers     \* ghost: by day, target and source, the answers that were given

gatewayVars == <<today, calls, questions, ask, line, answers>>

Days == 0..LastDay

NoAsk == [pc |-> "idle", path |-> "chat", target |-> CmmsTarget,
          source |-> CHOOSE s \in Sources : TRUE, day |-> 0]

AskState ==
  [pc : {"idle", "waiting", "running", "monthly", "daily", "quota"},
   path : {"chat", "description"}, target : Targets, source : Sources, day : Days]

-----------------------------------------------------------------------------
(***************************************************************************)
(* The ledger.                                                             *)
(***************************************************************************)
\* Faulty variant: the day's spending of every target.
SpentByAll(d, t) == MapThenSumSet(LAMBDA u : calls[d, u], Targets)

SpentOn(d, t) == calls[d, t]

SpentInMonth(d) ==
  MapThenSumSet(LAMBDA p : calls[p], {p \in Days \X Targets : p[1] \div MonthLength = d \div MonthLength})

Exhausted(spent, limit) == limit <= 0 \/ spent >= limit

QuotaLeft(n, limit) == limit <= 0 \/ n < limit

\* Faulty variant: counted without the test.
QuestionsUnchecked(n, limit) == IF limit > 0 THEN n + 1 ELSE n

\* take_question: tested and counted under the lock of the ledger.
QuestionsAfter(n, limit) == IF limit > 0 /\ n < limit THEN n + 1 ELSE n

-----------------------------------------------------------------------------
(***************************************************************************)
(* /chat and /mrq-description.                                             *)
(***************************************************************************)
Verdict(path, t, s) ==
  IF Exhausted(SpentInMonth(today), MonthlyBudget) THEN "monthly"
  ELSE IF Exhausted(SpentOn(today, t), DailyBudget[t]) THEN "daily"
  ELSE IF path = "description" THEN "running"
  ELSE IF QuotaLeft(questions[today, t, s], QuestionLimit[t]) THEN "waiting" ELSE "quota"

\* The gates are passed without an await; a summary takes no place in the line.
Arrive(a, path, t, s) ==
  LET verdict == Verdict(path, t, s)
  IN  /\ ask[a].pc \notin {"waiting", "running"}
      /\ path = "description" => t = CmmsTarget
      /\ ask' = [ask EXCEPT ![a] = [pc |-> verdict, path |-> path, target |-> t, source |-> s, day |-> today]]
      /\ line' = IF verdict = "waiting" THEN Append(line, a) ELSE line
      /\ UNCHANGED <<today, calls, questions, answers>>

Chatting == {a \in Asks : ask[a].pc = "running" /\ ask[a].path = "chat"}

\* The semaphore is free: neither the budgets nor the quota are looked at again.
StartChat ==
  /\ line # <<>> /\ Cardinality(Chatting) < Concurrency
  /\ ask' = [ask EXCEPT ![Head(line)].pc = "running"]
  /\ line' = Tail(line)
  /\ UNCHANGED <<today, calls, questions, answers>>

EndAsk(a) == ask' = [ask EXCEPT ![a] = NoAsk] /\ UNCHANGED <<today, line>>

\* _record: on the day it is, not the day it was asked; a request that made no call has no row.
Record(a, cost) == calls' = [calls EXCEPT ![<<today, ask[a].target>>] = @ + cost]

\* A reply or a refusal of the model: the cost, then, of a chat, the question.
Answer(a, cost) ==
  LET t == ask[a].target
      s == ask[a].source
  IN  /\ ask[a].pc = "running"
      /\ EndAsk(a)
      /\ Record(a, cost)
      /\ IF ask[a].path = "chat"
         THEN /\ questions' = [questions EXCEPT ![<<today, t, s>>] = QuestionsAfter(@, QuestionLimit[t])]
              /\ answers' = [answers EXCEPT ![<<today, t, s>>] = @ + 1]
         ELSE UNCHANGED <<questions, answers>>

\* Faulty variant: a failure costs a question.
FailCounting(a, cost) ==
  LET t == ask[a].target
  IN  /\ ask[a].pc = "running"
      /\ EndAsk(a)
      /\ Record(a, cost)
      /\ questions' = [questions EXCEPT ![<<today, t, ask[a].source>>] = QuestionsAfter(@, QuestionLimit[t])]
      /\ UNCHANGED answers

\* The back end fails and says what was used by then: no question is counted.
Fail(a, cost) ==
  /\ ask[a].pc = "running"
  /\ EndAsk(a)
  /\ Record(a, cost)
  /\ UNCHANGED <<questions, answers>>

\* The time limit, a tool server that fails, a ledger that does: nothing is recorded.
GiveUp(a) ==
  /\ ask[a].pc = "running"
  /\ EndAsk(a)
  /\ UNCHANGED <<calls, questions, answers>>

\* The process ends and starts again: the ledger is a file.
Restart ==
  /\ \E a \in Asks : ask[a].pc \in {"waiting", "running"}
  /\ ask' = [a \in Asks |-> IF ask[a].pc \in {"waiting", "running"}
                            THEN NoAsk ELSE ask[a]]
  /\ line' = <<>>
  /\ UNCHANGED <<today, calls, questions, answers>>

Midnight ==
  /\ today < LastDay
  /\ today' = today + 1
  /\ UNCHANGED <<calls, questions, ask, line, answers>>

-----------------------------------------------------------------------------
GatewayInit ==
  /\ today = 0
  /\ calls = [p \in Days \X Targets |-> 0]
  /\ questions = [p \in Days \X Targets \X Sources |-> 0]
  /\ ask = [a \in Asks |-> NoAsk]
  /\ line = <<>>
  /\ answers = [p \in Days \X Targets \X Sources |-> 0]

GatewayNext ==
  \/ \E a \in Asks, path \in {"chat", "description"}, t \in Targets, s \in Sources : Arrive(a, path, t, s)
  \/ StartChat
  \/ \E a \in Asks : \/ \E cost \in 1..MaxCost : Answer(a, cost)
                     \/ \E cost \in 0..MaxCost : Fail(a, cost)
                     \/ GiveUp(a)
  \/ Restart
  \/ Midnight

GatewaySpec == GatewayInit /\ [][GatewayNext]_gatewayVars

-----------------------------------------------------------------------------
GatewayTypeOK ==
  /\ today \in Days
  /\ calls \in [Days \X Targets -> Nat]
  /\ questions \in [Days \X Targets \X Sources -> Nat]
  /\ answers \in [Days \X Targets \X Sources -> Nat]
  /\ ask \in [Asks -> AskState]
  /\ line \in Seq(Asks)

\* A question counts when it is answered and only then, and the count stops at the limit
\* however many are answered at once: failures, time-outs and restarts cost a visitor nothing.
QuestionsAreAnswers ==
  \A p \in Days \X Targets \X Sources :
    questions[p] = IF QuestionLimit[p[2]] <= 0 THEN 0 ELSE Min({answers[p], QuestionLimit[p[2]]})

\* Who is turned away has had the answers of the day, or the money is spent: the day's of the
\* target that was asked, whatever the other one spends, or the month's of all.
RefusalsAreTrue ==
  \A a \in Asks :
    LET q == ask[a] IN
      /\ q.pc = "quota" => answers[q.day, q.target, q.source] >= QuestionLimit[q.target]
      /\ q.pc = "daily" => calls[q.day, q.target] >= DailyBudget[q.target]
      /\ q.pc = "monthly" => SpentInMonth(q.day) >= MonthlyBudget

\* The gates are not looked at again after the wait: limits are passed, by no more than what
\* the requests under way at once can add.
OvershootIsBounded ==
  LET slack == Cardinality(Asks) * MaxCost
  IN  /\ \A p \in Days \X Targets :
           calls[p] < DailyBudget[p[2]] + slack \/ (DailyBudget[p[2]] <= 0 /\ calls[p] = 0)
      /\ \A d \in Days :
           SpentInMonth(d) < MonthlyBudget + slack \/ (MonthlyBudget <= 0 /\ SpentInMonth(d) = 0)
      /\ \A p \in Days \X Targets \X Sources :
           QuestionLimit[p[2]] > 0 => answers[p] < QuestionLimit[p[2]] + Cardinality(Asks)

\* Questions are counted when they are answered, who is turned away has been served or the
\* money is gone, and limits are passed by no more than the requests that wait.
GatewayKeepsLimits == GatewayTypeOK /\ QuestionsAreAnswers /\ RefusalsAreTrue /\ OvershootIsBounded

=============================================================================
