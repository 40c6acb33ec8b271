------------------------------ MODULE Backends ------------------------------
(***************************************************************************)
(* The back ends of the Hermes gateway, behind the gates that Gateway      *)
(* models: a codex child process in a working directory of its own, or a   *)
(* turn of the Anthropic API, which calls the tools of an MCP server until *)
(* the model stops.  HERMES_BACKEND picks one for the whole process.  Each *)
(* job is one request; the semaphore lets so many in, in whatever order    *)
(* here.  A job can end at every await: the answer, an error of the API,   *)
(* of the tool server, of the ledger, or the time limit.                   *)
(***************************************************************************)
EXTENDS Naturals, FiniteSets

CONSTANTS
  Jobs,
  Slots,      \* HERMES_MAX_CONCURRENCY
  MaxTurns    \* CHAT_MAX_ITERATIONS

ASSUME BackendsAssumption == Slots \in Nat \ {0} /\ MaxTurns \in Nat \ {0}

VARIABLES
  backend,    \* HERMES_BACKEND
  job

backendVars == <<backend, job>>

\* calls: what the API answered and charges; stop: why the model, or the child, stopped last;
\* booked: the calls in the ledger; counted: a question of the day's.
NoJob == [pc |-> "idle", kind |-> "chat", calls |-> 0, stop |-> "none", dir |-> FALSE,
          status |-> 0, cause |-> "none", booked |-> 0, counted |-> FALSE]

Stops == {"none", "text", "empty", "refusal", "tool_use", "error"}

JobState ==
  [pc : {"idle", "line", "workdir", "child", "exited", "tools", "turn", "closing", "done"},
   kind : {"chat", "text"}, calls : 0..MaxTurns, stop : Stops, dir : BOOLEAN,
   status : {0, 200, 401, 429, 500, 502, 503},
   cause : {"none", "gate", "answer", "backend", "tools", "time", "ledger"},
   booked : 0..MaxTurns, counted : BOOLEAN]

\* A text of the API waits for no slot.
Queues(kind) == backend = "codex" \/ kind = "chat"

InSlot == {j \in Jobs : job[j].pc \notin {"idle", "line", "done"} /\ Queues(job[j].kind)}

-----------------------------------------------------------------------------
\* 503 and 401 are for the secret; a chat also for its target, the budgets, the quota, the key.
Refusals(kind) == {401, 503} \cup IF backend = "anthropic" /\ kind = "chat" THEN {429} ELSE {}

Ended(j, status, cause) ==
  [job[j] EXCEPT !.pc = "done", !.dir = FALSE, !.status = status, !.cause = cause]

Refused(j, kind, status) ==
  /\ job[j].pc = "idle" /\ status \in Refusals(kind)
  /\ job' = [job EXCEPT ![j] = [Ended(j, status, "gate") EXCEPT !.kind = kind]]
  /\ UNCHANGED backend

Admit(j, kind) ==
  /\ job[j].pc = "idle"
  /\ job' = [job EXCEPT ![j].pc = IF Queues(kind) THEN "line" ELSE "turn", ![j].kind = kind]
  /\ UNCHANGED backend

Enter(j) ==
  /\ job[j].pc = "line" /\ Cardinality(InSlot) < Slots
  /\ job' = [job EXCEPT ![j].pc = IF backend = "codex" THEN "workdir" ELSE "tools",
                        ![j].dir = backend = "codex"]
  /\ UNCHANGED backend

-----------------------------------------------------------------------------
(***************************************************************************)
(* codex                                                                   *)
(***************************************************************************)
Spawn(j) ==
  /\ job[j].pc = "workdir"
  /\ \/ job' = [job EXCEPT ![j].pc = "child"]
     \/ job' = [job EXCEPT ![j] = Ended(j, 500, "backend")]
  /\ UNCHANGED backend

\* error: another exit code than 0, whatever it said.
ChildExits(j, stop) ==
  /\ job[j].pc = "child" /\ stop \in {"text", "empty", "error"}
  /\ job' = [job EXCEPT ![j].pc = "exited", ![j].stop = stop]
  /\ UNCHANGED backend

\* Faulty variant: the exit code is not looked at.
CollectAny(j) ==
  /\ job[j].pc = "exited"
  /\ job' = [job EXCEPT ![j] = IF job[j].stop # "empty" THEN Ended(j, 200, "answer")
                               ELSE Ended(j, 502, "backend")]
  /\ UNCHANGED backend

Collect(j) ==
  /\ job[j].pc = "exited"
  /\ job' = [job EXCEPT ![j] = IF job[j].stop = "text" THEN Ended(j, 200, "answer")
                               ELSE Ended(j, 502, "backend")]
  /\ UNCHANGED backend

\* Faulty variant: the working directory is removed on success only.
KillLeaving(j) ==
  /\ job[j].pc \in {"child", "exited"}
  /\ job' = [job EXCEPT ![j] = [Ended(j, 502, "time") EXCEPT !.dir = TRUE]]
  /\ UNCHANGED backend

\* The child is killed and waited for.  One that has just exited may be gone already: kill
\* then raises what nobody catches.
Kill(j) ==
  /\ job[j].pc \in {"child", "exited"}
  /\ \E status \in {502} \cup IF job[j].pc = "exited" THEN {500} ELSE {} :
       job' = [job EXCEPT ![j] = Ended(j, status, "time")]
  /\ UNCHANGED backend

-----------------------------------------------------------------------------
(***************************************************************************)
(* anthropic                                                               *)
(***************************************************************************)
OpenTools(j) ==
  /\ job[j].pc = "tools"
  /\ job' = [job EXCEPT ![j].pc = "turn"]
  /\ UNCHANGED backend

\* One message of the runner: it goes on while the model asks for a tool, so many times.
ApiAnswers(j, stop) ==
  /\ job[j].pc = "turn" /\ stop \in {"text", "empty", "refusal", "tool_use"}
  /\ stop = "tool_use" => job[j].kind = "chat"
  /\ job' = [job EXCEPT ![j].calls = @ + 1, ![j].stop = stop,
                        ![j].pc = IF stop = "tool_use" /\ job[j].calls + 1 < MaxTurns
                                  THEN "turn" ELSE "closing"]
  /\ UNCHANGED backend

Booked(j, status, cause) == [Ended(j, status, cause) EXCEPT !.booked = job[j].calls]

\* Faulty variant: the error does not carry what was used by then.
ApiFailsUnbooked(j, status) ==
  /\ job[j].pc = "turn" /\ status \in {502, 503}
  /\ job' = [job EXCEPT ![j] = Ended(j, status, "backend")]
  /\ UNCHANGED backend

\* An error of the API, bare or in a group of the tool session's, or no message at all.
ApiFails(j, status) ==
  /\ job[j].pc = "turn" /\ status \in {502, 503}
  /\ job' = [job EXCEPT ![j] = Booked(j, status, "backend")]
  /\ UNCHANGED backend

\* Any other exception, on the way in, between two messages or on the way out.
ToolsFail(j) ==
  /\ job[j].pc \in {"tools", "turn", "closing"} /\ job[j].kind = "chat"
  /\ job' = [job EXCEPT ![j] = Ended(j, 502, "tools")]
  /\ UNCHANGED backend

TimeUp(j) ==
  /\ job[j].pc \in {"tools", "turn", "closing"}
  /\ job' = [job EXCEPT ![j] = Ended(j, 502, "time")]
  /\ UNCHANGED backend

\* Faulty variant: what the model said when its tool calls ran out is an answer.
FallsShortLax(kind, stop) == stop = "empty" \/ (stop = "refusal" /\ kind = "text")

\* A chat tells a refusal in a fixed sentence, a text fails.
FallsShort(kind, stop) == stop \in {"empty", "tool_use"} \/ (stop = "refusal" /\ kind = "text")

Reply(j) ==
  /\ job[j].pc = "closing"
  /\ job' = [job EXCEPT ![j] =
       IF FallsShort(job[j].kind, job[j].stop) THEN Booked(j, 502, "backend")
       ELSE [Booked(j, 200, "answer") EXCEPT !.counted = job[j].kind = "chat"]]
  /\ UNCHANGED backend

\* The ledger cannot be written: neither cost nor answer.
LedgerFails(j) ==
  /\ job[j].pc \in {"turn", "closing"} /\ job[j].calls > 0
  /\ job' = [job EXCEPT ![j] = Ended(j, 500, "ledger")]
  /\ UNCHANGED backend

-----------------------------------------------------------------------------
BackendsInit == backend \in {"codex", "anthropic"} /\ job = [j \in Jobs |-> NoJob]

BackendsNext ==
  \E j \in Jobs :
    \/ \E kind \in {"chat", "text"} : Admit(j, kind) \/ \E s \in Refusals(kind) : Refused(j, kind, s)
    \/ Enter(j) \/ Spawn(j) \/ Collect(j) \/ Kill(j)
    \/ \E stop \in Stops : ChildExits(j, stop) \/ ApiAnswers(j, stop)
    \/ OpenTools(j) \/ ToolsFail(j) \/ TimeUp(j) \/ Reply(j) \/ LedgerFails(j)
    \/ \E status \in {502, 503} : ApiFails(j, status)

BackendsSpec == BackendsInit /\ [][BackendsNext]_backendVars

-----------------------------------------------------------------------------
BackendsTypeOK == backend \in {"codex", "anthropic"} /\ job \in [Jobs -> JobState]

\* ledger.py: every request of the model has a row.  Whatever ends a job, the calls it was
\* charged are booked, but when time was up, the tool server failed or the ledger did.
ChargesAreBooked ==
  \A j \in Jobs : job[j].pc = "done" =>
    job[j].booked = IF job[j].cause \in {"tools", "time", "ledger"} THEN 0 ELSE job[j].calls

\* An answer is the end of a turn, or a chat the model refused, or what a child said that
\* ended well; and nothing else costs a question.
AnswersAreEnds ==
  \A j \in Jobs : job[j].pc = "done" =>
    /\ job[j].status = 200 =>
         job[j].stop = "text"
           \/ (backend = "anthropic" /\ job[j].kind = "chat" /\ job[j].stop = "refusal")
    /\ job[j].counted <=>
         (backend = "anthropic" /\ job[j].kind = "chat" /\ job[j].status = 200)

\* No more children or tool sessions than slots, and a job that has ended leaves no
\* directory behind.
SlotsAreKept ==
  /\ Cardinality({j \in Jobs : \/ job[j].pc \in {"child", "exited", "tools"}
                               \/ (job[j].kind = "chat" /\ job[j].pc \in {"turn", "closing"})})
       <= Slots
  /\ \A j \in Jobs : job[j].dir => job[j].pc \in {"workdir", "child", "exited"}

\* Whatever ends a request of the language model: its charges are booked, its answer is
\* one, and nothing it held is left.
BackendsAreSound == BackendsTypeOK /\ ChargesAreBooked /\ AnswersAreEnds /\ SlotsAreKept

=============================================================================
