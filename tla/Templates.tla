----------------------------- MODULE Templates -----------------------------
(***************************************************************************)
(* The template of a maintenance task: its steps and the parts each step   *)
(* uses, which planners edit and the loader may load again.  Both are      *)
(* deleted by a mark, so that a row that is there may be a deleted one.    *)
(* Descriptions and quantities are left out.                               *)
(***************************************************************************)
EXTENDS Integers, Sequences, FiniteSets, FiniteSetsExt

CONSTANTS
  StepFile,   \* the file: one set of parts for each row, which is a step
  Spares,     \* parts
  Desks,      \* requests that may be under way at once
  MaxSteps    \* bound

ASSUME TemplateAssumption == StepFile \in Seq(SUBSET Spares) /\ MaxSteps \in Nat

VARIABLES
  step,    \* the steps: place in the order, live or deleted, row of the file or 0
  uses,    \* by step and part: the state of its row
  stocked, \* the parts the item master knows
  desk,    \* requests under way
  taken,   \* ghost: the parts whose removal was the last that was answered
  hung,    \* ghost: the parts whose addition was
  shared   \* ghost: the steps two requests changed at once

templateVars == <<step, uses, stocked, desk, taken, hung, shared>>

IsFree == [op |-> "idle", step |-> 0]
Lines == (1..MaxSteps) \X Spares
RowState == {"none", "live", "deleted"}

DeskState ==
  {IsFree} \cup [op : {"step"}, step : {0}, place : Nat]
    \cup [op : {"drop"}, step : 1..MaxSteps]
    \cup [op : {"take"}, step : 1..MaxSteps, part : Spares]
    \cup [op : {"hang"}, step : 1..MaxSteps, part : Spares, seen : RowState]

\* A request about a step begins while another is under way about it.
Begins(d, request) ==
  /\ desk[d] = IsFree
  /\ desk' = [desk EXCEPT ![d] = request]
  /\ shared' = IF \E e \in Desks : desk[e] # IsFree /\ desk[e].step = request.step THEN shared \cup {request.step}
               ELSE shared

Ends(d) == desk' = [desk EXCEPT ![d] = IsFree]

\* _get_live_step
LiveStep(n) == n \in DOMAIN step /\ step[n].live

-----------------------------------------------------------------------------
(***************************************************************************)
(* Steps.                                                                  *)
(***************************************************************************)
\* Faulty variant: the last place of those that are live.
PlaceAmongLive == 10 + Max({0} \cup {step[n].place : n \in {m \in DOMAIN step : step[m].live}})

\* The last place of all steps, deleted ones too, and ten more.
NextPlace == 10 + Max({0} \cup {step[n].place : n \in DOMAIN step})

AddTaskStep(d) ==
  /\ Begins(d, [op |-> "step", step |-> 0, place |-> NextPlace])
  /\ UNCHANGED <<step, uses, stocked, taken, hung>>

CommitStep(d) ==
  /\ desk[d].op = "step" /\ Len(step) < MaxSteps
  /\ step' = Append(step, [place |-> desk[d].place, live |-> TRUE, row |-> 0])
  /\ Ends(d)
  /\ UNCHANGED <<uses, stocked, taken, hung, shared>>

DeleteTaskStep(d, n) ==
  /\ LiveStep(n)
  /\ Begins(d, [op |-> "drop", step |-> n])
  /\ UNCHANGED <<step, uses, stocked, taken, hung>>

\* Faulty variant: the parts of the step are left as they are.
DroppedNone(n) == {}

\* The UPDATE marks the rows that are committed and live.
Dropped(n) == {s \in Lines : s[1] = n /\ uses[s] = "live"}

CommitDrop(d) ==
  LET n == desk[d].step
      gone == Dropped(n)
  IN  /\ desk[d].op = "drop"
      /\ step' = [step EXCEPT ![n].live = FALSE]
      /\ uses' = [s \in Lines |-> IF s \in gone THEN "deleted" ELSE uses[s]]
      /\ taken' = taken \cup {s \in Lines : s[1] = n /\ uses[s] # "none"}
      /\ hung' = {s \in hung : s[1] # n}
      /\ Ends(d)
      /\ UNCHANGED <<stocked, shared>>

-----------------------------------------------------------------------------
(***************************************************************************)
(* Parts of a step.                                                        *)
(***************************************************************************)
AddTaskPart(d, n, i) ==
  /\ LiveStep(n) /\ i \in stocked
  /\ Begins(d, [op |-> "hang", step |-> n, part |-> i, seen |-> uses[<<n, i>>]])
  /\ UNCHANGED <<step, uses, stocked, taken, hung>>

\* A row that is there is revived; one that is not is inserted, and a second INSERT fails.
CommitHang(d) ==
  LET s == <<desk[d].step, desk[d].part>>
      fails == desk[d].seen = "none" /\ uses[s] # "none"
  IN  /\ desk[d].op = "hang"
      /\ uses' = IF fails \/ desk[d].seen = "live" THEN uses ELSE [uses EXCEPT ![s] = "live"]
      /\ taken' = IF fails THEN taken ELSE taken \ {s}
      /\ hung' = IF fails THEN hung ELSE hung \cup {s}
      /\ Ends(d)
      /\ UNCHANGED <<step, stocked, shared>>

RemoveTaskPart(d, n, i) ==
  /\ LiveStep(n)
  /\ Begins(d, [op |-> "take", step |-> n, part |-> i])
  /\ UNCHANGED <<step, uses, stocked, taken, hung>>

CommitTake(d) ==
  LET s == <<desk[d].step, desk[d].part>>
  IN  /\ desk[d].op = "take"
      /\ uses' = IF uses[s] = "live" THEN [uses EXCEPT ![s] = "deleted"] ELSE uses
      /\ taken' = IF uses[s] = "none" THEN taken ELSE taken \cup {s}
      /\ hung' = hung \ {s}
      /\ Ends(d)
      /\ UNCHANGED <<step, stocked, shared>>

-----------------------------------------------------------------------------
(***************************************************************************)
(* The loader of steps, and the item master.                               *)
(***************************************************************************)
\* Faulty variant: a row that is there is made live.
LoadedAnew(state) == "live"

\* ON CONFLICT changes the quantity alone.
Loaded(state) == IF state = "none" THEN "live" ELSE state

\* Each row of the file by its key: the step unless it is there, and the parts that are known.
LoadSteps ==
  LET missing == {r \in DOMAIN StepFile : \A n \in DOMAIN step : step[n].row # r}
  IN  \E new \in [1..Cardinality(missing) -> missing] :
        LET steps == step \o [x \in DOMAIN new |-> [place |-> 10 * new[x], live |-> TRUE, row |-> new[x]]]
            of(n) == IF n \in DOMAIN steps /\ steps[n].row # 0 THEN StepFile[steps[n].row] \cap stocked ELSE {}
        IN  /\ \A x, y \in DOMAIN new : x < y => new[x] < new[y]   \* in the order of the file
            /\ Len(steps) <= MaxSteps
            /\ step' = steps
            /\ uses' = [s \in Lines |-> IF s[2] \in of(s[1]) THEN Loaded(uses[s]) ELSE uses[s]]
            /\ shared' = IF \E d \in Desks : desk[d].op = "step" THEN shared \cup {0} ELSE shared
            /\ UNCHANGED <<stocked, desk, taken, hung>>

AddItem(i) ==
  /\ stocked' = stocked \cup {i}
  /\ UNCHANGED <<step, uses, desk, taken, hung, shared>>

-----------------------------------------------------------------------------
TemplateInit ==
  /\ step = <<>> /\ uses = [s \in Lines |-> "none"]
  /\ stocked \in SUBSET Spares
  /\ desk = [d \in Desks |-> IsFree]
  /\ taken = {} /\ hung = {} /\ shared = {}

TemplateNext ==
  \/ \E d \in Desks :
       \/ AddTaskStep(d) \/ CommitStep(d) \/ CommitDrop(d) \/ CommitHang(d) \/ CommitTake(d)
       \/ \E n \in 1..MaxSteps : \/ DeleteTaskStep(d, n)
                                 \/ \E i \in Spares : AddTaskPart(d, n, i) \/ RemoveTaskPart(d, n, i)
  \/ LoadSteps
  \/ \E i \in Spares : AddItem(i)

TemplateSpec == TemplateInit /\ [][TemplateNext]_templateVars

-----------------------------------------------------------------------------
TemplateTypeOK ==
  /\ \A n \in DOMAIN step : step[n] \in [place : Nat, live : BOOLEAN, row : 0..Len(StepFile)]
  /\ uses \in [Lines -> RowState]
  /\ stocked \subseteq Spares
  /\ desk \in [Desks -> DeskState]
  /\ taken \cup hung \subseteq Lines /\ shared \subseteq 0..MaxSteps

\* A part that was removed, alone or with its step, does not come back with a load of the
\* file, and one that was added stays, unless two requests changed the step at once; a step
\* that a planner adds goes after those that are there.
TemplatesAreKept ==
  /\ \A s \in Lines : s[1] \notin shared =>
       /\ s \in taken => uses[s] # "live"
       /\ s \in hung => uses[s] = "live"
  /\ 0 \notin shared =>
       \A n \in DOMAIN step : step[n].row = 0 => \A m \in 1..(n - 1) : step[m].place < step[n].place

TemplatesAreSound == TemplateTypeOK /\ TemplatesAreKept

=============================================================================
