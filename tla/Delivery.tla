------------------------------ MODULE Delivery ------------------------------
(***************************************************************************)
(* What an outbox table promises, with no rows, batches, sessions or       *)
(* channels: a message leaves only once it is queued, and it is recorded   *)
(* as sent only once it has left.  It may leave more than once: delivery   *)
(* is at least once.                                                       *)
(***************************************************************************)
EXTENDS Naturals

CONSTANT Messages

VARIABLES
  state,    \* state[m]: "new" until queued, then what is recorded of it
  copies    \* copies[m]: how many times it has left

vars == <<state, copies>>

Recorded == {"queued", "sent", "failed"}

Init ==
  /\ state = [m \in Messages |-> "new"]
  /\ copies = [m \in Messages |-> 0]

\* One transaction may queue several messages.
Queue(ms) ==
  /\ \A m \in ms : state[m] = "new"
  /\ state' = [m \in Messages |-> IF m \in ms THEN "queued" ELSE state[m]]
  /\ UNCHANGED copies

Leave(m) ==
  /\ state[m] # "new"
  /\ copies' = [copies EXCEPT ![m] = @ + 1]
  /\ UNCHANGED state

RecordSent(m) ==
  /\ state[m] # "new"
  /\ copies[m] > 0
  /\ state' = [state EXCEPT ![m] = "sent"]
  /\ UNCHANGED copies

RecordFailed(m) ==
  /\ state[m] # "new"
  /\ state' = [state EXCEPT ![m] = "failed"]
  /\ UNCHANGED copies

Next ==
  \/ \E ms \in SUBSET Messages : Queue(ms)
  \/ \E m \in Messages : Leave(m) \/ RecordSent(m) \/ RecordFailed(m)

Spec == Init /\ [][Next]_vars

=============================================================================
