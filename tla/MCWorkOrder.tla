---------------------------- MODULE MCWorkOrder ----------------------------
(***************************************************************************)
(* WorkOrder for TLC.  A behaviour is of one of two kinds: requests take   *)
(* turns, of all accounts and with every edit, or two of an admin overlap, *)
(* transitions only, and the clock ticks under them.                       *)
(***************************************************************************)
EXTENDS WorkOrder, TLC

CONSTANTS r1, r2, w1, h1, h2, adm, eng, opr, d1

\* What starts where requests overlap: an admin's transitions, for one hold reason.
StartOverlapping ==
  \/ \E r \in Requests, w \in WorkOrders, kind \in Kinds : LoadTransition(r, w, kind, adm, h1, None)
  \/ \E w \in WorkOrders, type \in {"REACTIVE", "PM"} : OpenWorkOrder(w, type, adm)
  \/ \E r \in Requests, w \in WorkOrders, to \in Status : ConfirmedTransition(r, w, to)
  \/ UpdateHoldReason(h1)
  \/ clock = 0 /\ Tick

MCInit == Init /\ (~turns => h2 \notin holdDown)

MCNext ==
  /\ \/ \E r \in Requests : Commit(r)
     \/ turns /\ Quiet /\ Start
     \/ ~turns /\ StartOverlapping
  /\ UNCHANGED turns

RequestSymmetry == Permutations(Requests)

MCSpec == MCInit /\ [][MCNext]_vars

=============================================================================
