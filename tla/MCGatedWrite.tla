---------------------------- MODULE MCGatedWrite ----------------------------
(***************************************************************************)
(* GatedWrite for TLC.  Each run files one family of operations, so that   *)
(* the rows the other families rest on stay out of its state space.        *)
(***************************************************************************)
EXTENDS GatedWrite, TLC

CONSTANTS r1, r2, p1, p2, h1, w1, a1, x1, b1, s1, c1, k1

\* Close, with and without a reason code, and void, of one work order.
TransitionIntents ==
  {[op |-> "close_work_order", wo |-> w1, code |-> c] : c \in Codes \cup {None}}
    \cup {[op |-> "void_work_order", wo |-> w1]}

VoidAndClose ==
  {[op |-> "close_work_order", wo |-> w1, code |-> None],
   [op |-> "void_work_order", wo |-> w1]}

\* Open a REACTIVE and a PM work order on one asset.
OpeningIntents ==
  {[op |-> "open_work_order", asset |-> a1, type |-> t] : t \in {"REACTIVE", "PM"}}

\* Open, or edit one item: its supplier, with or without a new bin.
OpeningAndEditingIntents ==
  OpeningIntents \cup
  {[op |-> "update_item", item |-> x1, bin |-> b, supplier |-> s1] : b \in {b1, None}}

\* A void and an edit: the operations whose duplicates propose guards against.
SerialIntents ==
  VoidAndClose \cup {[op |-> "update_item", item |-> x1, bin |-> b1, supplier |-> s1]}

RequestSymmetry == Permutations(Requests)
ProposalSymmetry == Permutations(Proposals)
=============================================================================
