-------------------------- MODULE WorkOrderStatus --------------------------
(***************************************************************************)
(* The canonical work-order state machine shared by every module: the      *)
(* table ALLOWED_TRANSITIONS and what the service operations derive from   *)
(* it.                                                                     *)
(***************************************************************************)

Status == {"OPEN", "IN_PROGRESS", "ON_HOLD", "COMPLETED",
           "CLOSED", "CANCELLED", "VOIDED"}

Allowed ==
  [s \in Status |->
     CASE s = "OPEN"        -> {"IN_PROGRESS", "CANCELLED", "VOIDED"}
       [] s = "IN_PROGRESS" -> {"ON_HOLD", "COMPLETED", "VOIDED"}
       [] s = "ON_HOLD"     -> {"IN_PROGRESS", "COMPLETED", "VOIDED"}
       [] s = "COMPLETED"   -> {"CLOSED", "IN_PROGRESS"}
       [] OTHER             -> {}]

Terminal == {"CLOSED", "CANCELLED", "VOIDED"}

=============================================================================
