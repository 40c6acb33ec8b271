--------------------------- MODULE ProposalLedger ---------------------------
(***************************************************************************)
(* What ADR-016 promises of a proposal, with no requests, sessions or      *)
(* locks: it is filed once, it is resolved at most once, its operation     *)
(* runs exactly when it is confirmed, and a resolution is final.           *)
(***************************************************************************)
EXTENDS Naturals

CONSTANT Proposals

VARIABLES
  status,      \* status[p]: where the proposal stands; "absent" before it is filed
  executed     \* executed[p]: how many times its operation has been carried out

vars == <<status, executed>>

Resolutions == {"CONFIRMED", "REJECTED", "EXPIRED"}
ProposalStatus == {"absent", "PENDING"} \cup Resolutions

Init ==
  /\ status = [p \in Proposals |-> "absent"]
  /\ executed = [p \in Proposals |-> 0]

File(p) ==
  /\ status[p] = "absent"
  /\ status' = [status EXCEPT ![p] = "PENDING"]
  /\ UNCHANGED executed

Confirm(p) ==
  /\ status[p] = "PENDING"
  /\ status' = [status EXCEPT ![p] = "CONFIRMED"]
  /\ executed' = [executed EXCEPT ![p] = @ + 1]

Reject(p) ==
  /\ status[p] = "PENDING"
  /\ status' = [status EXCEPT ![p] = "REJECTED"]
  /\ UNCHANGED executed

\* One sweep lapses a whole batch in one transaction; a confirm lapses one.
Lapse(batch) ==
  /\ \A p \in batch : status[p] = "PENDING"
  /\ status' = [p \in Proposals |-> IF p \in batch THEN "EXPIRED" ELSE status[p]]
  /\ UNCHANGED executed

Next ==
  \/ \E p \in Proposals : File(p) \/ Confirm(p) \/ Reject(p)
  \/ \E batch \in SUBSET Proposals : Lapse(batch)

Spec == Init /\ [][Next]_vars

=============================================================================
