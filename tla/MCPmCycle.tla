----------------------------- MODULE MCPmCycle -----------------------------
(***************************************************************************)
(* PmCycle for TLC.  MCFairSpec has the daily scheduler and the closes     *)
(* (r1), and a person (r2) who asks for work orders meanwhile: the two     *)
(* race for numbers and for the schedules' soft links.                     *)
(***************************************************************************)
EXTENDS PmCycle, TLC

CONSTANTS r1, r2

NoneHeldBack == \A p \in Pms : inUse[p] /\ ~pm[p].suppressed

\* r2 only asks for work orders, and no schedule is held back when it does or meanwhile.
MCNext ==
  \/ \E r \in Requests : Generate(r)
  \/ \E p \in Pms : OnDemand(r1, p) \/ (NoneHeldBack /\ OnDemand(r2, p))
  \/ SweepSelect(r1)
  \/ Close(r1)
  \/ \E n \in DOMAIN order :
       CloseLoad(r1, n) \/ ConfirmedClose(n) \/ \E to \in Status : Move(n, to)
  \/ \E p \in Pms, interval \in Intervals, due \in Dues : UpdatePmSchedule(p, interval, due)
  \/ req[r2] = Idle /\ \E p \in Pms : SetSuppressed(p) \/ SetAssetActive(p)
  \/ NextDay

MCFairSpec == Init /\ [][MCNext]_vars /\ Fairness(r1) /\ WF_vars(Generate(r2))
=============================================================================
