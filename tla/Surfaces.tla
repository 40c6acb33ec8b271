------------------------------ MODULE Surfaces ------------------------------
(***************************************************************************)
(* The web pages, agent tools, commands and endpoints through which the    *)
(* services are called.  A handler is data: whom its own guard lets in,    *)
(* and the calls of services it makes in turn, each a transaction of its   *)
(* own, with the exceptions it catches there and what it then answers.     *)
(* One request is under way while admins change the role of who sent it.   *)
(***************************************************************************)
EXTENDS Naturals, Sequences, FiniteSets

VARIABLES
  standing,   \* the visitor's account: a role, "gone" when inactive, "none" when there is no such account
  deployed,   \* is it production, and is the token of the read API configured
  visit       \* the request under way

surfaceVars == <<standing, deployed, visit>>

Roles == {"admin", "engineer", "operator"}
Standings == Roles \union {"gone", "none"}

-----------------------------------------------------------------------------
(***************************************************************************)
(* What the services do, as far as a handler can tell: whom they let       *)
(* through, which exceptions they raise, and what they queue.              *)
(***************************************************************************)

TaskOps == {"create_task", "update_task_description", "set_task_active", "add_task_step",
            "update_task_step", "delete_task_step", "add_task_part", "remove_task_part"}
ScheduleOps == {"create_pm_schedule", "update_pm_schedule", "set_suppressed"}
AccountOps == {"deactivate_user", "reactivate_user", "set_role", "reset_password"}
ContactOps == {"create_organization", "set_organization_active", "update_organization",
               "create_person", "update_person"}
RecipientOps == {"create_recipient", "update_recipient", "set_recipient_active"}
AssetOps == {"create_asset", "set_asset_active", "set_available_for_service", "update_asset",
             "set_owner_bulk"}
LinkOps == {"link_containment", "link_shared_dependency", "unlink_relationship"}
PartOps == {"issue_part_to_work_order", "update_part_issue_quantity", "cancel_part_issue"}
DirectOps == {"issue_to_asset", "update_asset_issue_quantity", "cancel_asset_issue"}
HoldReasonOps == {"add_hold_reason", "update_hold_reason"}
BinOps == {"add_storage_bin", "set_storage_bin_active"}

\* assert_active_admin.
AdminOps == AccountOps \union ContactOps \union RecipientOps \union AssetOps \union HoldReasonOps
              \union BinOps \union {"create_item", "set_applicable_subtypes", "void_work_order",
                                    "confirm", "mark_resolved"}

\* _assert_not_operator.
StaffOps == PartOps \union DirectOps
              \union {"transition", "add_note", "set_assignees", "update_brief_description", "set_confirmed_reason",
                      "update_note", "delete_note", "record_external_link", "remove_external_link",
                      "propose", "generate_pm_work_order"}

\* An operator opens reports only, adds what was seen and cancels while one's own is open.
OwnOps == {"open_report", "open_work_order", "add_report_note", "cancel_reactive_report"}

\* Governed by the guard of the page alone.
PageOps == TaskOps \union ScheduleOps \union LinkOps
             \union {"update_item", "adjust_on_hand", "create_rfq", "set_assignee_of", "create_user",
                     "reject", "soft_delete_attachment", "restore_attachment", "admin_revoke"}

SelfOps == {"authenticate", "logout", "change_password", "set_locale", "set_own_assignee",
            "store_credential", "revoke_credential", "create_link_code", "unlink", "create_feedback"}

\* The exceptions of each service.  The rest are of the store, the object store and the
\* network: any operation may end in one.
Raising == [
  WorkOrderError |-> (StaffOps \ DirectOps) \union OwnOps \union HoldReasonOps
                       \union {"void_work_order", "confirm", "reject", "report_onbox", "cancel_onbox"},
  InventoryError |-> DirectOps \union BinOps
                       \union {"create_item", "set_applicable_subtypes", "update_item", "adjust_on_hand", "confirm"},
  ArithmeticError |-> {"create_item", "update_item", "adjust_on_hand", "add_task_part",
                       "update_asset_issue_quantity", "issue_to_asset"},
  ValueError |-> {"create_item", "update_item", "create_pm_schedule", "update_pm_schedule"},
  AssetError |-> AssetOps \union LinkOps,
  ContactsError |-> ContactOps,
  AttachmentError |-> {"add_attachment", "soft_delete_attachment", "restore_attachment"},
  TaskError |-> TaskOps,
  PmScheduleError |-> ScheduleOps,
  NotifyError |-> RecipientOps,
  FeedbackError |-> {"create_feedback", "mark_resolved"},
  ProcurementError |-> {"create_rfq"},
  IdentityError |-> AccountOps \union {"create_user", "change_password", "set_assignee_of", "mint", "revoke_tokens"},
  AuthenticationError |-> {"authenticate", "change_password"},
  VaultError |-> {"store_credential"},
  TelegramBridgeError |-> {"create_link_code"},
  OnboxVerificationError |-> {"report_onbox", "cancel_onbox"},
  JiraSyncError |-> {"forward"}]

Refusals(op) == {e \in DOMAIN Raising : op \in Raising[e]}

\* An except clause also takes the subclasses of what it names.
Covers(caught, e) ==
  \/ e \in caught \/ "Exception" \in caught
  \/ (e \in {"AuthenticationError", "AuthorizationError"} /\ "IdentityError" \in caught)

\* What a committed operation leaves in the outboxes.
Queues(op) ==
  IF op \in {"open_report", "open_work_order", "generate_pm_work_order", "transition", "confirm", "report_onbox"}
  THEN {"notice"} ELSE IF op = "add_note" THEN {"comment"} ELSE {}

\* As the gates see who acts; only a human with an active account can be an operator.
Passes(op, who) ==
  /\ op \in AdminOps => who = "admin"
  /\ op \in StaffOps => who # "operator"

\* Whether it is a report, one's own and still open is not known here.
MayBeDenied(op, who) ==
  ~Passes(op, who) \/ (op \in OwnOps \ {"open_report"} /\ who = "operator")

-----------------------------------------------------------------------------
(***************************************************************************)
(* The forms.                                                              *)
(***************************************************************************)

\* A call, what is caught around it, and the answer then: "refused" with a message, "quiet"
\* without one, "partly" when what was kept before is shown with a message.
Do(op, caught, told) == [op |-> op, may |-> FALSE, caught |-> caught, told |-> told, wakes |-> {}]
Try(op, caught) == Do(op, caught, "refused")
Optional(s) == [s EXCEPT !.may = TRUE]
Waking(kind, s) == [s EXCEPT !.wakes = {kind}]

Page(who, steps) == [by |-> "web", who |-> who, as |-> "visitor", steps |-> steps]
Tool(as, steps) == [by |-> "mcp", who |-> Roles, as |-> as, steps |-> steps]
Command(as, steps) == [by |-> "cli", who |-> Standings, as |-> as, steps |-> steps]
Post(steps) == [by |-> "box", who |-> Standings, as |-> "agent", steps |-> steps]

Staff == {"admin", "engineer"}
OrderErrors == {"WorkOrderError", "AuthorizationError"}
NumberErrors == {"ArithmeticError", "ValueError"}
ItemErrors == {"InventoryError", "AuthorizationError"}

\* The tools let every exception pass; the library answers with its text.
Reported == {"Exception"}

-----------------------------------------------------------------------------
\* The order: report a failure, add to its log, work on it.

ReportSubmit == Page(Roles,
  <<Waking("notice", Try("open_report", {"WorkOrderError"})),
    Optional(Try("add_report_note", {})),
    Optional(Do("add_attachment", {"Exception"}, "partly"))>>)

AddWorkOrderNote == Page(Roles,
  <<Do("add_note", OrderErrors, "quiet"),
    Waking("comment", Optional(Do("add_attachment", {"Exception"}, "partly")))>>)

EditWorkOrderNote == Page(Staff,
  <<Try("update_note", OrderErrors), Optional(Do("add_attachment", {"Exception"}, "partly"))>>)

DeleteWorkOrderNote == Page(Staff, <<Try("delete_note", OrderErrors)>>)

\* Whose the note is, is looked at here; the service does not.
DeleteNotePhoto == Page(Staff, <<Do("soft_delete_own_photo", {}, "refused")>>)

WorkOrderTransition == Page(Staff,
  <<Waking("notice", Try("transition", OrderErrors \union NumberErrors))>>)

WorkOrderAssign == Page(Staff, <<Try("set_assignees", OrderErrors)>>)
WorkOrderEditBrief == Page(Staff, <<Try("update_brief_description", OrderErrors)>>)
WorkOrderSetConfirmedReason == Page(Roles, <<Try("set_confirmed_reason", OrderErrors)>>)

WorkOrderParts ==
  {Page(Staff, <<Try(op, OrderErrors \union NumberErrors)>>) : op \in PartOps}

\* Faulty variant: the refusal of the gate is not caught.
AddLinkUncaught == Page(Roles, <<Try("record_external_link", {"WorkOrderError"})>>)

WorkOrderAddLink == Page(Roles, <<Try("record_external_link", OrderErrors)>>)
WorkOrderRemoveLink == Page(Roles, <<Try("remove_external_link", OrderErrors)>>)
WorkOrderCancel == Page(Roles, <<Try("cancel_reactive_report", OrderErrors)>>)
WorkOrderVoid == Page({"admin"}, <<Try("void_work_order", OrderErrors)>>)
WorkOrderRequestVoid == Page(Staff, <<Try("propose", OrderErrors)>>)
WorkOrderForwardSubmit == Page(Staff, <<Try("forward", {"JiraSyncError", "VaultError"})>>)
\* Faulty variant: the notice waits for the next sweep.
PmGenerateQuietly == Page(Staff, <<Do("generate_pm_work_order", OrderErrors, "quiet")>>)

PmGenerate == Page(Staff, <<Waking("notice", Do("generate_pm_work_order", OrderErrors, "quiet"))>>)

-----------------------------------------------------------------------------
\* The store.

InventoryCreate == Page({"admin"},
  <<Try("create_item", ItemErrors \union NumberErrors),
    Optional(Do("add_attachment", {"AttachmentError"}, "partly")),
    Optional(Do("adjust_on_hand", {"InventoryError"} \union NumberErrors, "partly"))>>)

InventoryAddBin == Page({"admin"}, <<Try("add_storage_bin", ItemErrors)>>)
InventoryRfq == Page({"admin"}, <<Try("create_rfq", {"ProcurementError"})>>)
InventoryUpdate == Page({"admin"}, <<Try("update_item", {"InventoryError"} \union NumberErrors)>>)
InventoryProposeUpdate == Page(Roles, <<Try("propose", {"WorkOrderError"})>>)
\* Faulty variant: the guard is left to the service, which has none.
AdjustUnguarded == Page(Roles, <<Try("adjust_on_hand", {"InventoryError"} \union NumberErrors)>>)

InventoryAdjust == Page({"admin"}, <<Try("adjust_on_hand", {"InventoryError"} \union NumberErrors)>>)
InventorySetSubtypes == Page({"admin"}, <<Try("set_applicable_subtypes", ItemErrors)>>)

-----------------------------------------------------------------------------
\* Equipment and suppliers.

EquipmentCreate == Page({"admin"}, <<Try("create_asset", {"AssetError", "AuthorizationError"})>>)

EquipmentEdit ==
  {Page({"admin"}, <<Try(op, {"AssetError", "AuthorizationError"})>>) :
     op \in {"set_asset_active", "set_available_for_service", "update_asset"}}

EquipmentIssues == {Page(Roles, <<Try(op, ItemErrors \union NumberErrors)>>) : op \in DirectOps}

SupplierCreate ==
  Page({"admin"}, <<Try("create_organization", {"ContactsError", "AuthorizationError"})>>)

SupplierEdit ==
  {Page({"admin"}, <<Try(op, {"ContactsError", "AuthorizationError"})>>) :
     op \in ContactOps \ {"create_organization"}}

-----------------------------------------------------------------------------
\* The account of the visitor.

Login == [Page(Standings, <<Try("authenticate", {"AuthenticationError"})>>) EXCEPT !.as = "agent"]
Logout == [Page(Standings, <<Try("logout", {})>>) EXCEPT !.as = "agent"]
SetLocale == Page(Roles, <<Try("set_locale", {})>>)
SettingsStorePat == Page(Roles, <<Try("store_credential", {"VaultError"})>>)
SettingsTelegram ==
  {Page(Roles, <<Do("create_link_code", {"TelegramBridgeError"}, "quiet")>>), Page(Roles, <<Try("unlink", {})>>)}
SettingsRevokePat == Page(Roles, <<Try("revoke_credential", {})>>)
SettingsChangePassword ==
  Page(Roles, <<Try("change_password", {"AuthenticationError", "IdentityError"})>>)
SettingsSetAssignee == Page(Roles, <<Try("set_own_assignee", {})>>)
HelpFeedback == Page(Roles, <<Try("create_feedback", {"FeedbackError"})>>)

-----------------------------------------------------------------------------
\* The pages of the admins.

AdminPage(op, caught) == Page({"admin"}, <<Try(op, caught)>>)

AdminTasks == {AdminPage(op, {"TaskError"}) : op \in TaskOps \ {"add_task_part"}}
                \union {AdminPage("add_task_part", {"TaskError"} \union NumberErrors)}
AdminSchedules == {AdminPage(op, {"PmScheduleError", "ValueError"}) : op \in ScheduleOps}
AdminConfirmProposal == AdminPage("confirm", OrderErrors \union {"InventoryError"})
AdminRejectProposal == AdminPage("reject", {"WorkOrderError"})
AdminResolveFeedback == AdminPage("mark_resolved", {"FeedbackError", "AuthorizationError"})
AdminAccounts == {AdminPage(op, {"IdentityError"}) :
                    op \in AccountOps \union {"create_user", "set_assignee_of"}}
AdminAttachments == {Page({"admin"}, <<Do(op, {"AttachmentError"}, "quiet")>>) :
                       op \in {"soft_delete_attachment", "restore_attachment"}}
AdminCredentialRevoke == AdminPage("admin_revoke", {})
AdminHoldReasons == {AdminPage(op, OrderErrors) : op \in HoldReasonOps}
AdminBins == {AdminPage(op, ItemErrors) : op \in BinOps}
AdminRelationships == {AdminPage(op, {"AssetError"}) : op \in LinkOps}
AdminOwners == AdminPage("set_owner_bulk", {"AssetError", "AuthorizationError"})
AdminNotify == {AdminPage(op, {"NotifyError", "AuthorizationError"}) : op \in RecipientOps}

-----------------------------------------------------------------------------
\* The tools of the agents, who act for the owner of the token or in their own name, and the
\* commands, which take the name of who acts as it is given.

GeneratePmTool == Tool("visitor", <<Try("generate_pm_work_order", Reported)>>)
ProposeTools == Tool("agent", <<Try("propose", Reported)>>)
ProposeUpdateItemTool == Tool("visitor", <<Try("propose", Reported)>>)
ConfirmTool == Tool("visitor", <<Try("confirm", Reported)>>)
RejectTool == Tool("visitor", <<Try("reject", Reported)>>)
RecordLinkTool == Tool("agent", <<Try("record_external_link", Reported)>>)
ForwardTool == Tool("agent", <<Try("forward", Reported)>>)

UserCreate == Command("none", <<Try("create_user", Reported)>>)
UserSetAssignee == Command("none", <<Try("set_assignee_of", Reported)>>)
WoOpen == Command("visitor", <<Try("open_work_order", Reported)>>)
WoTransition == {Command("visitor", <<Try(op, Reported)>>) :
                   op \in {"transition", "void_work_order", "cancel_reactive_report"}}
WoIssuePart == Command("visitor", <<Try("issue_part_to_work_order", Reported)>>)
IssueToAsset == Command("visitor", <<Try("issue_to_asset", Reported)>>)
CredCommands == {Command("visitor", <<Try(op, Reported)>>) : op \in {"store_credential", "revoke_credential"}}
TokenCommands == {Command("none", <<Try(op, Reported)>>) : op \in {"mint", "revoke_tokens"}}
MigrationCommands == {Command("none", <<Try(op, Reported)>>) : op \in {"backfill_legacy_mrq_links", "autolink_suppliers"}}

\* The equipment, and the readers of the API.
OnboxOpenReactive == Post(<<Try("report_onbox", {"OnboxVerificationError", "WorkOrderError"})>>)
OnboxCancel == Post(<<Try("cancel_onbox", {"OnboxVerificationError", "WorkOrderError"})>>)
ReadApi == [by |-> "api", who |-> Standings, as |-> "agent", steps |-> <<>>]

Forms ==
  {ReportSubmit, AddWorkOrderNote, EditWorkOrderNote, DeleteWorkOrderNote, DeleteNotePhoto,
   WorkOrderTransition, WorkOrderAssign, WorkOrderEditBrief, WorkOrderSetConfirmedReason,
   WorkOrderAddLink, WorkOrderRemoveLink, WorkOrderCancel, WorkOrderVoid, WorkOrderRequestVoid,
   WorkOrderForwardSubmit, PmGenerate, InventoryCreate, InventoryAddBin, InventoryRfq,
   InventoryUpdate, InventoryProposeUpdate, InventoryAdjust, InventorySetSubtypes, EquipmentCreate,
   SupplierCreate, Login, Logout, SetLocale, SettingsStorePat, SettingsRevokePat,
   SettingsChangePassword, SettingsSetAssignee, HelpFeedback, AdminConfirmProposal,
   AdminRejectProposal, AdminResolveFeedback, AdminCredentialRevoke, AdminOwners, GeneratePmTool,
   ProposeTools, ProposeUpdateItemTool, ConfirmTool, RejectTool, RecordLinkTool, ForwardTool,
   UserCreate, UserSetAssignee, WoOpen, WoIssuePart, IssueToAsset, OnboxOpenReactive, OnboxCancel,
   ReadApi}
  \union WorkOrderParts \union EquipmentEdit \union EquipmentIssues \union SupplierEdit
  \union SettingsTelegram \union AdminTasks \union AdminSchedules \union AdminAccounts
  \union AdminAttachments \union AdminHoldReasons \union AdminBins \union AdminRelationships
  \union AdminNotify \union WoTransition \union CredCommands \union TokenCommands
  \union MigrationCommands

-----------------------------------------------------------------------------
(***************************************************************************)
(* A request.                                                              *)
(***************************************************************************)
NoVisit == [by |-> "nobody"]
Answers == {"awaited", "turned", "refused", "quiet", "partly", "done", "error"}

SurfaceTypeOK ==
  /\ standing \in Standings
  /\ deployed \in [production : BOOLEAN, token : BOOLEAN]
  /\ \/ visit = NoVisit
     \/ /\ visit.form \in Forms
        /\ visit.seen \in Standings \union {"agent", "unread"}
        /\ visit.kept \subseteq 1 .. visit.at
        /\ visit.told \in Answers

SurfaceInit ==
  /\ standing \in Roles
  /\ deployed \in [production : BOOLEAN, token : BOOLEAN]
  /\ visit = NoVisit

\* The account as a page sees it.  get_current_user loads the row, and the services find it in
\* the session of the request; the session of a tool or a command is opened for the call, and
\* its first gate loads the row.
FirstSeen(form) ==
  CASE form.as # "visitor" -> form.as
    [] form.as = "visitor" /\ form.by = "web" -> standing
    [] form.as = "visitor" /\ form.by # "web" -> "unread"

Reads(who) == IF who = "unread" THEN standing ELSE who

\* The guard of the surface, then that of the page.  The read API has its own token; without
\* one configured it is closed in production and open elsewhere.
Admitted(form, bearer) ==
  IF form.by = "api"
  THEN IF deployed.token THEN bearer ELSE ~deployed.production
  ELSE standing \in form.who

Admit(form, bearer) ==
  /\ visit = NoVisit
  /\ visit' = [by |-> form.by, form |-> form, bearer |-> bearer, seen |-> FirstSeen(form),
               at |-> 1, kept |-> {}, woken |-> {}, why |-> "none",
               told |-> IF Admitted(form, bearer) THEN "awaited" ELSE "turned"]
  /\ UNCHANGED <<standing, deployed>>

Running == visit # NoVisit /\ visit.told = "awaited" /\ visit.at <= Len(visit.form.steps)
Step == visit.form.steps[visit.at]

\* A gate loads the account, which is then known for the rest of the request.
Seen == IF Step.op \in AdminOps \union StaffOps \union OwnOps THEN Reads(visit.seen) ELSE visit.seen

\* The transaction of a call commits, or the form did not ask for it.
Made ==
  /\ Running
  /\ Passes(Step.op, Seen)
  /\ visit' = [visit EXCEPT !.seen = Seen, !.at = @ + 1, !.kept = @ \union {visit.at},
                            !.woken = @ \union Step.wakes]
  /\ UNCHANGED <<standing, deployed>>

Skip ==
  /\ Running
  /\ Step.may
  /\ visit' = [visit EXCEPT !.at = @ + 1, !.woken = @ \union Step.wakes]
  /\ UNCHANGED <<standing, deployed>>

\* A call ends in an exception: of the gate, of the service, or of what is below it.  What is
\* not caught becomes an error of the server, whose response has no background tasks.  Several
\* photographs are several transactions, and those before the exception stay.
Raise(e) ==
  /\ Running
  /\ \/ e = "AuthorizationError" /\ MayBeDenied(Step.op, Seen)
     \/ e \in Refusals(Step.op) /\ Passes(Step.op, Seen)
     \/ e = "Fault"
  /\ \E some \in SUBSET {i \in {visit.at} : Step.op = "add_attachment"} :
       visit' = [visit EXCEPT
                   !.seen = Seen, !.kept = @ \union some, !.why = e,
                   !.told = IF Covers(Step.caught, e) THEN Step.told ELSE "error",
                   !.woken = IF Covers(Step.caught, e) THEN @ ELSE {}]
  /\ UNCHANGED <<standing, deployed>>

Finish ==
  /\ visit # NoVisit /\ visit.told = "awaited" /\ visit.at > Len(visit.form.steps)
  /\ visit' = [visit EXCEPT !.told = "done"]
  /\ UNCHANGED <<standing, deployed>>

Leave ==
  /\ visit # NoVisit /\ visit.told # "awaited"
  /\ visit' = NoVisit
  /\ UNCHANGED <<standing, deployed>>

\* An admin changes the role, or deactivates the account.
SetStanding(s) ==
  /\ s # standing
  /\ standing' = s
  /\ UNCHANGED <<deployed, visit>>

SurfaceNext ==
  \/ \E form \in Forms, bearer \in BOOLEAN : (form.by # "api" => ~bearer) /\ Admit(form, bearer)
  \/ Made \/ Skip \/ Finish \/ Leave
  \/ \E e \in DOMAIN Raising \union {"AuthorizationError", "Fault"} : Raise(e)
  \/ \E s \in Standings \ {"none"} : SetStanding(s)

SurfaceSpec == SurfaceInit /\ [][SurfaceNext]_surfaceVars

-----------------------------------------------------------------------------
Answered == visit # NoVisit /\ visit.told # "awaited"

KeptOps == {visit.form.steps[i].op : i \in visit.kept}

\* Who was turned away or refused has changed nothing; a part is called a part; what was done
\* was done in full, but for what the form did not ask for.
AnswersAreHonest ==
  Answered =>
    /\ visit.told \in {"turned", "refused", "quiet"} => visit.kept = {}
    /\ visit.told = "partly" => 1 \in visit.kept
    /\ visit.told = "done" => \A i \in DOMAIN visit.form.steps : visit.form.steps[i].may \/ i \in visit.kept

\* A refusal of the domain is answered as one, with two exceptions: the form by which an
\* operator would propose an edit of a part, which has no guard and does not catch the gate's
\* exception, and the note of a report whose order was touched by another after it was opened.
RefusalsAreAnswers ==
  Answered /\ visit.told = "error" =>
    \/ visit.why = "Fault"
    \/ (visit.form = InventoryProposeUpdate /\ visit.seen = "operator")
    \/ (visit.form = ReportSubmit /\ KeptOps = {"open_report"})

\* An operator reports, cancels one's own report and keeps one's own account.  Without any
\* gate, a tool rejects a proposal for whoever owns its token.
OperatorsOnlyReport ==
  Answered =>
    /\ visit.seen = "operator" => KeptOps \subseteq OwnOps \union SelfOps \union {"add_attachment"}
    /\ visit.seen = "unread" => KeptOps \subseteq SelfOps \union {"reject"}

\* What is for admins is done by who was an admin at some time during the request.
AdminsGovern ==
  Answered /\ KeptOps \intersect (AdminOps \union PageOps) # {} =>
    \/ visit.seen = "admin"
    \/ visit.form \in {UserCreate, UserSetAssignee, RejectTool}

\* A queued message is sent with the answer.  The pages and tools that confirm and the tools,
\* commands and posts that open leave it to the next sweep of the outbox, and so does a note
\* whose photographs failed.
MessagesGoWithAnswer ==
  Answered /\ visit.told # "error" =>
    \A op \in KeptOps : \A kind \in Queues(op) :
      \/ kind \in visit.woken
      \/ visit.form = AdminConfirmProposal \/ visit.by \in {"mcp", "cli", "box"}
      \/ (visit.form = AddWorkOrderNote /\ visit.told = "partly")

\* The read API is never open in production without its token.
ReadersAreKnown ==
  Answered /\ visit.by = "api" /\ visit.told = "done" =>
    visit.bearer \/ (~deployed.token /\ ~deployed.production)

SurfacesAreSound ==
  /\ SurfaceTypeOK /\ AnswersAreHonest /\ RefusalsAreAnswers /\ OperatorsOnlyReport
  /\ AdminsGovern /\ MessagesGoWithAnswer /\ ReadersAreKnown
=============================================================================
