----------------------------- MODULE Directory -----------------------------
(***************************************************************************)
(* The components around the work orders, and what is claimed of them.     *)
(* They share no state with each other; what they share is who uses them.  *)
(***************************************************************************)
EXTENDS Accounts, Vault, AssetGraph, Bridge, Conversations, Gateway, Media,
        Purchasing, OnBox, Templates, Surfaces

\* A reset ends the sessions of the old password, a slot of the vault has one current
\* credential, however calls overlap, and a request does what it answers and no more than its
\* visitor may.
IdentityIsSound ==
  AccountsTypeOK /\ ResetEndsSessions /\ VaultTypeOK /\ OneCurrent /\ SurfacesAreSound

\* The last active admin stays, and what a user was told of a credential is so, unless two
\* calls overlapped.
IdentityStepsKept == LastAdminKept /\ VaultKeepsWord

\* A chat is bound once, to whose code it sent, a command is carried out once, and a question
\* has its own answer.
AssistantIsSound == BridgeTypeOK /\ BridgeSafe /\ TalkTypeOK /\ TalksAreSound

\* Photographs, requests for quotation, reports from a box and templates of tasks: what was
\* asked for twice is there once, and what was taken away stays away.
PaperworkIsSound ==
  MediaIsSound /\ BuyingIsSound /\ OnBoxTypeOK /\ ReportsAreKept /\ TemplatesAreSound

=============================================================================
