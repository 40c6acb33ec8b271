---------------------------- MODULE MCDirectory ----------------------------
(***************************************************************************)
(* Small instances of the components around the work orders.  They share   *)
(* no state, so a behaviour is about one of them: "part" says which, and   *)
(* the others stay as they began.                                          *)
(***************************************************************************)
EXTENDS Directory

CONSTANTS u1, u2, u3, c1, c2, a1, a2, a3, p1, p2, x1, cm, bd, i1

VARIABLE part

identityVars == <<accountVars, vaultVars, surfaceVars>>
chatVars == <<bridgeVars, talkVars>>
paperVars == <<mediaVars, buyingVars, onBoxVars, templateVars>>
vars == <<identityVars, assetVars, chatVars, gatewayVars, paperVars, part>>

OwnerListsDef == {<<>>, <<p1>>, <<p1, p2>>, <<p2, p1>>}
TwoEach == [t \in {cm, bd} |-> 2]
OneEach == [t \in {cm, bd} |-> 1]
StepFileDef == <<{i1}>>

-----------------------------------------------------------------------------
(***************************************************************************)
(* Who asks for what in each part.                                         *)
(***************************************************************************)
AskRole(c) ==
  \E actor \in Admins, u \in Users, op \in {"deactivate", "reactivate", "set_role"},
     role \in {"admin", "engineer"} :
    /\ op # "set_role" => role = "engineer"
    /\ op = "reactivate" => ~account[u].active
    /\ u = u3 => op = "set_role"
    /\ Ask(c, op, actor, u, role)

AdminsStep ==
  \/ CreateUser(u3, "engineer") /\ \A c \in Calls : call[c] = IdleCall
  \/ \E c \in Calls : AskRole(c) \/ Check(c) \/ CommitRole(c)

LoginsStep ==
  \/ \E c \in Calls : \/ Ask(c, "reset", u1, u2, "engineer") \/ Check(c) \/ CommitReset(c)
                      \/ Authenticate(c, u2) \/ VerifyOld(c, u2)
                      \/ CommitLogin(c) \/ CommitPassword(c)
  \/ \E s \in DOMAIN session : EndSession(s)

TokensStep ==
  \/ \E c \in Calls : Mint(c, u2) \/ CommitMint(c)
  \/ RevokeTokens(u2)
  \/ \E t \in DOMAIN token : ExpireToken(t)

\* The second edit begins while there are few edges; one dependency, on an empty graph, and
\* an asset that is created first.
GraphStep ==
  /\ IF asset[a3].there THEN GraphNext ELSE CreateAsset(a3, <<>>)
  /\ edit'[c2] # NoEdit /\ edit[c2] = NoEdit => Len(edge) < 2
  /\ \A e \in Edits : edit'[e] \notin {edit[e], NoEdit} /\ edit'[e].type = "shared_dependency" =>
       e = c1 /\ edge = <<>> /\ edit'[e].from = a1 /\ edit'[e].to = a2

\* An asset is created and registered first; then the flags, form and owners of another and
\* the owners of two at once.
MasterStep ==
  \/ ~asset[a3].there /\ CreateAsset(a3, <<p1, p2>>)
  \/ asset[a3].there /\ externalId[x1] = NoAsset /\ RegisterExternalId(a3, x1)
  \/ /\ externalId[x1] = a3
     /\ \/ ReadFlags(c2, a1)
        \/ \E list \in {<<>>, <<p2, p1>>} : SetOwners(c1, {a1, a2}, list)
        \/ \E form \in Versions : \/ \E list \in {<<p1>>, <<p1, p2>>} : UpdateAsset(c1, a1, form, list)
                               \/ UpdateAsset(c2, a1, form, <<p1, p2>>)
        \/ \E e \in Edits : CommitOwners(e) \/ WriteFlags(e)

\* A day passes when it has been used or at once; one request is a summary or a chat, the
\* other a chat.
GatewayStep ==
  /\ GatewayNext
  /\ ask'[c1].path = "chat"
  /\ today' # today => \A p \in DOMAIN calls : p[1] < today => calls[p] = 0

-----------------------------------------------------------------------------
MCInit ==
  /\ AccountsInit /\ VaultInit /\ AssetInit /\ BridgeInit /\ TalkInit /\ GatewayInit
  /\ MediaInit /\ BuyingInit /\ OnBoxInit /\ TemplateInit /\ SurfaceInit
  /\ part \in {"admins", "logins", "tokens", "vault", "graph", "master", "bridge", "talk",
               "gateway", "media", "rfq", "contacts", "reports", "templates", "surfaces"}
  /\ IF part = "rfq" THEN listed = Contacts ELSE listed = {1} /\ mailable = {}
  /\ part # "reports" => machine = "missing"
  /\ part # "templates" => stocked = {}
  /\ part # "surfaces" => standing = "admin" /\ deployed = [production |-> TRUE, token |-> TRUE]

Identity ==
  \/ part = "admins" /\ AdminsStep /\ UNCHANGED <<vaultVars, surfaceVars>>
  \/ part = "logins" /\ LoginsStep /\ UNCHANGED <<vaultVars, surfaceVars>>
  \/ part = "tokens" /\ TokensStep /\ UNCHANGED <<vaultVars, surfaceVars>>
  \/ part = "vault" /\ VaultNext /\ UNCHANGED <<accountVars, surfaceVars>>
  \/ part = "surfaces" /\ SurfaceNext /\ UNCHANGED <<accountVars, vaultVars>>

AssetMaster ==
  \/ part = "graph" /\ GraphStep
  \/ part = "master" /\ MasterStep

Assistant ==
  \/ part = "bridge" /\ BridgeNext /\ UNCHANGED talkVars
  \/ part = "talk" /\ TalkNext /\ UNCHANGED bridgeVars

Paperwork ==
  \/ part = "media" /\ MediaNext /\ UNCHANGED <<buyingVars, onBoxVars, templateVars>>
  \/ /\ part \in {"rfq", "contacts"}
     /\ BuyingNext
     /\ IF part = "rfq" THEN UNCHANGED change ELSE UNCHANGED <<buy, mailable>>
     /\ UNCHANGED <<mediaVars, onBoxVars, templateVars>>
  \/ part = "reports" /\ OnBoxNext /\ UNCHANGED <<mediaVars, buyingVars, templateVars>>
  \/ part = "templates" /\ TemplateNext /\ UNCHANGED <<mediaVars, buyingVars, onBoxVars>>

MCNext ==
  /\ UNCHANGED part
  /\ \/ Identity /\ UNCHANGED <<assetVars, chatVars, gatewayVars, paperVars>>
     \/ AssetMaster /\ UNCHANGED <<identityVars, chatVars, gatewayVars, paperVars>>
     \/ Assistant /\ UNCHANGED <<identityVars, assetVars, gatewayVars, paperVars>>
     \/ part = "gateway" /\ GatewayStep /\ UNCHANGED <<identityVars, assetVars, chatVars, paperVars>>
     \/ Paperwork /\ UNCHANGED <<identityVars, assetVars, chatVars, gatewayVars>>

MCSpec == MCInit /\ [][MCNext]_vars

=============================================================================
