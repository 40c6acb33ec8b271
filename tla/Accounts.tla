------------------------------ MODULE Accounts ------------------------------
(***************************************************************************)
(* IdentityService: accounts, the sessions of the web and the scoped       *)
(* tokens of the MCP transport.  A call reads and tests outside its        *)
(* transaction and writes later, so calls overlap.                         *)
(***************************************************************************)
EXTENDS Naturals, FiniteSets, Sequences, Session

CONSTANTS
  Users, Admins,   \* the accounts, and those that are there as admins from the start
  Calls,           \* the calls that can be under way at once
  MaxSessions, MaxTokens, MaxPasswords   \* bounds

ASSUME AccountsAssumption ==
  /\ Admins \subseteq Users /\ Users # {}
  /\ MaxSessions \in Nat /\ MaxTokens \in Nat /\ MaxPasswords \in Nat \ {0}

VARIABLES
  account,   \* account[u]: the row of user_account, its password as a version
  session,   \* user_session in the order of the inserts
  token,     \* mcp_scoped_token in the order of the inserts
  call,      \* call[c]: the call under way
  resetTo    \* resetTo[u]: the password the last reset gave the account

accountVars == <<account, session, token, call, resetTo>>

ValidRoles == {"admin", "engineer", "operator"}
Account == [there : BOOLEAN, role : ValidRoles, active : BOOLEAN, password : 0..MaxPasswords]
NoAccount == [there |-> FALSE, role |-> "engineer", active |-> FALSE, password |-> 0]

\* "proof" is the password that opened the session, "late" that a reset overtook the login.
UserSession == [user : Users, live : BOOLEAN, proof : 1..MaxPasswords, late : BOOLEAN]
ScopedToken == [user : Users, live : BOOLEAN, late : BOOLEAN]

\* A call: the account it is about, as it read it with its actor's when they are one ("me") and
\* when it tested it ("seen"), and whether a write that matters to it came after that.
RoleOps == {"deactivate", "reactivate", "set_role"}
Ops == RoleOps \cup {"reset", "change", "login", "mint"}
Call == [pc : {"idle", "asked", "ready"}, op : Ops, actor : Users, user : Users,
         role : ValidRoles, me : Account, seen : Account, late : BOOLEAN]
IdleCall == [pc |-> "idle", op |-> "login", actor |-> CHOOSE u \in Users : TRUE,
             user |-> CHOOSE u \in Users : TRUE, role |-> "engineer", me |-> NoAccount,
             seen |-> NoAccount, late |-> FALSE]

-----------------------------------------------------------------------------
IsActiveAdmin(a) == a.there /\ a.active /\ a.role = "admin"
ActiveAdmins == {u \in Users : IsActiveAdmin(account[u])}
ActiveAdminCount == Cardinality(ActiveAdmins)

\* resolve_user and resolve_scoped_token: whom a session or a token stands for.
Resolves(s) == session[s].live /\ account[session[s].user].active
ResolvesToken(t) == token[t].live /\ account[token[t].user].active
LoggedIn(u) == \E s \in DOMAIN session : session[s].user = u /\ Resolves(s)

\* The calls that other writes leave behind.
Overtake(behind) ==
  [c \in Calls |-> IF c \in behind THEN [call[c] EXCEPT !.late = TRUE] ELSE call[c]]

UnderWay(op, u) == {o \in Calls : call[o].pc # "idle" /\ call[o].op = op /\ call[o].user = u}

\* create_user, by an admin's page or the command line.
CreateUser(u, role) ==
  /\ ~account[u].there
  /\ account' = [account EXCEPT ![u] =
                   [there |-> TRUE, role |-> role, active |-> TRUE, password |-> 1]]
  /\ UNCHANGED <<session, token, call, resetTo>>

\* The test of the actor, which every administrative operation starts with.
Ask(c, op, actor, u, role) ==
  /\ call[c].pc = "idle"
  /\ op \in RoleOps \cup {"reset"}
  /\ IsActiveAdmin(account[actor])
  /\ op = "deactivate" => u # actor
  /\ call' = [call EXCEPT ![c] = [pc |-> "asked", op |-> op, actor |-> actor, user |-> u,
                role |-> role, me |-> IF u = actor THEN account[u] ELSE NoAccount,
                seen |-> NoAccount, late |-> FALSE]]
  /\ UNCHANGED <<account, session, token, resetTo>>

\* Faulty variant: whoever is not oneself may go.
MayRemoveOthers(k, seen) == seen.there /\ k.user # k.actor

\* The account, as the session of the call has it, may be changed: an active admin is
\* deactivated or demoted only by another one, and while there are two.
MayChange(k, seen) ==
  /\ seen.there
  /\ IsActiveAdmin(seen) /\ (k.op = "deactivate" \/ (k.op = "set_role" /\ k.role # "admin")) =>
       k.user # k.actor /\ ActiveAdminCount > 1

Check(c) ==
  LET k == call[c]
      seen == IF k.user = k.actor THEN k.me ELSE account[k.user]
  IN  /\ k.pc = "asked"
      /\ call' = [call EXCEPT ![c] =
           IF MayChange(k, seen) THEN [k EXCEPT !.pc = "ready", !.seen = seen] ELSE IdleCall]
      /\ UNCHANGED <<account, session, token, resetTo>>

\* Deactivating or demoting an active admin leaves other calls with an old count, and any
\* change leaves those about the same account with an old row.
Removes(k) == IsActiveAdmin(account[k.user]) /\ ~IsActiveAdmin(account'[k.user])
LeftBehind(k) ==
  {o \in Calls : /\ call[o].pc = "ready" /\ call[o].op \in RoleOps
                 /\ Removes(k) \/ call[o].user = k.user}

\* The row, with what the call changes of the account as it read it.
RowAfter(k, row) ==
  [row EXCEPT !.active = Written(k.op = "reactivate" \/ (k.op # "deactivate" /\ k.seen.active),
                                 k.seen.active, @),
              !.role = Written(IF k.op = "set_role" THEN k.role ELSE k.seen.role, k.seen.role, @)]

CommitRole(c) ==
  LET k == call[c] IN
  /\ k.pc = "ready" /\ k.op \in RoleOps
  /\ account' = [account EXCEPT ![k.user] = RowAfter(k, @)]
  /\ call' = [Overtake(LeftBehind(k)) EXCEPT ![c] = IdleCall]
  /\ UNCHANGED <<session, token, resetTo>>

\* Faulty variant: the sessions stay.
KeepSessions(u) == session

\* _revoke_user_sessions
RevokeSessions(u) ==
  [s \in DOMAIN session |-> [session[s] EXCEPT !.live = @ /\ session[s].user # u]]

CommitReset(c) ==
  LET k == call[c]
      new == account[k.user].password + 1
  IN  /\ k.pc = "ready" /\ k.op = "reset" /\ new <= MaxPasswords
      /\ account' = [account EXCEPT ![k.user].password = new]
      /\ resetTo' = [resetTo EXCEPT ![k.user] = new]
      /\ session' = RevokeSessions(k.user)
      /\ call' = [Overtake(UnderWay("login", k.user)) EXCEPT ![c] = IdleCall]
      /\ UNCHANGED token

-----------------------------------------------------------------------------
\* authenticate: the password is verified, the session inserted later.
Authenticate(c, u) ==
  /\ call[c].pc = "idle" /\ account[u].active
  /\ call' = [call EXCEPT ![c] = [IdleCall EXCEPT !.pc = "ready", !.op = "login", !.user = u,
                                                  !.seen = account[u]]]
  /\ UNCHANGED <<account, session, token, resetTo>>

CommitLogin(c) ==
  LET k == call[c] IN
  /\ k.pc = "ready" /\ k.op = "login" /\ Len(session) < MaxSessions
  /\ session' = Append(session, [user |-> k.user, live |-> TRUE, proof |-> k.seen.password,
                                 late |-> k.late])
  /\ call' = [call EXCEPT ![c] = IdleCall]
  /\ UNCHANGED <<account, token, resetTo>>

\* logout, or the session's fourteen days are over.
EndSession(s) ==
  /\ session[s].live
  /\ session' = [session EXCEPT ![s].live = FALSE]
  /\ UNCHANGED <<account, token, call, resetTo>>

\* change_password: the old one is verified; the other sessions of the user stay.
VerifyOld(c, u) ==
  /\ call[c].pc = "idle" /\ LoggedIn(u)
  /\ call' = [call EXCEPT ![c] = [IdleCall EXCEPT !.pc = "ready", !.op = "change",
                                    !.actor = u, !.user = u, !.seen = account[u]]]
  /\ UNCHANGED <<account, session, token, resetTo>>

CommitPassword(c) ==
  LET k == call[c] IN
  /\ k.pc = "ready" /\ k.op = "change" /\ account[k.user].password < MaxPasswords
  /\ account' = [account EXCEPT ![k.user].password = @ + 1]
  /\ call' = [call EXCEPT ![c] = IdleCall]
  /\ UNCHANGED <<session, token, resetTo>>

-----------------------------------------------------------------------------
\* mint_scoped_token, for a session that resolves, and mint_scoped_token_for_user, which
\* the command line and the messenger's webhook call for an active account.
Mint(c, u) ==
  /\ call[c].pc = "idle" /\ account[u].active
  /\ call' = [call EXCEPT ![c] = [IdleCall EXCEPT !.pc = "ready", !.op = "mint", !.user = u]]
  /\ UNCHANGED <<account, session, token, resetTo>>

CommitMint(c) ==
  LET k == call[c] IN
  /\ k.pc = "ready" /\ k.op = "mint" /\ Len(token) < MaxTokens
  /\ token' = Append(token, [user |-> k.user, live |-> TRUE, late |-> k.late])
  /\ call' = [call EXCEPT ![c] = IdleCall]
  /\ UNCHANGED <<account, session, resetTo>>

\* revoke_scoped_tokens_for_user
RevokeTokens(u) ==
  /\ account[u].there
  /\ token' = [t \in DOMAIN token |-> [token[t] EXCEPT !.live = @ /\ token[t].user # u]]
  /\ call' = Overtake(UnderWay("mint", u))
  /\ UNCHANGED <<account, session, resetTo>>

ExpireToken(t) ==
  /\ token[t].live
  /\ token' = [token EXCEPT ![t].live = FALSE]
  /\ UNCHANGED <<account, session, call, resetTo>>

-----------------------------------------------------------------------------
AccountsInit ==
  /\ account = [u \in Users |-> IF u \in Admins
       THEN [there |-> TRUE, role |-> "admin", active |-> TRUE, password |-> 1] ELSE NoAccount]
  /\ session = <<>> /\ token = <<>>
  /\ call = [c \in Calls |-> IdleCall]
  /\ resetTo = [u \in Users |-> 0]

AccountsNext ==
  \/ \E u \in Users, role \in ValidRoles : CreateUser(u, role)
  \/ \E c \in Calls :
       \/ \E actor, u \in Users, op \in Ops, role \in ValidRoles : Ask(c, op, actor, u, role)
       \/ \E u \in Users : Authenticate(c, u) \/ VerifyOld(c, u) \/ Mint(c, u)
       \/ Check(c) \/ CommitRole(c) \/ CommitReset(c)
       \/ CommitLogin(c) \/ CommitPassword(c) \/ CommitMint(c)
  \/ \E s \in DOMAIN session : EndSession(s)
  \/ \E u \in Users : RevokeTokens(u)
  \/ \E t \in DOMAIN token : ExpireToken(t)

AccountsSpec == AccountsInit /\ [][AccountsNext]_accountVars

-----------------------------------------------------------------------------
AccountsTypeOK ==
  /\ account \in [Users -> Account]
  /\ session \in Seq(UserSession) /\ token \in Seq(ScopedToken)
  /\ call \in [Calls -> Call]
  /\ resetTo \in [Users -> 0..MaxPasswords]

\* reset_password: every session that a password before the reset opened is over, unless its
\* login had verified that password when the reset came.
ResetEndsSessions ==
  \A s \in DOMAIN session :
    session[s].live /\ session[s].proof < resetTo[session[s].user] => session[s].late

\* "cannot deactivate the last active admin", "cannot demote the last active admin": the last
\* one goes only by a call that another removal, or another change of the same account,
\* overtook after it had looked.
RemovalWasOvertaken ==
  \E c \in Calls : call[c].pc = "ready" /\ call[c].late /\ call'[c].pc = "idle"
LastAdminKept ==
  [][ActiveAdmins # {} => (ActiveAdmins' # {} \/ RemovalWasOvertaken)]_accountVars

=============================================================================
