--------------------------- MODULE DirectoryProofs ---------------------------
(***************************************************************************)
(* Proofs about the components around the work orders: accounts and the    *)
(* vault, the messenger's bridge and the conversations with the assistant, *)
(* the gateway in front of the language model, and the paperwork:          *)
(* photographs, requests for quotation, reports from a box and templates.  *)
(***************************************************************************)
EXTENDS Directory, SequenceLemmas

-----------------------------------------------------------------------------
(***************************************************************************)
(* Accounts.  A call that looked before it writes may rely on what it saw  *)
(* until somebody else writes what it looked at; "late" says that somebody *)
(* did.  The invariant says what a call that is not late may rely on.      *)
(***************************************************************************)
Removing(k) == k.op = "deactivate" \/ (k.op = "set_role" /\ k.role # "admin")

\* An account that is active is there, one that is there has a password, the last reset gave
\* it the one it has or an earlier one, and what is not there was never reset.
RowsAreRight ==
  \A u \in Users : /\ account[u].active => account[u].there
                   /\ account[u].there => account[u].password >= 1
                   /\ resetTo[u] <= account[u].password
                   /\ ~account[u].there => resetTo[u] = 0

\* A login under way has verified a password, and one that no reset overtook has verified
\* none that is older than the last reset.
LoginsAreRight ==
  \A c \in Calls : call[c].pc = "ready" /\ call[c].op = "login" =>
    /\ call[c].seen.password >= 1
    /\ call[c].seen.password < resetTo[call[c].user] => call[c].late

\* Who asked about oneself was an active admin then.
AskersAreAdmins ==
  \A c \in Calls : call[c].pc = "asked" =>
    /\ call[c].op # "login"
    /\ call[c].user = call[c].actor => IsActiveAdmin(call[c].me) /\ account[call[c].user].there

\* What passed its test is about an account that is there.
WritesHaveRows == \A c \in Calls : call[c].pc = "ready" => account[call[c].user].there

\* A change that passed its test and was not overtaken: the row is still as it was read, and
\* who removes an active admin leaves another one; a change of oneself removes nothing.
ChangeIsRight(k) ==
  /\ k.seen.there
  /\ k.user = k.actor => IsActiveAdmin(k.seen) /\ ~Removing(k)
  /\ k.user # k.actor /\ ~k.late =>
       /\ account[k.user].active = k.seen.active /\ account[k.user].role = k.seen.role
       /\ IsActiveAdmin(k.seen) /\ Removing(k) =>
            \E v \in Users \ {k.user} : IsActiveAdmin(account[v])

ChangesAreRight ==
  \A c \in Calls : call[c].pc = "ready" /\ call[c].op \in RoleOps => ChangeIsRight(call[c])

AccountsInv ==
  AccountsTypeOK /\ RowsAreRight /\ LoginsAreRight /\ AskersAreAdmins /\ WritesHaveRows
    /\ ChangesAreRight /\ ResetEndsSessions

LEMMA IdleCallIsCall == IdleCall \in Call /\ IdleCall.pc = "idle" /\ NoAccount \in Account
BY AccountsAssumption DEF IdleCall, NoAccount, Call, Account, Ops, RoleOps, ValidRoles

LEMMA AccountsStart == AccountsInit => AccountsInv
<1> SUFFICES ASSUME AccountsInit PROVE AccountsInv
  OBVIOUS
<1> USE DEF AccountsInit
<1>1. AccountsTypeOK
  <2>1. account \in [Users -> Account]
    BY AccountsAssumption DEF Account, NoAccount, ValidRoles
  <2>2. call \in [Calls -> Call]
    BY IdleCallIsCall
  <2>3. session \in Seq(UserSession) /\ token \in Seq(ScopedToken) /\ resetTo \in [Users -> 0..MaxPasswords]
    BY AccountsAssumption
  <2>4. QED
    BY <2>1, <2>2, <2>3 DEF AccountsTypeOK
<1>2. RowsAreRight
  BY DEF RowsAreRight, NoAccount
<1>3. LoginsAreRight /\ AskersAreAdmins /\ WritesHaveRows /\ ChangesAreRight
  BY DEF LoginsAreRight, AskersAreAdmins, WritesHaveRows, ChangesAreRight, IdleCall
<1>4. ResetEndsSessions
  BY DEF ResetEndsSessions
<1>5. QED
  BY <1>1, <1>2, <1>3, <1>4 DEF AccountsInv

\* What a change of calls leaves of another one: nothing is different but that it may be late.
LEMMA OvertakenCall ==
  ASSUME AccountsTypeOK, NEW behind \in SUBSET Calls, NEW c \in Calls, NEW o \in Calls,
         call' = [Overtake(behind) EXCEPT ![c] = IdleCall]
  PROVE  /\ call' \in [Calls -> Call]
         /\ o = c => call'[o] = IdleCall
         /\ o # c => /\ call'[o].pc = call[o].pc /\ call'[o].op = call[o].op
                     /\ call'[o].actor = call[o].actor /\ call'[o].user = call[o].user
                     /\ call'[o].role = call[o].role /\ call'[o].me = call[o].me
                     /\ call'[o].seen = call[o].seen
                     /\ call'[o].late = (call[o].late \/ o \in behind)
<1>1. call \in [Calls -> Call]
  BY DEF AccountsTypeOK
<1>2. Overtake(behind) \in [Calls -> Call]
  BY <1>1 DEF Overtake, Call
<1>3. call' \in [Calls -> Call]
  BY <1>2, IdleCallIsCall
<1>4. o # c => call'[o] = IF o \in behind THEN [call[o] EXCEPT !.late = TRUE] ELSE call[o]
  BY <1>1 DEF Overtake
<1>5. o = c => call'[o] = IdleCall
  BY <1>2
<1>6. call[o] \in Call
  BY <1>1
<1>7. QED
  BY <1>3, <1>4, <1>5, <1>6 DEF Call

\* What changes no call and no role, and takes no account away, leaves the calls right.
LEMMA CallsStayRight ==
  ASSUME AccountsInv, UNCHANGED call,
         \A v \in Users : account[v].there => /\ account'[v].there
                                              /\ account'[v].active = account[v].active
                                              /\ account'[v].role = account[v].role
  PROVE  AskersAreAdmins' /\ WritesHaveRows' /\ ChangesAreRight'
<1>1. /\ AskersAreAdmins /\ WritesHaveRows /\ ChangesAreRight /\ RowsAreRight
      /\ call \in [Calls -> Call]
  BY DEF AccountsInv, AccountsTypeOK
<1>2. \A c \in Calls : call[c].user \in Users
  BY <1>1 DEF Call
<1>3. AskersAreAdmins' /\ WritesHaveRows'
  BY <1>1, <1>2 DEF AskersAreAdmins, WritesHaveRows
<1>4. \A v \in Users : IsActiveAdmin(account[v]) => IsActiveAdmin(account'[v])
  BY DEF IsActiveAdmin
<1>5. ASSUME NEW c \in Calls, call[c].pc = "ready", ChangeIsRight(call[c])
      PROVE  ChangeIsRight(call[c])'
  <2>1. call[c].user \in Users /\ account[call[c].user].there
    BY <1>1, <1>2, <1>5 DEF WritesHaveRows
  <2>2. QED
    BY <1>4, <1>5, <2>1 DEF ChangeIsRight, Removing
<1>6. ChangesAreRight'
  BY <1>1, <1>5 DEF ChangesAreRight
<1>7. QED
  BY <1>3, <1>6

LEMMA CreateUserKeeps ==
  ASSUME AccountsInv, NEW u \in Users, NEW role \in ValidRoles, CreateUser(u, role)
  PROVE  /\ AccountsInv'
         /\ \A v \in Users : IsActiveAdmin(account[v]) => IsActiveAdmin(account'[v])
<1>1. AccountsTypeOK /\ RowsAreRight /\ LoginsAreRight /\ ResetEndsSessions
  BY DEF AccountsInv
<1>2. /\ account \in [Users -> Account] /\ call \in [Calls -> Call]
      /\ resetTo \in [Users -> 0..MaxPasswords]
  BY <1>1 DEF AccountsTypeOK
<1>3. account' \in [Users -> Account]
  BY <1>2, AccountsAssumption DEF CreateUser, Account
<1>4. /\ account'[u].there /\ account'[u].active /\ account'[u].password = 1
      /\ \A v \in Users \ {u} : account'[v] = account[v]
      /\ ~account[u].there
      /\ UNCHANGED <<session, token, call, resetTo>>
  BY <1>2 DEF CreateUser
<1>5. AccountsTypeOK'
  BY <1>1, <1>3, <1>4 DEF AccountsTypeOK
<1>6. RowsAreRight'
  <2>1. resetTo[u] = 0
    BY <1>1, <1>4 DEF RowsAreRight
  <2>2. QED
    BY <1>1, <1>4, <2>1 DEF RowsAreRight
<1>7. LoginsAreRight' /\ ResetEndsSessions'
  BY <1>1, <1>4 DEF LoginsAreRight, ResetEndsSessions
<1>8. AskersAreAdmins' /\ WritesHaveRows' /\ ChangesAreRight'
  BY <1>4, CallsStayRight
<1>9. \A v \in Users : IsActiveAdmin(account[v]) => IsActiveAdmin(account'[v])
  BY <1>4 DEF IsActiveAdmin
<1>10. QED
  BY <1>5, <1>6, <1>7, <1>8, <1>9 DEF AccountsInv

\* A call begins, or passes its test or ends without a write: only that call changes.
LEMMA OneCallKeeps ==
  ASSUME AccountsInv, NEW c \in Calls, NEW k \in Call, call' = [call EXCEPT ![c] = k],
         UNCHANGED <<account, session, token, resetTo>>,
         k.pc = "asked" =>
           /\ k.op # "login"
           /\ k.user = k.actor => IsActiveAdmin(k.me) /\ account[k.user].there,
         k.pc = "ready" => account[k.user].there,
         k.pc = "ready" /\ k.op = "login" =>
           k.seen.password >= 1 /\ k.seen.password >= resetTo[k.user],
         k.pc = "ready" /\ k.op \in RoleOps => ChangeIsRight(k)
  PROVE  AccountsInv'
<1>1. /\ AccountsTypeOK /\ RowsAreRight /\ LoginsAreRight /\ AskersAreAdmins /\ WritesHaveRows
      /\ ChangesAreRight /\ ResetEndsSessions
  BY DEF AccountsInv
<1>2. /\ call \in [Calls -> Call] /\ account \in [Users -> Account]
      /\ resetTo \in [Users -> 0..MaxPasswords]
  BY <1>1 DEF AccountsTypeOK
<1>3. /\ call' \in [Calls -> Call] /\ call'[c] = k
      /\ \A o \in Calls \ {c} : call'[o] = call[o]
  BY <1>2
<1>4. AccountsTypeOK'
  BY <1>1, <1>3 DEF AccountsTypeOK
<1>5. RowsAreRight' /\ ResetEndsSessions'
  BY <1>1 DEF RowsAreRight, ResetEndsSessions
<1>6. k.seen.password \in Nat /\ resetTo[k.user] \in Nat
  BY <1>2 DEF Call, Account
<1>7. LoginsAreRight'
  BY <1>1, <1>3, <1>6 DEF LoginsAreRight
<1>8. AskersAreAdmins' /\ WritesHaveRows'
  BY <1>1, <1>3 DEF AskersAreAdmins, WritesHaveRows
<1>9. ASSUME NEW o \in Calls, ChangeIsRight(call'[o])
      PROVE  ChangeIsRight(call[o])'
  BY <1>9 DEF ChangeIsRight, Removing
<1>10. ChangesAreRight'
  BY <1>1, <1>3, <1>9 DEF ChangesAreRight
<1>11. QED
  BY <1>4, <1>5, <1>7, <1>8, <1>10 DEF AccountsInv

\* What is written of a row: nothing of a column that the call did not change.
RowWritten(row, k, new) ==
  /\ new.there = row.there /\ new.password = row.password
  /\ k.op = "deactivate" => new.active = (row.active /\ ~k.seen.active)
  /\ k.op = "reactivate" => new.active = (row.active \/ ~k.seen.active)
  /\ k.op = "set_role" => new.active = row.active
  /\ k.op = "set_role" /\ k.role # k.seen.role => new.role = k.role
  /\ k.op # "set_role" \/ k.role = k.seen.role => new.role = row.role

LEMMA RowIsWritten ==
  ASSUME NEW k, NEW row \in Account, k.seen \in Account, k.role \in ValidRoles
  PROVE  RowAfter(k, row) \in Account /\ RowWritten(row, k, RowAfter(k, row))
<1>1. PICK new : new = RowAfter(k, row)
  OBVIOUS
<1>2. /\ new.there = row.there /\ new.password = row.password
      /\ new.active = Written(k.op = "reactivate" \/ (k.op # "deactivate" /\ k.seen.active), k.seen.active, row.active)
      /\ new.role = Written(IF k.op = "set_role" THEN k.role ELSE k.seen.role, k.seen.role, row.role)
  BY <1>1 DEF RowAfter, Account
<1>3. new.active \in BOOLEAN /\ new.role \in ValidRoles
  BY <1>2 DEF Written, Account
<1>4. new \in Account
  BY <1>1, <1>3 DEF RowAfter, Account
<1>5. RowWritten(row, k, new)
  BY <1>2 DEF RowWritten, Written, Account
<1>6. QED
  BY <1>1, <1>4, <1>5

\* A role or a flag is written: the calls it leaves behind are late, and the others have seen
\* what is still so.  While the call was not overtaken, an admin is left if there was one.
LEMMA CommitRoleKeeps ==
  ASSUME AccountsInv, NEW c \in Calls, CommitRole(c)
  PROVE  /\ AccountsInv'
         /\ ActiveAdmins # {} => ActiveAdmins' # {} \/ RemovalWasOvertaken
<1>1. /\ AccountsTypeOK /\ RowsAreRight /\ LoginsAreRight /\ AskersAreAdmins /\ WritesHaveRows
      /\ ChangesAreRight /\ ResetEndsSessions
  BY DEF AccountsInv
<1>2. /\ call \in [Calls -> Call] /\ account \in [Users -> Account]
      /\ resetTo \in [Users -> 0..MaxPasswords]
  BY <1>1 DEF AccountsTypeOK
<1>3. PICK k \in Call : k = call[c]
  BY <1>2
<1>4. PICK u \in Users : u = k.user
  BY DEF Call
<1>5. /\ k.pc = "ready" /\ k.op \in RoleOps /\ UNCHANGED <<session, token, resetTo>>
      /\ call' = [Overtake(LeftBehind(k)) EXCEPT ![c] = IdleCall]
  BY <1>3 DEF CommitRole
<1>6. /\ \A v \in Users \ {u} : account'[v] = account[v]
      /\ account'[u].there = account[u].there /\ account'[u].password = account[u].password
      /\ RowWritten(account[u], k, account'[u])
      /\ account' \in [Users -> Account]
  <2>1. account[u] \in Account /\ k.seen \in Account /\ k.role \in ValidRoles
    BY <1>2 DEF Call
  <2>2. account' = [account EXCEPT ![u] = RowAfter(k, account[u])]
    BY <1>3, <1>4 DEF CommitRole
  <2>3. RowAfter(k, account[u]) \in Account /\ RowWritten(account[u], k, RowAfter(k, account[u]))
    BY <2>1, RowIsWritten
  <2>4. QED
    BY <1>2, <2>2, <2>3 DEF RowWritten
<1>7. ASSUME NEW o \in Calls
      PROVE  /\ call' \in [Calls -> Call]
             /\ o = c => call'[o] = IdleCall
             /\ o # c => /\ call'[o].pc = call[o].pc /\ call'[o].op = call[o].op
                         /\ call'[o].actor = call[o].actor /\ call'[o].user = call[o].user
                         /\ call'[o].role = call[o].role /\ call'[o].me = call[o].me
                         /\ call'[o].seen = call[o].seen
                         /\ call'[o].late = (call[o].late \/ o \in LeftBehind(k))
  <2>1. LeftBehind(k) \in SUBSET Calls
    BY DEF LeftBehind
  <2>2. QED
    BY <1>1, <1>5, <2>1, OvertakenCall
<1>8. ChangeIsRight(k) /\ account[u].there
  BY <1>1, <1>3, <1>4, <1>5 DEF ChangesAreRight, WritesHaveRows
<1>9. AccountsTypeOK'
  <2>1. call' \in [Calls -> Call]
    BY <1>7
  <2>2. QED
    BY <1>1, <1>5, <1>6, <2>1 DEF AccountsTypeOK
<1>10. RowsAreRight'
  BY <1>1, <1>5, <1>6, <1>8 DEF RowsAreRight
<1>11. /\ ResetEndsSessions'
       /\ call'[c].pc = "idle"
  BY <1>1, <1>5, <1>7 DEF ResetEndsSessions, IdleCall
<1>12. LoginsAreRight'
  <2> SUFFICES ASSUME NEW o \in Calls, call'[o].pc = "ready", call'[o].op = "login"
               PROVE  /\ call'[o].seen.password >= 1
                      /\ call'[o].seen.password < resetTo'[call'[o].user] => call'[o].late
    BY DEF LoginsAreRight
  <2>1. o # c
    BY <1>11
  <2>2. /\ call[o].seen.password >= 1
        /\ call[o].seen.password < resetTo[call[o].user] => call[o].late
    BY <1>1, <1>7, <2>1 DEF LoginsAreRight
  <2>3. call[o].late => call'[o].late
    BY <1>7, <2>1
  <2>4. QED
    BY <1>5, <1>7, <2>1, <2>2, <2>3
<1>13. AskersAreAdmins' /\ WritesHaveRows'
  <2>1. \A o \in Calls : call[o].user \in Users
    BY <1>2 DEF Call
  <2>2. \A v \in Users : account'[v].there = account[v].there
    BY <1>6
  <2>3. QED
    BY <1>1, <1>7, <1>11, <2>1, <2>2 DEF AskersAreAdmins, WritesHaveRows
<1>14. ASSUME NEW o \in Calls, o # c, call[o].pc = "ready", call[o].op \in RoleOps
       PROVE  ChangeIsRight(call[o])'
  <2>1. ChangeIsRight(call[o])
    BY <1>1, <1>14 DEF ChangesAreRight
  <2>2. call[o].user \in Users
    BY <1>2 DEF Call
  <2>3. CASE o \in LeftBehind(k)
    BY <1>7, <1>14, <2>1, <2>3 DEF ChangeIsRight, Removing
  <2>4. CASE o \notin LeftBehind(k)
    <3>1. ~Removes(k) /\ call[o].user # u
      BY <1>4, <1>14, <2>4 DEF LeftBehind
    <3>2. \A v \in Users : IsActiveAdmin(account[v]) => IsActiveAdmin(account'[v])
      BY <1>4, <1>6, <3>1 DEF Removes
    <3>3. account'[call[o].user] = account[call[o].user]
      BY <1>6, <2>2, <3>1
    <3>4. QED
      BY <1>7, <1>14, <2>1, <2>4, <3>2, <3>3 DEF ChangeIsRight, Removing
  <2>5. QED
    BY <2>3, <2>4
<1>15. ChangesAreRight'
  BY <1>7, <1>11, <1>14 DEF ChangesAreRight
<1>16. ASSUME ActiveAdmins # {} PROVE ActiveAdmins' # {} \/ RemovalWasOvertaken
  <2>1. PICK w \in Users : IsActiveAdmin(account[w])
    BY <1>16 DEF ActiveAdmins
  <2>2. CASE k.user = k.actor
    <3>1. k.seen.active /\ k.seen.role = "admin" /\ ~Removing(k)
      BY <1>8, <2>2 DEF ChangeIsRight, IsActiveAdmin
    <3>2. /\ account[u].active => account'[u].active
          /\ account'[u].role = account[u].role
      BY <1>5, <1>6, <3>1 DEF Removing, RowWritten, RoleOps
    <3>3. IsActiveAdmin(account'[w])
      BY <1>6, <2>1, <3>2 DEF IsActiveAdmin, RowWritten
    <3>4. QED
      BY <3>3 DEF ActiveAdmins
  <2>3. CASE k.user # k.actor /\ k.late
    BY <1>3, <1>5, <1>7, <2>3 DEF RemovalWasOvertaken, IdleCall
  <2>4. CASE k.user # k.actor /\ ~k.late
    <3>1. CASE w # u
      BY <1>6, <2>1, <3>1 DEF ActiveAdmins
    <3>2. CASE w = u /\ Removing(k)
      <4>1. IsActiveAdmin(k.seen)
        BY <1>4, <1>8, <2>1, <2>4, <3>2 DEF ChangeIsRight, IsActiveAdmin
      <4>2. PICK v \in Users \ {u} : IsActiveAdmin(account[v])
        BY <1>4, <1>8, <2>4, <3>2, <4>1 DEF ChangeIsRight
      <4>3. QED
        BY <1>6, <4>2 DEF ActiveAdmins
    <3>3. CASE w = u /\ ~Removing(k)
      <4>1. account[u].active /\ account[u].role = "admin" /\ account[u].there
        BY <2>1, <3>3 DEF IsActiveAdmin
      <4>2. k.seen.active /\ k.seen.role = "admin"
        BY <1>4, <1>8, <2>4, <4>1 DEF ChangeIsRight
      <4>3. IsActiveAdmin(account'[u])
        BY <1>5, <1>6, <3>3, <4>1, <4>2 DEF Removing, IsActiveAdmin, RowWritten, RoleOps
      <4>4. QED
        BY <4>3 DEF ActiveAdmins
    <3>4. QED
      BY <3>1, <3>2, <3>3
  <2>5. QED
    BY <2>2, <2>3, <2>4
<1>17. QED
  BY <1>9, <1>10, <1>11, <1>12, <1>13, <1>15, <1>16 DEF AccountsInv

\* A reset: the sessions of the account end, and the logins under way for it are late.
LEMMA CommitResetKeeps ==
  ASSUME AccountsInv, NEW c \in Calls, CommitReset(c)
  PROVE  AccountsInv' /\ ActiveAdmins \subseteq ActiveAdmins'
<1>1. /\ AccountsTypeOK /\ RowsAreRight /\ LoginsAreRight /\ AskersAreAdmins /\ WritesHaveRows
      /\ ChangesAreRight /\ ResetEndsSessions
  BY DEF AccountsInv
<1>2. /\ call \in [Calls -> Call] /\ account \in [Users -> Account]
      /\ resetTo \in [Users -> 0..MaxPasswords] /\ session \in Seq(UserSession)
  BY <1>1 DEF AccountsTypeOK
<1>3. PICK u \in Users : u = call[c].user
  BY <1>2 DEF Call
<1>4. account[u] \in Account /\ account[u].password \in Nat /\ account[u].there
  BY <1>1, <1>2, <1>3 DEF CommitReset, WritesHaveRows, Account
<1>5. PICK new \in Nat : new = account[u].password + 1
  BY <1>4
<1>6. /\ new <= MaxPasswords /\ call[c].pc = "ready" /\ call[c].op = "reset"
      /\ account' = [account EXCEPT ![u].password = new]
      /\ resetTo' = [resetTo EXCEPT ![u] = new]
      /\ session' = RevokeSessions(u)
      /\ call' = [Overtake(UnderWay("login", u)) EXCEPT ![c] = IdleCall]
      /\ UNCHANGED token
  BY <1>3, <1>5 DEF CommitReset
<1>7. /\ \A v \in Users \ {u} : account'[v] = account[v] /\ resetTo'[v] = resetTo[v]
      /\ account'[u].there = account[u].there /\ account'[u].active = account[u].active
      /\ account'[u].role = account[u].role /\ account'[u].password = new /\ resetTo'[u] = new
  BY <1>2, <1>4, <1>6 DEF Account
<1>8. ASSUME NEW o \in Calls
      PROVE  /\ call' \in [Calls -> Call]
             /\ o = c => call'[o] = IdleCall
             /\ o # c => /\ call'[o].pc = call[o].pc /\ call'[o].op = call[o].op
                         /\ call'[o].actor = call[o].actor /\ call'[o].user = call[o].user
                         /\ call'[o].role = call[o].role /\ call'[o].me = call[o].me
                         /\ call'[o].seen = call[o].seen
                         /\ call'[o].late = (call[o].late \/ o \in UnderWay("login", u))
  <2>1. UnderWay("login", u) \in SUBSET Calls
    BY DEF UnderWay
  <2>2. QED
    BY <1>1, <1>6, <2>1, OvertakenCall
<1>9. call'[c].pc = "idle"
  BY <1>8, IdleCallIsCall
<1>10. AccountsTypeOK'
  <2>1. account' \in [Users -> Account] /\ resetTo' \in [Users -> 0..MaxPasswords]
    <3>1. new \in 0..MaxPasswords
      BY <1>6, AccountsAssumption
    <3>2. [account[u] EXCEPT !.password = new] \in Account
      BY <1>4, <3>1 DEF Account
    <3>3. QED
      BY <1>2, <1>6, <3>1, <3>2
  <2>2. session' \in Seq(UserSession)
    <3>1. ASSUME NEW s \in 1..Len(session)
          PROVE  [session[s] EXCEPT !.live = @ /\ session[s].user # u] \in UserSession
      <4>1. session[s] \in UserSession
        BY <1>2
      <4>2. (session[s].live /\ session[s].user # u) \in BOOLEAN
        OBVIOUS
      <4>3. QED
        BY <4>1, <4>2 DEF UserSession
    <3>2. DOMAIN session = 1..Len(session) /\ Len(session) \in Nat
      BY <1>2
    <3>3. session' = [s \in 1..Len(session) |-> [session[s] EXCEPT !.live = @ /\ session[s].user # u]]
      BY <1>6, <3>2 DEF RevokeSessions
    <3>4. QED
      BY <3>1, <3>2, <3>3
  <2>3. call' \in [Calls -> Call]
    BY <1>8
  <2>4. QED
    BY <1>1, <1>6, <2>1, <2>2, <2>3 DEF AccountsTypeOK
<1>11. RowsAreRight'
  <2>1. /\ account'[u].there /\ account'[u].password >= 1
        /\ resetTo'[u] <= account'[u].password
    BY <1>4, <1>5, <1>7
  <2>2. QED
    BY <1>1, <1>7, <2>1 DEF RowsAreRight
<1>12. LoginsAreRight'
  <2> SUFFICES ASSUME NEW o \in Calls, call'[o].pc = "ready", call'[o].op = "login"
               PROVE  /\ call'[o].seen.password >= 1
                      /\ call'[o].seen.password < resetTo'[call'[o].user] => call'[o].late
    BY DEF LoginsAreRight
  <2>1. o # c /\ call[o].pc = "ready" /\ call[o].op = "login" /\ call[o].user \in Users
    BY <1>2, <1>8, <1>9 DEF Call
  <2>2. /\ call[o].seen.password >= 1
        /\ call[o].seen.password < resetTo[call[o].user] => call[o].late
    BY <1>1, <2>1 DEF LoginsAreRight
  <2>3. call[o].late \/ call[o].user = u => call'[o].late
    BY <1>8, <2>1 DEF UnderWay
  <2>4. QED
    BY <1>7, <1>8, <2>1, <2>2, <2>3
<1>13. AskersAreAdmins' /\ WritesHaveRows'
  <2>1. \A o \in Calls : call[o].user \in Users
    BY <1>2 DEF Call
  <2>2. \A v \in Users : account'[v].there = account[v].there
    BY <1>7
  <2>3. QED
    BY <1>1, <1>8, <1>9, <2>1, <2>2 DEF AskersAreAdmins, WritesHaveRows
<1>14. \A v \in Users : /\ account'[v].there = account[v].there /\ account'[v].active = account[v].active
                        /\ account'[v].role = account[v].role
  BY <1>7
<1>15. ASSUME NEW o \in Calls, o # c, ChangeIsRight(call[o]), call[o].op \in RoleOps
       PROVE  ChangeIsRight(call[o])'
  <2>1. o \notin UnderWay("login", u)
    BY <1>15 DEF UnderWay, RoleOps
  <2>2. call[o].user \in Users
    BY <1>2 DEF Call
  <2>3. call'[o].late = call[o].late
    BY <1>2, <1>8, <1>15, <2>1 DEF Call
  <2>4. QED
    BY <1>8, <1>14, <1>15, <2>2, <2>3 DEF ChangeIsRight, Removing, IsActiveAdmin
<1>16. ChangesAreRight'
  BY <1>1, <1>8, <1>9, <1>15 DEF ChangesAreRight
<1>17. ResetEndsSessions'
  <2> SUFFICES ASSUME NEW s \in DOMAIN session', session'[s].live,
                      session'[s].proof < resetTo'[session'[s].user]
               PROVE  session'[s].late
    BY DEF ResetEndsSessions
  <2>1. s \in DOMAIN session /\ session[s] \in UserSession
    BY <1>2, <1>6 DEF RevokeSessions
  <2>2. /\ session[s].live /\ session[s].user # u
        /\ session'[s].proof = session[s].proof /\ session'[s].user = session[s].user
        /\ session'[s].late = session[s].late
    BY <1>6, <2>1 DEF RevokeSessions, UserSession
  <2>3. session[s].user \in Users
    BY <2>1 DEF UserSession
  <2>4. session[s].proof < resetTo[session[s].user]
    BY <1>7, <2>2, <2>3
  <2>5. QED
    BY <1>1, <2>1, <2>2, <2>4 DEF ResetEndsSessions
<1>18. ActiveAdmins \subseteq ActiveAdmins'
  BY <1>14 DEF ActiveAdmins, IsActiveAdmin
<1>19. QED
  BY <1>10, <1>11, <1>12, <1>13, <1>16, <1>17, <1>18 DEF AccountsInv

\* The calls that begin, and the test of the administrative ones.
LEMMA BeginningsKeep ==
  ASSUME AccountsInv, NEW c \in Calls, NEW u \in Users,
         \/ \E actor \in Users, op \in Ops, role \in ValidRoles : Ask(c, op, actor, u, role)
         \/ Authenticate(c, u) \/ VerifyOld(c, u) \/ Mint(c, u)
         \/ Check(c)
  PROVE  AccountsInv' /\ UNCHANGED account
<1>1. /\ AccountsTypeOK /\ RowsAreRight /\ AskersAreAdmins
  BY DEF AccountsInv
<1>2. /\ call \in [Calls -> Call] /\ account \in [Users -> Account]
      /\ resetTo \in [Users -> 0..MaxPasswords]
  BY <1>1 DEF AccountsTypeOK
<1>3. /\ account[u] \in Account /\ account[u].password \in Nat /\ resetTo[u] \in Nat
      /\ IdleCall \in Call /\ NoAccount \in Account
  BY <1>2, IdleCallIsCall DEF Account
<1>4. ASSUME NEW actor \in Users, NEW op \in Ops, NEW role \in ValidRoles, Ask(c, op, actor, u, role)
      PROVE  AccountsInv'
  <2>1. PICK k : k = [pc |-> "asked", op |-> op, actor |-> actor, user |-> u, role |-> role,
                      me |-> IF u = actor THEN account[u] ELSE NoAccount, seen |-> NoAccount,
                      late |-> FALSE]
    OBVIOUS
  <2>2. k \in Call /\ call' = [call EXCEPT ![c] = k]
    BY <1>3, <1>4, <2>1 DEF Ask, Call
  <2>3. /\ k.op # "login"
        /\ k.user = k.actor => IsActiveAdmin(k.me) /\ account[k.user].there
    BY <1>4, <2>1 DEF Ask, IsActiveAdmin, RoleOps
  <2>4. k.pc # "ready" /\ UNCHANGED <<account, session, token, resetTo>>
    BY <1>4, <2>1 DEF Ask
  <2>5. QED
    BY <2>2, <2>3, <2>4, OneCallKeeps
<1>5. ASSUME Authenticate(c, u) \/ VerifyOld(c, u) \/ Mint(c, u)
      PROVE  AccountsInv'
  <2>1. account[u].active /\ UNCHANGED <<account, session, token, resetTo>>
    BY <1>5 DEF Authenticate, VerifyOld, Mint, LoggedIn, Resolves
  <2>2. account[u].there /\ account[u].password >= 1 /\ account[u].password >= resetTo[u]
    BY <1>1, <1>3, <2>1 DEF RowsAreRight
  <2>3. CASE Authenticate(c, u)
    <3>1. PICK k : k = [IdleCall EXCEPT !.pc = "ready", !.op = "login", !.user = u, !.seen = account[u]]
      OBVIOUS
    <3>2. /\ k \in Call /\ k.pc = "ready" /\ k.op = "login" /\ k.user = u /\ k.seen = account[u]
          /\ call' = [call EXCEPT ![c] = k]
      BY <1>3, <2>3, <3>1 DEF Authenticate, Call, Ops, RoleOps
    <3>3. k.op \notin RoleOps
      BY <3>2 DEF RoleOps
    <3>4. QED
      BY <2>1, <2>2, <3>2, <3>3, OneCallKeeps
  <2>4. CASE VerifyOld(c, u)
    <3>1. PICK k : k = [IdleCall EXCEPT !.pc = "ready", !.op = "change", !.actor = u, !.user = u,
                                        !.seen = account[u]]
      OBVIOUS
    <3>2. /\ k \in Call /\ k.pc = "ready" /\ k.op = "change" /\ k.user = u
          /\ call' = [call EXCEPT ![c] = k]
      BY <1>3, <2>4, <3>1 DEF VerifyOld, Call, Ops, RoleOps
    <3>3. k.op \notin RoleOps
      BY <3>2 DEF RoleOps
    <3>4. QED
      BY <2>1, <2>2, <3>2, <3>3, OneCallKeeps
  <2>5. CASE Mint(c, u)
    <3>1. PICK k : k = [IdleCall EXCEPT !.pc = "ready", !.op = "mint", !.user = u]
      OBVIOUS
    <3>2. /\ k \in Call /\ k.pc = "ready" /\ k.op = "mint" /\ k.user = u
          /\ call' = [call EXCEPT ![c] = k]
      BY <1>3, <2>5, <3>1 DEF Mint, Call, Ops, RoleOps
    <3>3. k.op \notin RoleOps
      BY <3>2 DEF RoleOps
    <3>4. QED
      BY <2>1, <2>2, <3>2, <3>3, OneCallKeeps
  <2>6. QED
    BY <1>5, <2>3, <2>4, <2>5
<1>6. ASSUME Check(c)
      PROVE  AccountsInv'
  <2>1. PICK a, was : a = call[c] /\ was = IF a.user = a.actor THEN a.me ELSE account[a.user]
    OBVIOUS
  <2>2. /\ a \in Call /\ a.user \in Users /\ was \in Account /\ a.pc = "asked"
        /\ UNCHANGED <<account, session, token, resetTo>>
    BY <1>2, <1>6, <2>1 DEF Check, Call
  <2>3. PICK k : k = IF MayChange(a, was) THEN [a EXCEPT !.pc = "ready", !.seen = was] ELSE IdleCall
    OBVIOUS
  <2>4. call' = [call EXCEPT ![c] = k]
    BY <1>6, <2>1, <2>3 DEF Check
  <2>5. CASE ~MayChange(a, was)
    BY <1>3, <2>2, <2>3, <2>4, <2>5, IdleCallIsCall, OneCallKeeps
  <2>6. CASE MayChange(a, was)
    <3>1. /\ k \in Call /\ k.pc = "ready" /\ k.user = a.user /\ k.actor = a.actor /\ k.op = a.op
          /\ k.role = a.role /\ k.seen = was
      BY <2>2, <2>3, <2>6 DEF Call
    <3>2. /\ was.there
          /\ IsActiveAdmin(was) /\ Removing(k) => k.user # k.actor /\ ActiveAdminCount > 1
      BY <2>6, <3>1 DEF MayChange, Removing
    <3>3. k.user = k.actor => IsActiveAdmin(was) /\ account[k.user].there
      BY <1>1, <2>1, <2>2, <3>1 DEF AskersAreAdmins
    <3>4. k.user # k.actor => was = account[k.user]
      BY <2>1, <3>1
    <3>5. ASSUME ActiveAdminCount > 1 PROVE \E v \in Users \ {k.user} : IsActiveAdmin(account[v])
      <4>1. Cardinality({k.user}) = 1 /\ Cardinality({}) = 0
        BY FS_Singleton, FS_EmptySet
      <4>2. ActiveAdmins # {k.user} /\ ActiveAdmins # {}
        BY <3>5, <4>1 DEF ActiveAdminCount
      <4>3. QED
        BY <4>2 DEF ActiveAdmins
    <3>6. ChangeIsRight(k) /\ account[k.user].there
      BY <3>1, <3>2, <3>3, <3>4, <3>5 DEF ChangeIsRight
    <3>7. k.op # "login"
      BY <1>1, <2>1, <2>2, <3>1 DEF AskersAreAdmins
    <3>8. QED
      BY <2>2, <2>4, <3>1, <3>6, <3>7, OneCallKeeps
  <2>7. QED
    BY <2>5, <2>6
<1>7. UNCHANGED account
  BY DEF Ask, Authenticate, VerifyOld, Mint, Check
<1>8. QED
  BY <1>4, <1>5, <1>6, <1>7

\* A call that ends, with sessions and tokens that are right after it.
LEMMA OnlyCallsEnd ==
  ASSUME AccountsInv, NEW c \in Calls, call' = [call EXCEPT ![c] = IdleCall],
         UNCHANGED <<account, resetTo>>,
         session' \in Seq(UserSession), token' \in Seq(ScopedToken), ResetEndsSessions'
  PROVE  AccountsInv'
<1>1. /\ AccountsTypeOK /\ RowsAreRight /\ LoginsAreRight /\ AskersAreAdmins /\ WritesHaveRows
      /\ ChangesAreRight
  BY DEF AccountsInv
<1>2. call \in [Calls -> Call]
  BY <1>1 DEF AccountsTypeOK
<1>3. /\ call' \in [Calls -> Call] /\ call'[c].pc = "idle"
      /\ \A o \in Calls \ {c} : call'[o] = call[o]
  BY <1>2, IdleCallIsCall
<1>4. AccountsTypeOK' /\ RowsAreRight'
  BY <1>1, <1>3 DEF AccountsTypeOK, RowsAreRight
<1>5. LoginsAreRight' /\ AskersAreAdmins' /\ WritesHaveRows'
  BY <1>1, <1>3 DEF LoginsAreRight, AskersAreAdmins, WritesHaveRows
<1>6. ASSUME NEW o \in Calls, ChangeIsRight(call'[o])
      PROVE  ChangeIsRight(call[o])'
  BY <1>6 DEF ChangeIsRight, Removing
<1>7. ChangesAreRight'
  BY <1>1, <1>3, <1>6 DEF ChangesAreRight
<1>8. QED
  BY <1>4, <1>5, <1>7 DEF AccountsInv

\* What only ends sessions, or inserts one that is right.
LEMMA SessionsKeep ==
  ASSUME AccountsInv, (\E c \in Calls : CommitLogin(c)) \/ (\E s \in DOMAIN session : EndSession(s))
  PROVE  AccountsInv' /\ UNCHANGED account
<1>1. /\ AccountsTypeOK /\ RowsAreRight /\ LoginsAreRight /\ ResetEndsSessions
  BY DEF AccountsInv
<1>2. /\ call \in [Calls -> Call] /\ session \in Seq(UserSession)
  BY <1>1 DEF AccountsTypeOK
<1>3. ASSUME NEW c \in Calls, CommitLogin(c) PROVE AccountsInv' /\ UNCHANGED account
  <2>1. PICK k \in Call : k = call[c]
    BY <1>2
  <2>2. PICK x : x = [user |-> k.user, live |-> TRUE, proof |-> k.seen.password, late |-> k.late]
    OBVIOUS
  <2>3. /\ k.pc = "ready" /\ k.op = "login" /\ session' = Append(session, x)
        /\ call' = [call EXCEPT ![c] = IdleCall] /\ UNCHANGED <<account, token, resetTo>>
    BY <1>3, <2>1, <2>2 DEF CommitLogin
  <2>4. k.seen.password >= 1 /\ (k.seen.password < resetTo[k.user] => k.late)
    BY <1>1, <2>1, <2>3 DEF LoginsAreRight
  <2>5. x \in UserSession
    <3>1. k.seen.password \in 1..MaxPasswords
      BY <2>4, AccountsAssumption DEF Call, Account
    <3>2. QED
      BY <2>2, <3>1 DEF UserSession, Call
  <2>6. session' \in Seq(UserSession)
    BY <1>2, <2>3, <2>5
  <2>7. ResetEndsSessions'
    <3> SUFFICES ASSUME NEW s \in DOMAIN session', session'[s].live,
                        session'[s].proof < resetTo[session'[s].user]
                 PROVE  session'[s].late
      BY <2>3 DEF ResetEndsSessions
    <3>1. Len(session) \in Nat /\ DOMAIN session = 1..Len(session) /\ DOMAIN session' = 1..(Len(session) + 1)
      BY <1>2, <2>3
    <3>2. CASE s = Len(session) + 1
      BY <1>2, <2>2, <2>3, <2>4, <3>2
    <3>3. CASE s # Len(session) + 1
      <4>1. s \in DOMAIN session /\ session'[s] = session[s]
        BY <1>2, <2>3, <3>1, <3>3
      <4>2. QED
        BY <1>1, <4>1 DEF ResetEndsSessions
    <3>4. QED
      BY <3>2, <3>3
  <2>8. QED
    BY <1>1, <2>3, <2>6, <2>7, OnlyCallsEnd DEF AccountsTypeOK
<1>4. ASSUME NEW s \in DOMAIN session, EndSession(s) PROVE AccountsInv' /\ UNCHANGED account
  <2>1. PICK x : x = [session[s] EXCEPT !.live = FALSE]
    OBVIOUS
  <2>2. session[s] \in UserSession
    BY <1>2
  <2>3. x \in UserSession /\ ~x.live
    BY <2>1, <2>2 DEF UserSession
  <2>4. session' = [session EXCEPT ![s] = x] /\ UNCHANGED <<account, token, call, resetTo>>
    BY <1>4, <2>1 DEF EndSession
  <2>5. session' \in Seq(UserSession)
    BY <1>2, <2>3, <2>4
  <2>6. ResetEndsSessions'
    BY <1>1, <1>2, <2>3, <2>4 DEF ResetEndsSessions
  <2>7. AccountsTypeOK' /\ RowsAreRight' /\ LoginsAreRight'
    BY <1>1, <2>4, <2>5 DEF AccountsTypeOK, RowsAreRight, LoginsAreRight
  <2>8. AskersAreAdmins' /\ WritesHaveRows' /\ ChangesAreRight'
    BY <2>4, CallsStayRight
  <2>9. QED
    BY <2>4, <2>6, <2>7, <2>8 DEF AccountsInv
<1>5. QED
  BY <1>3, <1>4

\* A new password of one's own: no role and no reset changes.
LEMMA CommitPasswordKeeps ==
  ASSUME AccountsInv, NEW c \in Calls, CommitPassword(c)
  PROVE  AccountsInv' /\ ActiveAdmins \subseteq ActiveAdmins'
<1>1. /\ AccountsTypeOK /\ RowsAreRight /\ LoginsAreRight /\ AskersAreAdmins /\ WritesHaveRows
      /\ ChangesAreRight /\ ResetEndsSessions
  BY DEF AccountsInv
<1>2. /\ call \in [Calls -> Call] /\ account \in [Users -> Account]
      /\ resetTo \in [Users -> 0..MaxPasswords]
  BY <1>1 DEF AccountsTypeOK
<1>3. PICK u \in Users : u = call[c].user
  BY <1>2 DEF Call
<1>4. account[u] \in Account /\ account[u].password \in Nat /\ account[u].there /\ resetTo[u] \in Nat
  BY <1>1, <1>2, <1>3 DEF CommitPassword, WritesHaveRows, Account
<1>5. PICK new \in Nat : new = account[u].password + 1
  BY <1>4
<1>6. /\ account[u].password < MaxPasswords
      /\ account' = [account EXCEPT ![u].password = new]
      /\ call' = [call EXCEPT ![c] = IdleCall] /\ UNCHANGED <<session, token, resetTo>>
  BY <1>3, <1>5 DEF CommitPassword
<1>7. /\ \A v \in Users \ {u} : account'[v] = account[v]
      /\ account'[u].there = account[u].there /\ account'[u].active = account[u].active
      /\ account'[u].role = account[u].role /\ account'[u].password = new
  BY <1>2, <1>4, <1>6 DEF Account
<1>8. /\ call' \in [Calls -> Call] /\ call'[c].pc = "idle"
      /\ \A o \in Calls \ {c} : call'[o] = call[o]
  BY <1>2, <1>6, IdleCallIsCall
<1>9. AccountsTypeOK'
  <2>1. [account[u] EXCEPT !.password = new] \in Account
    <3>1. new \in 0..MaxPasswords
      BY <1>4, <1>5, <1>6, AccountsAssumption
    <3>2. QED
      BY <1>4, <3>1 DEF Account
  <2>2. account' \in [Users -> Account]
    BY <1>2, <1>6, <2>1
  <2>3. QED
    BY <1>1, <1>6, <1>8, <2>2 DEF AccountsTypeOK
<1>10. RowsAreRight'
  <2>1. /\ account'[u].there /\ account'[u].password >= 1 /\ resetTo'[u] <= account'[u].password
    BY <1>1, <1>4, <1>5, <1>6, <1>7 DEF RowsAreRight
  <2>2. QED
    BY <1>1, <1>6, <1>7, <2>1 DEF RowsAreRight
<1>11. LoginsAreRight' /\ ResetEndsSessions'
  BY <1>1, <1>6, <1>8 DEF LoginsAreRight, ResetEndsSessions
<1>12. \A v \in Users : /\ account'[v].there = account[v].there /\ account'[v].active = account[v].active
                        /\ account'[v].role = account[v].role
  BY <1>7
<1>13. \A o \in Calls : call[o].user \in Users
  BY <1>2 DEF Call
<1>14. AskersAreAdmins' /\ WritesHaveRows'
  BY <1>1, <1>8, <1>12, <1>13 DEF AskersAreAdmins, WritesHaveRows
<1>15. ASSUME NEW o \in Calls, o # c, ChangeIsRight(call[o])
       PROVE  ChangeIsRight(call[o])'
  BY <1>8, <1>12, <1>13, <1>15 DEF ChangeIsRight, Removing, IsActiveAdmin
<1>16. ChangesAreRight'
  BY <1>1, <1>8, <1>15 DEF ChangesAreRight
<1>17. ActiveAdmins \subseteq ActiveAdmins'
  BY <1>12 DEF ActiveAdmins, IsActiveAdmin
<1>18. QED
  BY <1>9, <1>10, <1>11, <1>14, <1>16, <1>17 DEF AccountsInv

\* Tokens: nothing else depends on them.
LEMMA TokensKeep ==
  ASSUME AccountsInv,
         \/ \E c \in Calls : CommitMint(c)
         \/ \E u \in Users : RevokeTokens(u)
         \/ \E t \in DOMAIN token : ExpireToken(t)
  PROVE  AccountsInv' /\ UNCHANGED account
<1>1. /\ AccountsTypeOK /\ RowsAreRight /\ LoginsAreRight /\ AskersAreAdmins /\ WritesHaveRows
      /\ ChangesAreRight /\ ResetEndsSessions
  BY DEF AccountsInv
<1>2. call \in [Calls -> Call] /\ token \in Seq(ScopedToken)
  BY <1>1 DEF AccountsTypeOK
<1>3. ASSUME NEW c \in Calls, CommitMint(c) PROVE AccountsInv' /\ UNCHANGED account
  <2>1. PICK x : x = [user |-> call[c].user, live |-> TRUE, late |-> call[c].late]
    OBVIOUS
  <2>2. /\ token' = Append(token, x) /\ call' = [call EXCEPT ![c] = IdleCall]
        /\ UNCHANGED <<account, session, resetTo>>
    BY <1>3, <2>1 DEF CommitMint
  <2>3. x \in ScopedToken
    BY <1>2, <2>1 DEF ScopedToken, Call
  <2>4. token' \in Seq(ScopedToken) /\ session' \in Seq(UserSession) /\ ResetEndsSessions'
    BY <1>1, <1>2, <2>2, <2>3 DEF AccountsTypeOK, ResetEndsSessions
  <2>5. QED
    BY <2>2, <2>4, OnlyCallsEnd
<1>4. ASSUME NEW u \in Users, RevokeTokens(u) PROVE AccountsInv' /\ UNCHANGED account
  <2>1. /\ token' = [t \in DOMAIN token |-> [token[t] EXCEPT !.live = @ /\ token[t].user # u]]
        /\ call' = Overtake(UnderWay("mint", u)) /\ UNCHANGED <<account, session, resetTo>>
    BY <1>4 DEF RevokeTokens
  <2>2. token' \in Seq(ScopedToken)
    <3>1. ASSUME NEW t \in 1..Len(token)
          PROVE  [token[t] EXCEPT !.live = @ /\ token[t].user # u] \in ScopedToken
      <4>1. token[t] \in ScopedToken
        BY <1>2
      <4>2. (token[t].live /\ token[t].user # u) \in BOOLEAN
        OBVIOUS
      <4>3. QED
        BY <4>1, <4>2 DEF ScopedToken
    <3>2. DOMAIN token = 1..Len(token) /\ Len(token) \in Nat
      BY <1>2
    <3>3. token' = [t \in 1..Len(token) |-> [token[t] EXCEPT !.live = @ /\ token[t].user # u]]
      BY <2>1, <3>2
    <3>4. QED
      BY <3>1, <3>2, <3>3
  <2>3. ASSUME NEW o \in Calls
        PROVE  /\ call'[o] \in Call
               /\ call[o].op # "mint" => call'[o] = call[o]
               /\ call'[o].pc = call[o].pc /\ call'[o].op = call[o].op /\ call'[o].user = call[o].user
               /\ call'[o].actor = call[o].actor /\ call'[o].me = call[o].me
    BY <1>2, <2>1 DEF Overtake, UnderWay, Call
  <2>4. call' \in [Calls -> Call]
    BY <2>1, <2>3 DEF Overtake
  <2>5. AccountsTypeOK' /\ RowsAreRight' /\ ResetEndsSessions'
    BY <1>1, <2>1, <2>2, <2>4 DEF AccountsTypeOK, RowsAreRight, ResetEndsSessions
  <2>6. LoginsAreRight' /\ AskersAreAdmins' /\ WritesHaveRows'
    BY <1>1, <2>1, <2>3 DEF LoginsAreRight, AskersAreAdmins, WritesHaveRows
  <2>7. ASSUME NEW o \in Calls, call'[o] = call[o], ChangeIsRight(call[o])
        PROVE  ChangeIsRight(call[o])'
    BY <2>1, <2>7 DEF ChangeIsRight, Removing
  <2>8. ChangesAreRight'
    <3>1. "mint" \notin RoleOps
      BY DEF RoleOps
    <3>2. QED
      BY <1>1, <2>3, <2>7, <3>1 DEF ChangesAreRight
  <2>9. QED
    BY <2>1, <2>5, <2>6, <2>8 DEF AccountsInv
<1>5. ASSUME NEW t \in DOMAIN token, ExpireToken(t) PROVE AccountsInv' /\ UNCHANGED account
  <2>1. PICK x : x = [token[t] EXCEPT !.live = FALSE]
    OBVIOUS
  <2>2. token[t] \in ScopedToken
    BY <1>2
  <2>3. x \in ScopedToken
    BY <2>1, <2>2 DEF ScopedToken
  <2>4. token' = [token EXCEPT ![t] = x] /\ UNCHANGED <<account, session, call, resetTo>>
    BY <1>5, <2>1 DEF ExpireToken
  <2>5. AccountsTypeOK' /\ RowsAreRight' /\ LoginsAreRight' /\ ResetEndsSessions'
    BY <1>1, <1>2, <2>3, <2>4 DEF AccountsTypeOK, RowsAreRight, LoginsAreRight, ResetEndsSessions
  <2>6. AskersAreAdmins' /\ WritesHaveRows' /\ ChangesAreRight'
    BY <2>4, CallsStayRight
  <2>7. QED
    BY <2>4, <2>5, <2>6 DEF AccountsInv
<1>6. QED
  BY <1>3, <1>4, <1>5

\* A step of the accounts, and what it leaves of the admins.
LEMMA AccountsStep ==
  ASSUME AccountsInv, [AccountsNext]_accountVars
  PROVE  /\ AccountsInv'
         /\ ActiveAdmins # {} => ActiveAdmins' # {} \/ RemovalWasOvertaken
<1> DEFINE Goal == AccountsInv' /\ (ActiveAdmins # {} => ActiveAdmins' # {} \/ RemovalWasOvertaken)
<1>1. UNCHANGED account => (ActiveAdmins # {} => ActiveAdmins' # {})
  BY DEF ActiveAdmins
<1>2. ASSUME NEW u \in Users, NEW role \in ValidRoles, CreateUser(u, role) PROVE Goal
  <2>1. AccountsInv' /\ \A v \in Users : IsActiveAdmin(account[v]) => IsActiveAdmin(account'[v])
    BY <1>2, CreateUserKeeps
  <2>2. QED
    BY <2>1 DEF ActiveAdmins
<1>3. ASSUME NEW c \in Calls, NEW actor \in Users, NEW u \in Users, NEW op \in Ops, NEW role \in ValidRoles,
             Ask(c, op, actor, u, role)
      PROVE  Goal
  BY <1>1, <1>3, BeginningsKeep
<1>4. ASSUME NEW c \in Calls, NEW u \in Users, Authenticate(c, u) \/ VerifyOld(c, u) \/ Mint(c, u)
      PROVE  Goal
  BY <1>1, <1>4, BeginningsKeep
<1>5. ASSUME NEW c \in Calls, Check(c) PROVE Goal
  BY <1>1, <1>5, BeginningsKeep, AccountsAssumption
<1>6. ASSUME NEW c \in Calls, CommitRole(c) PROVE Goal
  BY <1>6, CommitRoleKeeps
<1>7. ASSUME NEW c \in Calls, CommitReset(c) PROVE Goal
  BY <1>7, CommitResetKeeps
<1>8. ASSUME NEW c \in Calls, CommitLogin(c) PROVE Goal
  BY <1>1, <1>8, SessionsKeep
<1>9. ASSUME NEW c \in Calls, CommitPassword(c) PROVE Goal
  BY <1>9, CommitPasswordKeeps
<1>10. ASSUME \/ \E c \in Calls : CommitMint(c)
              \/ \E u \in Users : RevokeTokens(u)
              \/ \E t \in DOMAIN token : ExpireToken(t)
       PROVE  Goal
  BY <1>1, <1>10, TokensKeep
<1>11. ASSUME NEW s \in DOMAIN session, EndSession(s) PROVE Goal
  BY <1>1, <1>11, SessionsKeep
<1>12. CASE UNCHANGED accountVars
  <2>1. UNCHANGED <<account, session, token, call, resetTo>>
    BY <1>12 DEF accountVars
  <2>2. AskersAreAdmins' /\ WritesHaveRows' /\ ChangesAreRight'
    BY <2>1, CallsStayRight
  <2>3. AccountsInv'
    BY <2>1, <2>2 DEF AccountsInv, AccountsTypeOK, RowsAreRight, LoginsAreRight, ResetEndsSessions
  <2>4. QED
    BY <1>1, <2>1, <2>3
<1>13. QED
  BY <1>2, <1>3, <1>4, <1>5, <1>6, <1>7, <1>8, <1>9, <1>10, <1>11, <1>12 DEF AccountsNext

\* The accounts: the last active admin stays, unless calls overlapped.
THEOREM AdminsStay == AccountsSpec => [](AccountsTypeOK /\ ResetEndsSessions) /\ LastAdminKept
<1>1. AccountsInv /\ [AccountsNext]_accountVars =>
        AccountsInv' /\ (ActiveAdmins # {} => (ActiveAdmins' # {} \/ RemovalWasOvertaken))
  BY AccountsStep
<1>2. AccountsInv => AccountsTypeOK /\ ResetEndsSessions
  BY DEF AccountsInv
<1>3. QED
  BY AccountsStart, <1>1, <1>2, PTL DEF AccountsSpec, LastAdminKept

-----------------------------------------------------------------------------
(***************************************************************************)
(* The vault.  A call that no new row of its slot came after has read the  *)
(* only row that can be current.                                           *)
(***************************************************************************)
ReadsAreRight ==
  \A k \in Keepers : keep[k].pc = "ready" /\ ~keep[k].late =>
    \A n \in CurrentRows(keep[k].slot) : n = keep[k].row

VaultInv == VaultTypeOK /\ OneCurrent /\ ReadsAreRight

LEMMA VaultStart == VaultInit => VaultInv
<1> SUFFICES ASSUME VaultInit PROVE VaultInv
  OBVIOUS
<1>1. NoKeep \in Keep
  BY VaultAssumption DEF NoKeep, Keep
<1>2. VaultTypeOK
  BY <1>1, VaultAssumption DEF VaultInit, VaultTypeOK
<1>3. OneCurrent /\ ReadsAreRight
  BY DEF VaultInit, OneCurrent, ReadsAreRight, NoKeep
<1>4. QED
  BY <1>2, <1>3 DEF VaultInv

\* Retiring a row leaves the others as they are.
LEMMA RetiredRows ==
  ASSUME VaultTypeOK, NEW r
  PROVE  /\ Retired(r) \in Seq(Cred) /\ Len(Retired(r)) = Len(cred)
         /\ DOMAIN Retired(r) = DOMAIN cred
         /\ \A n \in DOMAIN cred : /\ Retired(r)[n].slot = cred[n].slot
                                   /\ Retired(r)[n].current <=> cred[n].current /\ n # r
<1>1. cred \in Seq(Cred) /\ Len(cred) \in Nat /\ DOMAIN cred = 1..Len(cred)
  BY DEF VaultTypeOK
<1>2. ASSUME NEW n \in 1..Len(cred)
      PROVE  /\ [cred[n] EXCEPT !.current = @ /\ n # r] \in Cred
             /\ [cred[n] EXCEPT !.current = @ /\ n # r].slot = cred[n].slot
             /\ [cred[n] EXCEPT !.current = @ /\ n # r].current <=> cred[n].current /\ n # r
  <2>1. cred[n] \in Cred
    BY <1>1
  <2>2. (cred[n].current /\ n # r) \in BOOLEAN
    OBVIOUS
  <2>3. QED
    BY <2>1, <2>2 DEF Cred
<1>3. Retired(r) = [n \in 1..Len(cred) |-> [cred[n] EXCEPT !.current = @ /\ n # r]]
  BY <1>1 DEF Retired
<1>4. Retired(r) \in Seq(Cred) /\ Len(Retired(r)) = Len(cred) /\ DOMAIN Retired(r) = DOMAIN cred
  BY <1>1, <1>2, <1>3
<1>5. QED
  BY <1>1, <1>2, <1>3, <1>4

\* Rows that are only retired: nobody's read is worse for it.
LEMMA RetiringKeeps ==
  ASSUME VaultInv, NEW r, cred' = Retired(r), keep' \in [Keepers -> Keep],
         \A k \in Keepers : keep'[k] = keep[k] \/ keep'[k] = NoKeep
  PROVE  VaultInv'
<1>1. VaultTypeOK /\ OneCurrent /\ ReadsAreRight
  BY DEF VaultInv
<1>2. /\ cred' \in Seq(Cred) /\ Len(cred') = Len(cred) /\ DOMAIN cred' = DOMAIN cred
      /\ \A n \in DOMAIN cred : /\ cred'[n].slot = cred[n].slot
                                /\ cred'[n].current => cred[n].current
  BY <1>1, RetiredRows
<1>3. VaultTypeOK'
  BY <1>1, <1>2 DEF VaultTypeOK
<1>4. OneCurrent'
  BY <1>1, <1>2 DEF OneCurrent
<1>5. NoKeep.pc = "idle"
  BY DEF NoKeep
<1>6. ReadsAreRight'
  BY <1>1, <1>2, <1>5 DEF ReadsAreRight, CurrentRows
<1>7. QED
  BY <1>3, <1>4, <1>6 DEF VaultInv

LEMMA VaultStep ==
  ASSUME VaultInv, [VaultNext]_vaultVars
  PROVE  /\ VaultInv'
         /\ \A k \in Keepers : EndsOf(k) =>
              /\ keep[k].op = "revoke" =>
                   \A n \in DOMAIN cred' : cred'[n].current => cred'[n].slot # keep[k].slot
              /\ keep[k].op = "store" =>
                   \E n \in DOMAIN cred' : /\ cred'[n].current /\ cred'[n].slot = keep[k].slot
                                           /\ n \notin DOMAIN cred
<1> DEFINE Word(k) == /\ keep[k].op = "revoke" =>
                           \A n \in DOMAIN cred' : cred'[n].current => cred'[n].slot # keep[k].slot
                      /\ keep[k].op = "store" =>
                           \E n \in DOMAIN cred' : /\ cred'[n].current /\ cred'[n].slot = keep[k].slot
                                                   /\ n \notin DOMAIN cred
           Goal == VaultInv' /\ \A k \in Keepers : EndsOf(k) => Word(k)
<1>1. VaultTypeOK /\ OneCurrent /\ ReadsAreRight
  BY DEF VaultInv
<1>2. /\ keep \in [Keepers -> Keep] /\ cred \in Seq(Cred) /\ Len(cred) \in Nat /\ Len(cred) <= MaxCreds
      /\ DOMAIN cred = 1..Len(cred)
  BY <1>1 DEF VaultTypeOK
<1>3. NoKeep \in Keep /\ NoKeep.pc = "idle"
  BY VaultAssumption DEF NoKeep, Keep
<1>4. ASSUME NEW k \in Keepers, NEW op \in {"store", "revoke", "use"}, NEW s \in Slots, Begin(k, op, s)
      PROVE  Goal
  <2>1. PICK q : q = [pc |-> "ready", op |-> op, slot |-> s, row |-> Active(s), late |-> FALSE]
    OBVIOUS
  <2>2. keep[k].pc = "idle" /\ keep' = [keep EXCEPT ![k] = q] /\ UNCHANGED cred
    BY <1>4, <2>1 DEF Begin
  <2>3. Active(s) \in 0..MaxCreds /\ \A n \in CurrentRows(s) : n = Active(s)
    <3>1. \A m, n \in CurrentRows(s) : m = n
      BY <1>1 DEF OneCurrent, CurrentRows
    <3>2. CASE CurrentRows(s) = {}
      BY <3>2, VaultAssumption DEF Active
    <3>3. CASE CurrentRows(s) # {}
      <4>1. Active(s) \in CurrentRows(s)
        BY <3>3 DEF Active
      <4>2. QED
        BY <1>2, <3>1, <4>1, VaultAssumption DEF CurrentRows
    <3>4. QED
      BY <3>2, <3>3
  <2>4. q \in Keep /\ q.slot = s /\ q.row = Active(s)
    BY <2>1, <2>3 DEF Keep
  <2>5. keep' \in [Keepers -> Keep] /\ keep'[k] = q /\ \A o \in Keepers \ {k} : keep'[o] = keep[o]
    BY <1>2, <2>2, <2>4
  <2>6. VaultTypeOK' /\ OneCurrent'
    BY <1>1, <2>2, <2>5 DEF VaultTypeOK, OneCurrent
  <2>7. ReadsAreRight'
    BY <1>1, <2>2, <2>3, <2>4, <2>5 DEF ReadsAreRight, CurrentRows
  <2>8. \A o \in Keepers : ~EndsOf(o)
    BY <2>2, <2>5 DEF EndsOf
  <2>9. QED
    BY <2>6, <2>7, <2>8 DEF VaultInv
<1>5. ASSUME NEW k \in Keepers, CommitStore(k) PROVE Goal
  <2>1. PICK q \in Keep : q = keep[k]
    BY <1>2
  <2>2. q.pc = "ready" /\ q.op = "store" /\ Len(cred) < MaxCreds
    BY <1>5, <2>1 DEF CommitStore
  <2>3. PICK rows : rows = Retired(q.row)
    OBVIOUS
  <2>4. /\ rows \in Seq(Cred) /\ Len(rows) = Len(cred) /\ DOMAIN rows = DOMAIN cred
        /\ \A n \in DOMAIN cred : /\ rows[n].slot = cred[n].slot
                                  /\ rows[n].current <=> cred[n].current /\ n # q.row
    BY <1>1, <2>3, RetiredRows
  <2>5. ~q.late => \A n \in DOMAIN cred : ~(rows[n].slot = q.slot /\ rows[n].current)
    BY <1>1, <2>1, <2>2, <2>4 DEF ReadsAreRight, CurrentRows
  <2>6. CASE \E n \in DOMAIN cred : rows[n].slot = q.slot /\ rows[n].current
    <3>1. UNCHANGED cred /\ keep' = [keep EXCEPT ![k] = NoKeep]
      BY <1>5, <2>1, <2>3, <2>6 DEF CommitStore
    <3>2. \A o \in Keepers : EndsOf(o) => o = k
      BY <1>2, <3>1 DEF EndsOf
    <3>3. ~EndsOf(k)
      BY <2>1, <2>5, <2>6 DEF EndsOf
    <3>4. keep' \in [Keepers -> Keep] /\ keep'[k] = NoKeep /\ \A o \in Keepers \ {k} : keep'[o] = keep[o]
      BY <1>2, <1>3, <3>1
    <3>5. VaultTypeOK' /\ OneCurrent'
      BY <1>1, <3>1, <3>4 DEF VaultTypeOK, OneCurrent
    <3>6. ReadsAreRight'
      BY <1>1, <1>3, <3>1, <3>4 DEF ReadsAreRight, CurrentRows
    <3>7. QED
      BY <3>2, <3>3, <3>5, <3>6 DEF VaultInv
  <2>7. CASE ~(\E n \in DOMAIN cred : rows[n].slot = q.slot /\ rows[n].current)
    <3>1. PICK new : new = [slot |-> q.slot, current |-> TRUE]
      OBVIOUS
    <3>2. /\ cred' = Append(rows, new)
          /\ keep' = [j \in Keepers |-> IF j = k THEN NoKeep
                ELSE [keep[j] EXCEPT !.late = @ \/ (keep[j].pc = "ready" /\ keep[j].slot = q.slot)]]
      BY <1>5, <2>1, <2>3, <2>7, <3>1 DEF CommitStore
    <3>3. new \in Cred /\ new.slot = q.slot /\ new.current
      BY <3>1 DEF Cred, Keep
    <3>4. /\ cred' \in Seq(Cred) /\ Len(cred') = Len(cred) + 1 /\ DOMAIN cred' = 1..(Len(cred) + 1)
          /\ cred'[Len(cred) + 1] = new
          /\ \A n \in DOMAIN cred : cred'[n] = rows[n]
      BY <1>2, <2>4, <3>2, <3>3
    <3>5. ASSUME NEW o \in Keepers, o # k
          PROVE  /\ keep'[o] \in Keep /\ keep'[o].pc = keep[o].pc /\ keep'[o].slot = keep[o].slot
                 /\ keep'[o].row = keep[o].row
                 /\ keep'[o].late <=> keep[o].late \/ (keep[o].pc = "ready" /\ keep[o].slot = q.slot)
      <4>1. keep[o] \in Keep
        BY <1>2
      <4>2. (keep[o].late \/ (keep[o].pc = "ready" /\ keep[o].slot = q.slot)) \in BOOLEAN
        OBVIOUS
      <4>3. keep'[o] = [keep[o] EXCEPT !.late = @ \/ (keep[o].pc = "ready" /\ keep[o].slot = q.slot)]
        BY <3>2, <3>5
      <4>4. QED
        BY <4>1, <4>2, <4>3 DEF Keep
    <3>6. keep'[k] = NoKeep /\ keep' \in [Keepers -> Keep]
      BY <1>3, <3>2, <3>5
    <3>7. VaultTypeOK'
      BY <1>2, <2>2, <3>4, <3>6, VaultAssumption DEF VaultTypeOK
    <3>8. OneCurrent'
      BY <1>1, <1>2, <2>4, <2>7, <3>3, <3>4 DEF OneCurrent
    <3>9. ReadsAreRight'
      <4> SUFFICES ASSUME NEW o \in Keepers, keep'[o].pc = "ready", ~keep'[o].late,
                          NEW n \in DOMAIN cred', cred'[n].slot = keep'[o].slot, cred'[n].current
                   PROVE  n = keep'[o].row
        BY DEF ReadsAreRight, CurrentRows
      <4>1. o # k
        BY <1>3, <3>6
      <4>2. ~keep[o].late /\ keep[o].pc = "ready" /\ keep[o].slot # q.slot
        BY <3>5, <4>1
      <4>3. n \in DOMAIN cred
        BY <1>2, <3>3, <3>4, <3>5, <4>1, <4>2
      <4>4. cred[n].slot = keep[o].slot /\ cred[n].current
        BY <2>4, <3>4, <3>5, <4>1, <4>3
      <4>5. QED
        BY <1>1, <3>5, <4>1, <4>2, <4>3, <4>4 DEF ReadsAreRight, CurrentRows
    <3>10. \A o \in Keepers : EndsOf(o) => o = k
      BY <3>5 DEF EndsOf
    <3>11. Word(k)
      <4>1. Len(cred) + 1 \in DOMAIN cred' /\ Len(cred) + 1 \notin DOMAIN cred
        BY <1>2, <3>4
      <4>2. QED
        BY <2>1, <2>2, <3>3, <3>4, <4>1
    <3>12. QED
      BY <3>7, <3>8, <3>9, <3>10, <3>11 DEF VaultInv
  <2>8. QED
    BY <2>6, <2>7
<1>6. ASSUME NEW k \in Keepers, CommitRevoke(k) PROVE Goal
  <2>1. /\ keep[k].pc = "ready" /\ keep[k].op = "revoke"
        /\ cred' = Retired(keep[k].row) /\ keep' = [keep EXCEPT ![k] = NoKeep]
    BY <1>6 DEF CommitRevoke
  <2>2. keep' \in [Keepers -> Keep] /\ \A o \in Keepers : keep'[o] = keep[o] \/ keep'[o] = NoKeep
    BY <1>2, <1>3, <2>1
  <2>3. VaultInv'
    BY <2>1, <2>2, RetiringKeeps
  <2>4. \A o \in Keepers : EndsOf(o) => o = k
    BY <1>2, <2>1 DEF EndsOf
  <2>5. EndsOf(k) => Word(k)
    <3>1. /\ DOMAIN cred' = DOMAIN cred
          /\ \A n \in DOMAIN cred : /\ cred'[n].slot = cred[n].slot
                                    /\ cred'[n].current => cred[n].current /\ n # keep[k].row
      BY <1>1, <2>1, RetiredRows
    <3>2. EndsOf(k) => \A n \in CurrentRows(keep[k].slot) : n = keep[k].row
      BY <1>1, <2>1 DEF EndsOf, ReadsAreRight
    <3>3. QED
      BY <2>1, <3>1, <3>2 DEF CurrentRows
  <2>6. QED
    BY <2>3, <2>4, <2>5
<1>7. ASSUME NEW k \in Keepers, CommitUse(k) PROVE Goal
  <2>1. keep[k].op = "use" /\ UNCHANGED cred /\ keep' = [keep EXCEPT ![k] = NoKeep]
    BY <1>7 DEF CommitUse
  <2>2. keep' \in [Keepers -> Keep] /\ keep'[k] = NoKeep /\ \A o \in Keepers \ {k} : keep'[o] = keep[o]
    BY <1>2, <1>3, <2>1
  <2>3. VaultTypeOK' /\ OneCurrent'
    BY <1>1, <2>1, <2>2 DEF VaultTypeOK, OneCurrent
  <2>4. ReadsAreRight'
    BY <1>1, <1>3, <2>1, <2>2 DEF ReadsAreRight, CurrentRows
  <2>5. \A o \in Keepers : EndsOf(o) => Word(o)
    BY <2>1, <2>2 DEF EndsOf
  <2>6. QED
    BY <2>3, <2>4, <2>5 DEF VaultInv
<1>8. ASSUME NEW n \in DOMAIN cred, AdminRevoke(n) PROVE Goal
  <2>1. cred' = Retired(n) /\ UNCHANGED keep
    BY <1>8 DEF AdminRevoke
  <2>2. VaultInv'
    BY <1>2, <2>1, RetiringKeeps
  <2>3. \A o \in Keepers : ~EndsOf(o)
    BY <2>1 DEF EndsOf
  <2>4. QED
    BY <2>2, <2>3
<1>9. CASE UNCHANGED vaultVars
  <2>1. UNCHANGED <<cred, keep>>
    BY <1>9 DEF vaultVars
  <2>2. VaultInv'
    BY <1>1, <2>1 DEF VaultInv, VaultTypeOK, OneCurrent, ReadsAreRight, CurrentRows
  <2>3. \A o \in Keepers : ~EndsOf(o)
    BY <2>1 DEF EndsOf
  <2>4. QED
    BY <2>2, <2>3
<1>10. QED
  BY <1>4, <1>5, <1>6, <1>7, <1>8, <1>9 DEF VaultNext

\* The vault: a slot has one current credential, and what a user was told of one is so, unless
\* calls overlapped.
THEOREM VaultIsTrue == VaultSpec => [](VaultTypeOK /\ OneCurrent) /\ VaultKeepsWord
<1>1. ASSUME VaultInv, [VaultNext]_vaultVars
      PROVE  /\ VaultInv'
             /\ \A k \in Keepers : EndsOf(k) =>
                  /\ keep[k].op = "revoke" => \A n \in DOMAIN cred' : cred'[n].current => cred'[n].slot # keep[k].slot
                  /\ keep[k].op = "store" => \E n \in DOMAIN cred' : cred'[n].current /\ cred'[n].slot = keep[k].slot
                                                                    /\ n \notin DOMAIN cred
  BY <1>1, VaultStep
<1>2. VaultInv => VaultTypeOK /\ OneCurrent
  BY DEF VaultInv
<1>3. QED
  BY VaultStart, <1>1, <1>2, PTL DEF VaultSpec, VaultKeepsWord

\* Both together: who is let in stays who may be let in.
THEOREM IdentityKept == AccountsSpec /\ VaultSpec => IdentityStepsKept
BY AdminsStay, VaultIsTrue, PTL DEF IdentityStepsKept

-----------------------------------------------------------------------------
(***************************************************************************)
(* The surfaces.  What is claimed of a request follows from what holds of  *)
(* every form: its answers are so, it catches what it calls, what no gate  *)
(* guards is called by whom its page lets in, and it wakes whom its calls  *)
(* queue for.  The invariant carries that along the calls of a request,    *)
(* while the role of its visitor changes: the account that is loaded first *)
(* is the account of the whole request.                                    *)
(***************************************************************************)

\* What a gate of a service guards, and whom a request can take its visitor for.
Gated == AdminOps \union StaffOps \union OwnOps
Visitors == Standings \union {"agent", "unread"}

\* Whom a form that runs can see: in whose name it acts when that is no visitor, whom its guard
\* lets in, or the owner of a token, who is unknown until a gate loads the account.
MayAsk(form, who) ==
  /\ form.as # "visitor" => who = form.as
  /\ form.as = "visitor" /\ form.by = "web" => who \in form.who
  /\ form.as = "visitor" /\ form.by # "web" =>
       who = "unread" \/ (who \in Standings /\ \E i \in DOMAIN form.steps : form.steps[i].op \in Gated)

\* The three that the properties except: the note of a report whose order another touched
\* meanwhile, and what no gate and no page governs.
IsLateNote(form, i) == form = ReportSubmit /\ i = 2
UngovernedForms == {UserCreate, UserSetAssignee, RejectTool}

\* What it answers to an exception is so.
AnswerIsRight(form, i) ==
  LET s == form.steps[i] IN
  /\ s.wakes \subseteq {"notice", "comment"}
  /\ s.told \in {"refused", "quiet", "partly"}
  /\ s.told # "partly" => s.op # "add_attachment" /\ (i = 1 \/ s.caught = {})
  /\ s.told = "partly" => i > 1 /\ ~form.steps[1].may

\* It catches what the call raises.
CatchIsRight(form, i) ==
  LET s == form.steps[i] IN
  /\ \A e \in Refusals(s.op) : Covers(s.caught, e) \/ IsLateNote(form, i)
  /\ \A who \in Visitors : MayAsk(form, who) /\ MayBeDenied(s.op, who) =>
       \/ Covers(s.caught, "AuthorizationError") \/ IsLateNote(form, i)
       \/ (form = InventoryProposeUpdate /\ who = "operator")

\* What no gate guards is asked for by whom the page lets in.
GuardIsRight(form, i) ==
  LET s == form.steps[i] IN
  \A who \in Visitors : MayAsk(form, who) =>
       /\ s.op \in Gated \union SelfOps \union {"add_attachment"} \/ who # "operator"
       /\ s.op \in Gated \union SelfOps \union {"reject"} \/ who # "unread"
       /\ s.op \in PageOps => who = "admin" \/ form \in UngovernedForms

\* What the call queues is sent with the answer.
NoticeIsRight(form, i) ==
  LET s == form.steps[i] IN
  \/ Queues(s.op) \subseteq s.wakes
  \/ form = AdminConfirmProposal \/ form.by \in {"mcp", "cli", "box"}
  \/ (form = AddWorkOrderNote /\ i = 1)

CallIsRight(form, i) ==
  AnswerIsRight(form, i) /\ CatchIsRight(form, i) /\ GuardIsRight(form, i) /\ NoticeIsRight(form, i)

FormIsRight(form) ==
  /\ form.by \in {"web", "mcp", "cli", "box", "api"} /\ form.who \subseteq Standings
  /\ form.as \in {"visitor", "agent", "none"}
  /\ Len(form.steps) \in Nat /\ DOMAIN form.steps = 1 .. Len(form.steps)
  /\ \A i \in DOMAIN form.steps : CallIsRight(form, i)

-----------------------------------------------------------------------------
(***************************************************************************)
(* The forms, one by one: what each operation refuses, what is asked of a  *)
(* form of each kind, and that the forms are as is asked.                  *)
(***************************************************************************)

\* What each operation refuses.
LEMMA RefusalIsListed ==
  ASSUME NEW op, NEW e \in Refusals(op)
  PROVE  \/ e = "WorkOrderError"
              /\ op \in (StaffOps \ DirectOps) \union OwnOps \union HoldReasonOps
                          \union {"void_work_order", "confirm", "reject", "report_onbox", "cancel_onbox"}
         \/ e = "InventoryError"
              /\ op \in DirectOps \union BinOps \union {"create_item", "set_applicable_subtypes",
                                                        "update_item", "adjust_on_hand", "confirm"}
         \/ e = "ArithmeticError"
              /\ op \in {"create_item", "update_item", "adjust_on_hand", "add_task_part",
                         "update_asset_issue_quantity", "issue_to_asset"}
         \/ e = "ValueError"
              /\ op \in {"create_item", "update_item", "create_pm_schedule", "update_pm_schedule"}
         \/ e = "AssetError" /\ op \in AssetOps \union LinkOps
         \/ e = "ContactsError" /\ op \in ContactOps
         \/ e = "AttachmentError"
              /\ op \in {"add_attachment", "soft_delete_attachment", "restore_attachment"}
         \/ e = "TaskError" /\ op \in TaskOps
         \/ e = "PmScheduleError" /\ op \in ScheduleOps
         \/ e = "NotifyError" /\ op \in RecipientOps
         \/ e = "FeedbackError" /\ op \in {"create_feedback", "mark_resolved"}
         \/ e = "ProcurementError" /\ op = "create_rfq"
         \/ e = "IdentityError"
              /\ op \in AccountOps \union {"create_user", "change_password", "set_assignee_of", "mint",
                                           "revoke_tokens"}
         \/ e = "AuthenticationError" /\ op \in {"authenticate", "change_password"}
         \/ e = "VaultError" /\ op = "store_credential"
         \/ e = "TelegramBridgeError" /\ op = "create_link_code"
         \/ e = "OnboxVerificationError" /\ op \in {"report_onbox", "cancel_onbox"}
         \/ e = "JiraSyncError" /\ op = "forward"
<1>1. /\ e \in DOMAIN Raising /\ op \in Raising[e]
  BY DEF Refusals
<1>2. e \in {"WorkOrderError", "InventoryError", "ArithmeticError", "ValueError", "AssetError",
             "ContactsError", "AttachmentError", "TaskError", "PmScheduleError", "NotifyError",
             "FeedbackError", "ProcurementError", "IdentityError", "AuthenticationError", "VaultError",
             "TelegramBridgeError", "OnboxVerificationError", "JiraSyncError"}
  BY <1>1 DEF Raising
<1>3. QED BY <1>1, <1>2 DEF Raising

LEMMA OrderRefusals ==
  ASSUME NEW op \in (StaffOps \ DirectOps) \union OwnOps \union HoldReasonOps \union {"void_work_order", "reject"}
  PROVE  Refusals(op) \subseteq {"WorkOrderError"}
BY RefusalIsListed DEF StaffOps, OwnOps, HoldReasonOps, PartOps, DirectOps, BinOps, AssetOps, LinkOps,
   ContactOps, TaskOps, ScheduleOps, RecipientOps, AccountOps

\* Class by class.  No operation raises the exception of the gates itself.
LEMMA RefusalsByClass ==
  ASSUME NEW op
  PROVE  /\ op \in {"add_attachment", "soft_delete_attachment", "restore_attachment"} =>
              Refusals(op) \subseteq {"AttachmentError"}
         /\ op \in DirectOps => Refusals(op) \subseteq {"InventoryError", "ArithmeticError"}
         /\ op \in BinOps \union {"set_applicable_subtypes"} => Refusals(op) \subseteq {"InventoryError"}
         /\ op \in {"create_item", "update_item", "adjust_on_hand"} =>
              Refusals(op) \subseteq {"InventoryError", "ArithmeticError", "ValueError"}
         /\ op \in AssetOps \union LinkOps => Refusals(op) \subseteq {"AssetError"}
         /\ op \in ContactOps => Refusals(op) \subseteq {"ContactsError"}
         /\ op \in TaskOps => Refusals(op) \subseteq {"TaskError", "ArithmeticError"}
         /\ op \in TaskOps \ {"add_task_part"} => Refusals(op) \subseteq {"TaskError"}
         /\ op \in ScheduleOps => Refusals(op) \subseteq {"PmScheduleError", "ValueError"}
         /\ op \in RecipientOps => Refusals(op) \subseteq {"NotifyError"}
         /\ op \in {"create_feedback", "mark_resolved"} => Refusals(op) \subseteq {"FeedbackError"}
         /\ op \in AccountOps \union {"create_user", "set_assignee_of"} =>
              Refusals(op) \subseteq {"IdentityError"}
BY RefusalIsListed DEF StaffOps, OwnOps, HoldReasonOps, PartOps, DirectOps, BinOps, AssetOps, LinkOps,
   ContactOps, TaskOps, ScheduleOps, RecipientOps, AccountOps

LEMMA RefusalsOfEach ==
  /\ Refusals("create_rfq") \subseteq {"ProcurementError"}
  /\ Refusals("confirm") \subseteq {"WorkOrderError", "InventoryError"}
  /\ Refusals("authenticate") \subseteq {"AuthenticationError"}
  /\ Refusals("change_password") \subseteq {"IdentityError", "AuthenticationError"}
  /\ Refusals("store_credential") \subseteq {"VaultError"}
  /\ Refusals("create_link_code") \subseteq {"TelegramBridgeError"}
  /\ Refusals("forward") \subseteq {"JiraSyncError"}
  /\ \A op \in {"report_onbox", "cancel_onbox"} :
       Refusals(op) \subseteq {"OnboxVerificationError", "WorkOrderError"}
  /\ \A op \in {"logout", "set_locale", "set_own_assignee", "revoke_credential", "unlink", "admin_revoke",
                "soft_delete_own_photo"} : Refusals(op) = {}
BY RefusalIsListed DEF StaffOps, OwnOps, HoldReasonOps, PartOps, DirectOps, BinOps, AssetOps, LinkOps,
   ContactOps, TaskOps, ScheduleOps, RecipientOps, AccountOps

\* A form that makes one call.
LEMMA OneCall ==
  ASSUME NEW form, NEW s, form.steps = <<s>>,
         form.by \in {"web", "mcp", "cli", "box", "api"}, form.who \subseteq Standings,
         form.as \in {"visitor", "agent", "none"}, CallIsRight(form, 1)
  PROVE  FormIsRight(form)
<1>1. Len(form.steps) = 1 /\ DOMAIN form.steps = {1} OBVIOUS
<1>2. QED BY <1>1 DEF FormIsRight

LEMMA AdminIsNeverDenied == \A op : ~MayBeDenied(op, "admin")
BY DEF MayBeDenied, Passes

\* Pages of the admins: what they call governs itself or not, and all that is asked is that the
\* page catches what the call refuses.
LEMMA AdminForms ==
  ASSUME NEW op, NEW caught, NEW told \in {"refused", "quiet"},
         op # "add_attachment", \A e \in Refusals(op) : Covers(caught, e),
         NEW form, form = Page({"admin"}, <<Do(op, caught, told)>>),
         Queues(op) = {} \/ form = AdminConfirmProposal
  PROVE  FormIsRight(form)
<1>0. PICK s : s = Do(op, caught, told) OBVIOUS
<1>1. /\ form.by = "web" /\ form.who = {"admin"} /\ form.as = "visitor" /\ form.steps = <<s>>
      /\ form.steps[1] = s
  BY <1>0 DEF Page
<1>2. /\ s.op = op /\ s.caught = caught /\ s.told = told /\ s.may = FALSE
      /\ s.wakes = {}
  BY <1>0 DEF Do
<1>3. \A who : MayAsk(form, who) => who = "admin" BY <1>1 DEF MayAsk
<1>4. AnswerIsRight(form, 1) BY <1>1, <1>2 DEF AnswerIsRight
<1>5. CatchIsRight(form, 1) BY <1>1, <1>2, <1>3, AdminIsNeverDenied DEF CatchIsRight
<1>6. GuardIsRight(form, 1) BY <1>3 DEF GuardIsRight
<1>7. NoticeIsRight(form, 1) BY <1>1, <1>2 DEF NoticeIsRight
<1>8. form.who \subseteq Standings BY <1>1 DEF Standings, Roles
<1>9. CallIsRight(form, 1) BY <1>4, <1>5, <1>6, <1>7 DEF CallIsRight
<1>10. QED BY <1>1, <1>2, <1>8, <1>9, OneCall

\* Pages of others who have an account.
LEMMA OpenForms ==
  ASSUME NEW s, NEW who \in SUBSET Roles, s.op # "add_attachment", s.told \in {"refused", "quiet"},
         s.wakes \subseteq {"notice", "comment"}, \A e \in Refusals(s.op) : Covers(s.caught, e),
         NEW form, form = Page(who, <<s>>),
         Queues(s.op) \subseteq s.wakes, s.op \notin PageOps,
         s.op \in Gated \union SelfOps \/ "operator" \notin who,
         \A w \in who : MayBeDenied(s.op, w) =>
           Covers(s.caught, "AuthorizationError") \/ (form = InventoryProposeUpdate /\ w = "operator")
  PROVE  FormIsRight(form)
<1>1. /\ form.by = "web" /\ form.who = who /\ form.as = "visitor" /\ form.steps = <<s>>
      /\ form.steps[1] = s
  BY DEF Page
<1>2. \A w : MayAsk(form, w) => w \in who BY <1>1 DEF MayAsk
<1>3. AnswerIsRight(form, 1) BY <1>1 DEF AnswerIsRight
<1>4. CatchIsRight(form, 1) BY <1>1, <1>2 DEF CatchIsRight
<1>5. GuardIsRight(form, 1) BY <1>1, <1>2 DEF GuardIsRight, Roles
<1>6. NoticeIsRight(form, 1) BY <1>1 DEF NoticeIsRight
<1>7. form.who \subseteq Standings BY <1>1 DEF Standings
<1>8. CallIsRight(form, 1) BY <1>3, <1>4, <1>5, <1>6 DEF CallIsRight
<1>9. QED BY <1>1, <1>7, <1>8, OneCall

\* One that queues nothing.
LEMMA PlainForms ==
  ASSUME NEW op, NEW caught, NEW told \in {"refused", "quiet"}, NEW who \in SUBSET Roles,
         op # "add_attachment", \A e \in Refusals(op) : Covers(caught, e),
         NEW form, form = Page(who, <<Do(op, caught, told)>>), Queues(op) = {}, op \notin PageOps,
         op \in Gated \union SelfOps \/ "operator" \notin who,
         \A w \in who : MayBeDenied(op, w) =>
           Covers(caught, "AuthorizationError") \/ (form = InventoryProposeUpdate /\ w = "operator")
  PROVE  FormIsRight(form)
<1>1. PICK s : s = Do(op, caught, told) OBVIOUS
<1>2. s.op = op /\ s.caught = caught /\ s.told = told /\ s.wakes = {} BY <1>1 DEF Do
<1>3. form = Page(who, <<s>>) BY <1>1
<1>4. QED BY <1>2, <1>3, OpenForms

\* One that queues a notice and wakes its sender.
LEMMA NoticeForms ==
  ASSUME NEW op, NEW caught, NEW told \in {"refused", "quiet"}, NEW who \in SUBSET Roles,
         op # "add_attachment", \A e \in Refusals(op) : Covers(caught, e),
         NEW form, form = Page(who, <<Waking("notice", Do(op, caught, told))>>),
         Queues(op) \subseteq {"notice"}, op \in Gated \ PageOps,
         \A w \in who : MayBeDenied(op, w) => Covers(caught, "AuthorizationError")
  PROVE  FormIsRight(form)
<1>1. PICK s : s = Waking("notice", Do(op, caught, told)) OBVIOUS
<1>2. s.op = op /\ s.caught = caught /\ s.told = told /\ s.wakes = {"notice"}
  BY <1>1 DEF Do, Waking
<1>3. form = Page(who, <<s>>) BY <1>1
<1>4. QED BY <1>2, <1>3, OpenForms

\* Tools and commands answer to any exception, and wake nobody.
LEMMA ReportedForms ==
  ASSUME NEW op, NEW form, form.by \in {"mcp", "cli"}, form.who \subseteq Standings,
         form.as \in {"visitor", "agent", "none"}, form.steps = <<Try(op, Reported)>>,
         op # "add_attachment",
         op \in PageOps => form \in UngovernedForms,
         form.as = "visitor" => op \in Gated \union SelfOps \union {"reject"}
  PROVE  FormIsRight(form)
<1>1. PICK s : s = Do(op, Reported, "refused") OBVIOUS
<1>2. form.steps = <<s>> /\ form.steps[1] = s BY <1>1 DEF Try
<1>3. s.op = op /\ s.caught = {"Exception"} /\ s.told = "refused" /\ s.wakes = {}
  BY <1>1 DEF Do, Reported
<1>4. \A e : Covers(s.caught, e) BY <1>3 DEF Covers
<1>5. AnswerIsRight(form, 1) BY <1>2, <1>3 DEF AnswerIsRight
<1>6. CatchIsRight(form, 1) BY <1>2, <1>4 DEF CatchIsRight
<1>7. GuardIsRight(form, 1)
  <2>1. CASE form.as = "visitor" /\ op \in Gated \union SelfOps
    BY <1>2, <1>3, <2>1 DEF GuardIsRight
  <2>2. CASE form.as # "visitor"
    <3>1. \A who : MayAsk(form, who) => who \in {"agent", "none"} BY <2>2 DEF MayAsk
    <3>2. QED BY <1>2, <1>3, <3>1 DEF GuardIsRight
  <2>3. CASE form.as = "visitor" /\ op = "reject" /\ op \notin Gated
    <3>9. form.by # "web" OBVIOUS
    <3>1. \A who : MayAsk(form, who) => who = "unread" BY <1>2, <1>3, <2>3, <3>9 DEF MayAsk
    <3>2. QED BY <1>2, <1>3, <2>3, <3>1 DEF GuardIsRight
  <2>4. QED BY <2>1, <2>2, <2>3
<1>8. NoticeIsRight(form, 1) BY DEF NoticeIsRight
<1>9. CallIsRight(form, 1) BY <1>5, <1>6, <1>7, <1>8 DEF CallIsRight
<1>10. QED BY <1>2, <1>3, <1>9, OneCall

\* Where each operation belongs.  A page that lets an engineer in, or an operator, calls what the
\* gates or the visitor's own account govern.
LEMMA OpsBelong ==
  /\ PartOps \union {"transition", "set_assignees", "update_brief_description", "update_note", "delete_note",
                     "record_external_link", "remove_external_link", "propose", "add_note",
                     "set_confirmed_reason", "generate_pm_work_order"} \subseteq StaffOps \ DirectOps
  /\ DirectOps \subseteq StaffOps
  /\ {"set_confirmed_reason", "record_external_link", "remove_external_link", "propose", "add_note",
      "cancel_reactive_report", "open_report", "void_work_order", "transition", "confirm",
      "open_work_order", "generate_pm_work_order", "issue_part_to_work_order", "issue_to_asset"}
        \union DirectOps \subseteq Gated
  /\ (StaffOps \union OwnOps \union SelfOps) \intersect (PageOps \union {"add_attachment"}) = {}
  /\ (StaffOps \union OwnOps) \intersect AdminOps = {} /\ StaffOps \intersect OwnOps = {}
BY DEF AdminOps, StaffOps, OwnOps, SelfOps, PageOps, TaskOps, ScheduleOps, AccountOps, ContactOps,
     RecipientOps, AssetOps, LinkOps, PartOps, DirectOps, HoldReasonOps, BinOps, Gated

LEMMA SelfIsUngated ==
  /\ SelfOps \intersect Gated = {}
  /\ \A op \in SelfOps : Queues(op) = {} /\ \A w : ~MayBeDenied(op, w)
<1>1. SelfOps \intersect Gated = {}
  BY DEF AdminOps, StaffOps, OwnOps, SelfOps, AccountOps, ContactOps,
     RecipientOps, AssetOps, PartOps, DirectOps, HoldReasonOps, BinOps, Gated
<1>2. \A op \in SelfOps : Queues(op) = {} BY DEF SelfOps, Queues
<1>3. QED BY <1>1, <1>2 DEF MayBeDenied, Passes, Gated

LEMMA QueuesOnly ==
  \A op : Queues(op) # {} => op \in {"open_report", "open_work_order", "generate_pm_work_order",
                                     "transition", "confirm", "report_onbox", "add_note"}
BY DEF Queues


\* The forms of the orders.
LEMMA OrderErrorsCatch ==
  \A op \in (StaffOps \ DirectOps) \union OwnOps \union HoldReasonOps \union {"void_work_order", "reject"} :
    \A caught : "WorkOrderError" \in caught => \A e \in Refusals(op) : Covers(caught, e)
BY OrderRefusals DEF Covers

LEMMA PlainOrderForms ==
  ASSUME NEW op \in StaffOps \ DirectOps, NEW who \in {Staff, Roles}, NEW caught,
         OrderErrors \subseteq caught, NEW form, form = Page(who, <<Try(op, caught)>>), Queues(op) = {}
  PROVE  FormIsRight(form)
<1>1. /\ who \in SUBSET Roles /\ form = Page(who, <<Do(op, caught, "refused")>>)
      /\ Covers(caught, "AuthorizationError")
  BY DEF Staff, Roles, Try, OrderErrors, Covers
<1>2. \A e \in Refusals(op) : Covers(caught, e) BY OrderErrorsCatch DEF OrderErrors
<1>3. op \notin PageOps /\ op # "add_attachment" /\ op \in Gated BY OpsBelong DEF Gated
<1>4. QED BY <1>1, <1>2, <1>3, PlainForms

LEMMA OrderFormsRight ==
  /\ FormIsRight(DeleteWorkOrderNote) /\ FormIsRight(WorkOrderAssign)
  /\ FormIsRight(WorkOrderEditBrief) /\ FormIsRight(WorkOrderSetConfirmedReason)
  /\ FormIsRight(WorkOrderAddLink) /\ FormIsRight(WorkOrderRemoveLink)
  /\ FormIsRight(WorkOrderRequestVoid) /\ \A form \in WorkOrderParts : FormIsRight(form)
<1>1. \A op \in PartOps \union {"delete_note", "set_assignees", "update_brief_description",
                              "set_confirmed_reason", "record_external_link", "remove_external_link",
                              "propose"} :
        op \in StaffOps \ DirectOps /\ Queues(op) = {}
  BY OpsBelong, QueuesOnly DEF PartOps
<1>2. ASSUME NEW op \in {"delete_note", "set_assignees", "update_brief_description",
                         "set_confirmed_reason", "record_external_link", "remove_external_link", "propose"},
             NEW who \in {Staff, Roles}
      PROVE  FormIsRight(Page(who, <<Try(op, OrderErrors)>>))
  BY <1>1, PlainOrderForms
<1>3. ASSUME NEW form \in WorkOrderParts PROVE FormIsRight(form)
  <2>1. PICK op \in PartOps : form = Page(Staff, <<Try(op, OrderErrors \union NumberErrors)>>)
    BY DEF WorkOrderParts
  <2>2. OrderErrors \subseteq OrderErrors \union NumberErrors OBVIOUS
  <2>3. QED BY <1>1, <2>1, <2>2, PlainOrderForms
<1>4. QED
  BY <1>2, <1>3 DEF DeleteWorkOrderNote, WorkOrderAssign, WorkOrderEditBrief,
     WorkOrderSetConfirmedReason, WorkOrderAddLink, WorkOrderRemoveLink, WorkOrderRequestVoid

LEMMA OtherOrderFormsRight ==
  /\ FormIsRight(WorkOrderTransition) /\ FormIsRight(PmGenerate) /\ FormIsRight(WorkOrderCancel)
  /\ FormIsRight(WorkOrderVoid) /\ FormIsRight(WorkOrderForwardSubmit)
  /\ FormIsRight(InventoryProposeUpdate) /\ FormIsRight(DeleteNotePhoto)
<1>1. Staff \in SUBSET Roles /\ Covers(OrderErrors, "AuthorizationError")
        /\ Covers(OrderErrors \union NumberErrors, "AuthorizationError")
  BY DEF Staff, Roles, OrderErrors, Covers
<1>2. {"transition", "generate_pm_work_order", "cancel_reactive_report", "propose"} \subseteq Gated \ (PageOps \union {"add_attachment"})
  BY OpsBelong DEF Gated, OwnOps
<1>3. \A op \in {"transition", "generate_pm_work_order", "cancel_reactive_report", "void_work_order", "propose"} :
        \A caught \in {OrderErrors, OrderErrors \union NumberErrors, {"WorkOrderError"}} :
          \A e \in Refusals(op) : Covers(caught, e)
  BY OrderErrorsCatch, OpsBelong DEF OwnOps, OrderErrors
<1>4. FormIsRight(WorkOrderTransition)
  <2>1. WorkOrderTransition = Page(Staff, <<Waking("notice", Do("transition", OrderErrors \union NumberErrors, "refused"))>>)
    BY DEF WorkOrderTransition, Try
  <2>2. Queues("transition") = {"notice"} BY DEF Queues
  <2>3. QED BY <1>1, <1>2, <1>3, <2>1, <2>2, NoticeForms
<1>5. FormIsRight(PmGenerate)
  <2>1. Queues("generate_pm_work_order") = {"notice"} BY DEF Queues
  <2>2. QED BY <1>1, <1>2, <1>3, <2>1, NoticeForms DEF PmGenerate
<1>6. FormIsRight(WorkOrderCancel)
  <2>1. WorkOrderCancel = Page(Roles, <<Do("cancel_reactive_report", OrderErrors, "refused")>>)
    BY DEF WorkOrderCancel, Try
  <2>2. Queues("cancel_reactive_report") = {} BY DEF Queues
  <2>3. QED BY <1>1, <1>2, <1>3, <2>1, <2>2, PlainForms
<1>7. FormIsRight(WorkOrderVoid)
  <2>1. WorkOrderVoid = Page({"admin"}, <<Do("void_work_order", OrderErrors, "refused")>>)
    BY DEF WorkOrderVoid, Try
  <2>2. Queues("void_work_order") = {} BY DEF Queues
  <2>3. QED BY <1>3, <2>1, <2>2, AdminForms
<1>8. FormIsRight(WorkOrderForwardSubmit)
  <2>1. WorkOrderForwardSubmit = Page(Staff, <<Do("forward", {"JiraSyncError", "VaultError"}, "refused")>>)
    BY DEF WorkOrderForwardSubmit, Try
  <2>2. Queues("forward") = {} /\ "operator" \notin Staff BY DEF Queues, Staff
  <2>3. "forward" \notin AdminOps \union StaffOps \union OwnOps \union PageOps
    BY DEF AdminOps, StaffOps, OwnOps, PageOps, TaskOps, ScheduleOps, AccountOps, ContactOps,
           RecipientOps, AssetOps, LinkOps, PartOps, DirectOps, HoldReasonOps, BinOps
  <2>4. \A w : ~MayBeDenied("forward", w) BY <2>3 DEF MayBeDenied, Passes
  <2>5. \A e \in Refusals("forward") : Covers({"JiraSyncError", "VaultError"}, e)
    BY RefusalsOfEach DEF Covers
  <2>6. QED BY <1>1, <2>1, <2>2, <2>3, <2>4, <2>5, PlainForms
<1>9. FormIsRight(InventoryProposeUpdate)
  <2>1. InventoryProposeUpdate = Page(Roles, <<Do("propose", {"WorkOrderError"}, "refused")>>)
    BY DEF InventoryProposeUpdate, Try
  <2>2. Queues("propose") = {} BY DEF Queues
  <2>3. \A w \in Roles : MayBeDenied("propose", w) => w = "operator"
    BY OpsBelong DEF MayBeDenied, Passes
  <2>4. QED BY <1>2, <1>3, <2>1, <2>2, <2>3, PlainForms
<1>10. FormIsRight(DeleteNotePhoto)
  <2>1. "soft_delete_own_photo" \notin AdminOps \union StaffOps \union OwnOps \union PageOps
    BY DEF AdminOps, StaffOps, OwnOps, PageOps, TaskOps, ScheduleOps, AccountOps, ContactOps,
           RecipientOps, AssetOps, LinkOps, PartOps, DirectOps, HoldReasonOps, BinOps
  <2>2. \A w : ~MayBeDenied("soft_delete_own_photo", w) BY <2>1 DEF MayBeDenied, Passes
  <2>3. Queues("soft_delete_own_photo") = {} /\ "operator" \notin Staff BY DEF Queues, Staff
  <2>4. QED BY <1>1, <2>1, <2>2, <2>3, RefusalsOfEach, PlainForms DEF DeleteNotePhoto
<1>11. QED BY <1>4, <1>5, <1>6, <1>7, <1>8, <1>9, <1>10

\* The forms of the visitor's own account.
LEMMA SelfFormIsRight ==
  ASSUME NEW op \in SelfOps, NEW caught, NEW told \in {"refused", "quiet"},
         \A e \in Refusals(op) : Covers(caught, e)
  PROVE  FormIsRight(Page(Roles, <<Do(op, caught, told)>>))
<1>1. /\ op # "add_attachment" /\ op \notin PageOps /\ Queues(op) = {}
      /\ \A w : ~MayBeDenied(op, w)
  BY OpsBelong, SelfIsUngated
<1>2. Roles \in SUBSET Roles OBVIOUS
<1>3. QED BY <1>1, <1>2, PlainForms

LEMMA SelfFormsRight ==
  /\ FormIsRight(SetLocale) /\ FormIsRight(SettingsStorePat) /\ FormIsRight(SettingsRevokePat)
  /\ FormIsRight(SettingsChangePassword) /\ FormIsRight(SettingsSetAssignee)
  /\ FormIsRight(HelpFeedback) /\ \A form \in SettingsTelegram : FormIsRight(form)
<1>1. {"set_locale", "store_credential", "revoke_credential", "change_password", "set_own_assignee",
       "create_feedback", "create_link_code", "unlink"} \subseteq SelfOps
  BY DEF SelfOps
<1>2. /\ FormIsRight(SetLocale) /\ FormIsRight(SettingsRevokePat) /\ FormIsRight(SettingsSetAssignee)
      /\ FormIsRight(Page(Roles, <<Try("unlink", {})>>))
  BY <1>1, SelfFormIsRight, RefusalsOfEach DEF SetLocale, SettingsRevokePat, SettingsSetAssignee, Try
<1>3. FormIsRight(SettingsStorePat)
  <2>1. \A e \in Refusals("store_credential") : Covers({"VaultError"}, e)
    BY RefusalsOfEach DEF Covers
  <2>2. QED BY <1>1, <2>1, SelfFormIsRight DEF SettingsStorePat, Try
<1>4. FormIsRight(SettingsChangePassword)
  <2>1. \A e \in Refusals("change_password") : Covers({"AuthenticationError", "IdentityError"}, e)
    BY RefusalsOfEach DEF Covers
  <2>2. QED BY <1>1, <2>1, SelfFormIsRight DEF SettingsChangePassword, Try
<1>5. FormIsRight(HelpFeedback)
  <2>1. \A e \in Refusals("create_feedback") : Covers({"FeedbackError"}, e)
    BY RefusalsByClass DEF Covers
  <2>2. QED BY <1>1, <2>1, SelfFormIsRight DEF HelpFeedback, Try
<1>6. FormIsRight(Page(Roles, <<Do("create_link_code", {"TelegramBridgeError"}, "quiet")>>))
  <2>1. \A e \in Refusals("create_link_code") : Covers({"TelegramBridgeError"}, e)
    BY RefusalsOfEach DEF Covers
  <2>2. QED BY <1>1, <2>1, SelfFormIsRight
<1>7. QED BY <1>2, <1>3, <1>4, <1>5, <1>6 DEF SettingsTelegram

\* The pages of the admins.
LEMMA AdminTryIsRight ==
  ASSUME NEW op, NEW caught, NEW told \in {"refused", "quiet"}, \A e \in Refusals(op) : Covers(caught, e),
         op \notin {"open_report", "open_work_order", "generate_pm_work_order", "transition", "confirm",
                    "report_onbox", "add_note", "add_attachment"}
  PROVE  FormIsRight(Page({"admin"}, <<Do(op, caught, told)>>))
<1>1. Queues(op) = {} BY QueuesOnly
<1>2. QED BY <1>1, AdminForms

LEMMA AdminOpsQueueNothing ==
  (TaskOps \union ScheduleOps \union AccountOps \union ContactOps \union RecipientOps \union AssetOps
     \union LinkOps \union HoldReasonOps \union BinOps)
   \intersect {"open_report", "open_work_order", "generate_pm_work_order", "transition", "confirm",
               "report_onbox", "add_note", "add_attachment"} = {}
BY DEF TaskOps, ScheduleOps, AccountOps, ContactOps, RecipientOps, AssetOps, LinkOps, HoldReasonOps, BinOps

LEMMA StoreFormsRight ==
  /\ FormIsRight(InventoryAddBin) /\ FormIsRight(InventoryRfq) /\ FormIsRight(InventoryUpdate)
  /\ FormIsRight(InventoryAdjust) /\ FormIsRight(InventorySetSubtypes)
<1>1. ASSUME NEW op \in {"add_storage_bin", "set_applicable_subtypes"}, NEW e \in Refusals(op)
      PROVE  Covers(ItemErrors, e)
  BY <1>1, RefusalsByClass DEF Covers, ItemErrors, BinOps
<1>2. ASSUME NEW op \in {"update_item", "adjust_on_hand"}, NEW e \in Refusals(op)
      PROVE  Covers({"InventoryError"} \union NumberErrors, e)
  BY <1>2, RefusalsByClass DEF Covers, NumberErrors
<1>3. \A e \in Refusals("create_rfq") : Covers({"ProcurementError"}, e)
  BY RefusalsOfEach DEF Covers
<1>4. FormIsRight(InventoryAddBin) /\ FormIsRight(InventorySetSubtypes)
  BY <1>1, AdminTryIsRight DEF InventoryAddBin, InventorySetSubtypes, Try
<1>5. FormIsRight(InventoryUpdate) /\ FormIsRight(InventoryAdjust)
  BY <1>2, AdminTryIsRight DEF InventoryUpdate, InventoryAdjust, Try
<1>6. FormIsRight(InventoryRfq) BY <1>3, AdminTryIsRight DEF InventoryRfq, Try
<1>7. QED BY <1>4, <1>5, <1>6

LEMMA MasterFormsRight ==
  /\ FormIsRight(EquipmentCreate) /\ \A form \in EquipmentEdit : FormIsRight(form)
  /\ FormIsRight(SupplierCreate) /\ \A form \in SupplierEdit : FormIsRight(form)
  /\ \A form \in EquipmentIssues : FormIsRight(form)
<1>1. ASSUME NEW op \in AssetOps
      PROVE  FormIsRight(Page({"admin"}, <<Try(op, {"AssetError", "AuthorizationError"})>>))
  <2>1. \A e \in Refusals(op) : Covers({"AssetError", "AuthorizationError"}, e)
    BY RefusalsByClass DEF Covers
  <2>2. QED BY <2>1, AdminOpsQueueNothing, AdminTryIsRight DEF Try
<1>2. ASSUME NEW op \in ContactOps
      PROVE  FormIsRight(Page({"admin"}, <<Try(op, {"ContactsError", "AuthorizationError"})>>))
  <2>1. \A e \in Refusals(op) : Covers({"ContactsError", "AuthorizationError"}, e)
    BY RefusalsByClass DEF Covers
  <2>2. QED BY <2>1, AdminOpsQueueNothing, AdminTryIsRight DEF Try
<1>3. ASSUME NEW op \in DirectOps
      PROVE  FormIsRight(Page(Roles, <<Try(op, ItemErrors \union NumberErrors)>>))
  <2>1. \A e \in Refusals(op) : Covers(ItemErrors \union NumberErrors, e)
    BY RefusalsByClass DEF Covers, ItemErrors, NumberErrors
  <2>2. Covers(ItemErrors \union NumberErrors, "AuthorizationError") BY DEF Covers, ItemErrors
  <2>3. op \in Gated /\ op \notin PageOps /\ op # "add_attachment" BY OpsBelong
  <2>4. Queues(op) = {} BY QueuesOnly DEF DirectOps
  <2>5. Roles \in SUBSET Roles OBVIOUS
  <2>6. QED BY <2>1, <2>2, <2>3, <2>4, <2>5, PlainForms DEF Try
<1>4. FormIsRight(EquipmentCreate) BY <1>1 DEF EquipmentCreate, AssetOps
<1>5. \A form \in EquipmentEdit : FormIsRight(form) BY <1>1 DEF EquipmentEdit, AssetOps
<1>6. FormIsRight(SupplierCreate) BY <1>2 DEF SupplierCreate, ContactOps
<1>7. \A form \in SupplierEdit : FormIsRight(form) BY <1>2 DEF SupplierEdit
<1>8. \A form \in EquipmentIssues : FormIsRight(form) BY <1>3 DEF EquipmentIssues
<1>9. QED BY <1>4, <1>5, <1>6, <1>7, <1>8

LEMMA AdminPagesRight ==
  /\ \A form \in AdminTasks \union AdminSchedules \union AdminAccounts \union AdminAttachments
                 \union AdminHoldReasons \union AdminBins \union AdminRelationships \union AdminNotify :
       FormIsRight(form)
  /\ FormIsRight(AdminConfirmProposal) /\ FormIsRight(AdminRejectProposal)
  /\ FormIsRight(AdminResolveFeedback) /\ FormIsRight(AdminCredentialRevoke) /\ FormIsRight(AdminOwners)
<1>1. ASSUME NEW op, NEW caught, \A e \in Refusals(op) : Covers(caught, e),
             op \notin {"open_report", "open_work_order", "generate_pm_work_order", "transition",
                        "confirm", "report_onbox", "add_note", "add_attachment"}
      PROVE  FormIsRight(AdminPage(op, caught))
  BY <1>1, AdminTryIsRight DEF AdminPage, Try
<1>2. ASSUME NEW form \in AdminTasks PROVE FormIsRight(form)
  <2>1. CASE form \in {AdminPage(op, {"TaskError"}) : op \in TaskOps \ {"add_task_part"}}
    <3>1. PICK op \in TaskOps \ {"add_task_part"} : form = AdminPage(op, {"TaskError"}) BY <2>1
    <3>2. \A e \in Refusals(op) : Covers({"TaskError"}, e) BY RefusalsByClass DEF Covers
    <3>3. QED BY <1>1, <3>1, <3>2, AdminOpsQueueNothing
  <2>2. CASE form = AdminPage("add_task_part", {"TaskError"} \union NumberErrors)
    <3>1. \A e \in Refusals("add_task_part") : Covers({"TaskError"} \union NumberErrors, e)
      BY RefusalsByClass DEF Covers, TaskOps, NumberErrors
    <3>2. QED BY <1>1, <2>2, <3>1
  <2>3. QED BY <2>1, <2>2 DEF AdminTasks
<1>3. ASSUME NEW form \in AdminSchedules PROVE FormIsRight(form)
  <2>1. PICK op \in ScheduleOps : form = AdminPage(op, {"PmScheduleError", "ValueError"})
    BY <1>3 DEF AdminSchedules
  <2>2. \A e \in Refusals(op) : Covers({"PmScheduleError", "ValueError"}, e)
    BY RefusalsByClass DEF Covers
  <2>3. QED BY <1>1, <2>1, <2>2, AdminOpsQueueNothing
<1>4. ASSUME NEW form \in AdminAccounts PROVE FormIsRight(form)
  <2>1. PICK op \in AccountOps \union {"create_user", "set_assignee_of"} :
          form = AdminPage(op, {"IdentityError"})
    BY <1>4 DEF AdminAccounts
  <2>2. \A e \in Refusals(op) : Covers({"IdentityError"}, e) BY RefusalsByClass DEF Covers
  <2>3. QED BY <1>1, <2>1, <2>2, AdminOpsQueueNothing
<1>5. ASSUME NEW form \in AdminAttachments PROVE FormIsRight(form)
  <2>1. PICK op \in {"soft_delete_attachment", "restore_attachment"} :
          form = Page({"admin"}, <<Do(op, {"AttachmentError"}, "quiet")>>)
    BY <1>5 DEF AdminAttachments
  <2>2. \A e \in Refusals(op) : Covers({"AttachmentError"}, e) BY RefusalsByClass DEF Covers
  <2>3. QED BY <2>1, <2>2, AdminTryIsRight
<1>6. ASSUME NEW form \in AdminHoldReasons PROVE FormIsRight(form)
  <2>1. PICK op \in HoldReasonOps : form = AdminPage(op, OrderErrors) BY <1>6 DEF AdminHoldReasons
  <2>2. \A e \in Refusals(op) : Covers(OrderErrors, e) BY OrderErrorsCatch DEF OrderErrors
  <2>3. QED BY <1>1, <2>1, <2>2, AdminOpsQueueNothing
<1>7. ASSUME NEW form \in AdminBins PROVE FormIsRight(form)
  <2>1. PICK op \in BinOps : form = AdminPage(op, ItemErrors) BY <1>7 DEF AdminBins
  <2>2. \A e \in Refusals(op) : Covers(ItemErrors, e) BY RefusalsByClass DEF Covers, ItemErrors
  <2>3. QED BY <1>1, <2>1, <2>2, AdminOpsQueueNothing
<1>8. ASSUME NEW form \in AdminRelationships PROVE FormIsRight(form)
  <2>1. PICK op \in LinkOps : form = AdminPage(op, {"AssetError"}) BY <1>8 DEF AdminRelationships
  <2>2. \A e \in Refusals(op) : Covers({"AssetError"}, e) BY RefusalsByClass DEF Covers
  <2>3. QED BY <1>1, <2>1, <2>2, AdminOpsQueueNothing
<1>9. ASSUME NEW form \in AdminNotify PROVE FormIsRight(form)
  <2>1. PICK op \in RecipientOps : form = AdminPage(op, {"NotifyError", "AuthorizationError"})
    BY <1>9 DEF AdminNotify
  <2>2. \A e \in Refusals(op) : Covers({"NotifyError", "AuthorizationError"}, e)
    BY RefusalsByClass DEF Covers
  <2>3. QED BY <1>1, <2>1, <2>2, AdminOpsQueueNothing
<1>10. FormIsRight(AdminConfirmProposal)
  <2>1. AdminConfirmProposal
          = Page({"admin"}, <<Do("confirm", OrderErrors \union {"InventoryError"}, "refused")>>)
    BY DEF AdminConfirmProposal, AdminPage, Try
  <2>2. \A e \in Refusals("confirm") : Covers(OrderErrors \union {"InventoryError"}, e)
    BY RefusalsOfEach DEF Covers, OrderErrors
  <2>3. QED BY <2>1, <2>2, AdminForms
<1>11. FormIsRight(AdminRejectProposal)
  <2>1. \A e \in Refusals("reject") : Covers({"WorkOrderError"}, e) BY OrderErrorsCatch
  <2>2. QED BY <1>1, <2>1 DEF AdminRejectProposal
<1>12. FormIsRight(AdminResolveFeedback)
  <2>1. \A e \in Refusals("mark_resolved") : Covers({"FeedbackError", "AuthorizationError"}, e)
    BY RefusalsByClass DEF Covers
  <2>2. QED BY <1>1, <2>1 DEF AdminResolveFeedback
<1>13. FormIsRight(AdminCredentialRevoke) BY <1>1, RefusalsOfEach DEF AdminCredentialRevoke
<1>14. FormIsRight(AdminOwners)
  <2>1. \A e \in Refusals("set_owner_bulk") : Covers({"AssetError", "AuthorizationError"}, e)
    BY RefusalsByClass DEF Covers, AssetOps
  <2>2. QED BY <1>1, <2>1 DEF AdminOwners
<1>15. QED
  BY <1>2, <1>3, <1>4, <1>5, <1>6, <1>7, <1>8, <1>9, <1>10, <1>11, <1>12, <1>13, <1>14

\* The tools of the agents and the commands.
LEMMA ToolFormsRight ==
  /\ FormIsRight(GeneratePmTool) /\ FormIsRight(ProposeTools) /\ FormIsRight(ProposeUpdateItemTool)
  /\ FormIsRight(ConfirmTool) /\ FormIsRight(RejectTool) /\ FormIsRight(RecordLinkTool)
  /\ FormIsRight(ForwardTool)
<1>1. Roles \subseteq Standings BY DEF Standings
<1>2. ASSUME NEW op \in {"propose", "record_external_link", "forward"}
      PROVE  FormIsRight(Tool("agent", <<Try(op, Reported)>>))
  <2>1. PICK form : form = Tool("agent", <<Try(op, Reported)>>) OBVIOUS
  <2>2. /\ form.by = "mcp" /\ form.who = Roles /\ form.as = "agent"
        /\ form.steps = <<Try(op, Reported)>>
    BY <2>1 DEF Tool
  <2>3. "forward" \notin PageOps
    BY DEF PageOps, TaskOps, ScheduleOps, LinkOps
  <2>4. op \notin PageOps /\ op # "add_attachment" BY <2>3, OpsBelong
  <2>5. FormIsRight(form) BY <1>1, <2>2, <2>4, ReportedForms
  <2>6. QED BY <2>1, <2>5
<1>3. ASSUME NEW op \in {"generate_pm_work_order", "propose", "confirm", "reject"}
      PROVE  FormIsRight(Tool("visitor", <<Try(op, Reported)>>))
  <2>1. PICK form : form = Tool("visitor", <<Try(op, Reported)>>) OBVIOUS
  <2>2. /\ form.by = "mcp" /\ form.who = Roles /\ form.as = "visitor"
        /\ form.steps = <<Try(op, Reported)>>
    BY <2>1 DEF Tool
  <2>3. "confirm" \notin PageOps
    BY DEF PageOps, TaskOps, ScheduleOps, LinkOps
  <2>4. op # "reject" => op \notin PageOps /\ op \in Gated BY <2>3, OpsBelong
  <2>5. op = "reject" => form \in UngovernedForms BY <2>1 DEF UngovernedForms, RejectTool
  <2>6. op # "add_attachment" /\ (op \in PageOps => form \in UngovernedForms)
        /\ op \in Gated \union SelfOps \union {"reject"}
    BY <2>4, <2>5
  <2>7. FormIsRight(form) BY <1>1, <2>2, <2>6, ReportedForms
  <2>8. QED BY <2>1, <2>7
<1>4. QED
  BY <1>2, <1>3 DEF GeneratePmTool, ProposeTools, ProposeUpdateItemTool, ConfirmTool, RejectTool,
     RecordLinkTool, ForwardTool

LEMMA CommandFormsRight ==
  /\ FormIsRight(UserCreate) /\ FormIsRight(UserSetAssignee) /\ FormIsRight(WoOpen)
  /\ FormIsRight(WoIssuePart) /\ FormIsRight(IssueToAsset)
  /\ \A form \in WoTransition \union CredCommands \union TokenCommands \union MigrationCommands :
       FormIsRight(form)
<1>1. ASSUME NEW op \in {"create_user", "set_assignee_of", "mint", "revoke_tokens",
                         "backfill_legacy_mrq_links", "autolink_suppliers"}
      PROVE  FormIsRight(Command("none", <<Try(op, Reported)>>))
  <2>1. PICK form : form = Command("none", <<Try(op, Reported)>>) OBVIOUS
  <2>2. /\ form.by = "cli" /\ form.who = Standings /\ form.as = "none"
        /\ form.steps = <<Try(op, Reported)>>
    BY <2>1 DEF Command
  <2>3. op \in {"create_user", "set_assignee_of"} => form \in UngovernedForms
    BY <2>1 DEF UngovernedForms, UserCreate, UserSetAssignee
  <2>4. op \notin {"create_user", "set_assignee_of"} => op \notin PageOps
    BY DEF PageOps, TaskOps, ScheduleOps, LinkOps
  <2>5. FormIsRight(form) BY <2>2, <2>3, <2>4, ReportedForms
  <2>6. QED BY <2>1, <2>5
<1>2. ASSUME NEW op \in {"open_work_order", "transition", "void_work_order", "cancel_reactive_report",
                         "issue_part_to_work_order", "issue_to_asset", "store_credential",
                         "revoke_credential"}
      PROVE  FormIsRight(Command("visitor", <<Try(op, Reported)>>))
  <2>1. PICK form : form = Command("visitor", <<Try(op, Reported)>>) OBVIOUS
  <2>2. /\ form.by = "cli" /\ form.who = Standings /\ form.as = "visitor"
        /\ form.steps = <<Try(op, Reported)>>
    BY <2>1 DEF Command
  <2>3. op \notin PageOps BY DEF PageOps, TaskOps, ScheduleOps, LinkOps
  <2>4. op \in Gated \union SelfOps BY OpsBelong DEF SelfOps
  <2>5. FormIsRight(form) BY <2>2, <2>3, <2>4, ReportedForms
  <2>6. QED BY <2>1, <2>5
<1>3. QED
  BY <1>1, <1>2 DEF UserCreate, UserSetAssignee, WoOpen, WoTransition, WoIssuePart, IssueToAsset,
     CredCommands, TokenCommands, MigrationCommands

\* The equipment and the page of the login act in nobody's name.
LEMMA AgentFormsRight ==
  /\ FormIsRight(Login) /\ FormIsRight(Logout) /\ FormIsRight(OnboxOpenReactive)
  /\ FormIsRight(OnboxCancel) /\ FormIsRight(ReadApi)
<1>1. ASSUME NEW op \in {"authenticate", "logout", "report_onbox", "cancel_onbox"}, NEW caught,
             \A e \in Refusals(op) : Covers(caught, e), NEW by \in {"web", "box"},
             NEW form, form = [by |-> by, who |-> Standings, as |-> "agent",
                               steps |-> <<Do(op, caught, "refused")>>],
             op = "report_onbox" => by = "box"
      PROVE  FormIsRight(form)
  <2>1. PICK s : s = Do(op, caught, "refused") OBVIOUS
  <2>2. s.op = op /\ s.caught = caught /\ s.told = "refused" /\ s.wakes = {} BY <2>1 DEF Do
  <2>3. /\ form.by = by /\ form.who = Standings /\ form.as = "agent" /\ form.steps = <<s>>
        /\ form.steps[1] = s
    BY <1>1, <2>1
  <2>4. \A who : MayAsk(form, who) => who = "agent" BY <2>3 DEF MayAsk
  <2>5. op \notin AdminOps \union StaffOps \union OwnOps \union PageOps
    BY DEF AdminOps, StaffOps, OwnOps, PageOps, TaskOps, ScheduleOps, AccountOps, ContactOps,
           RecipientOps, AssetOps, LinkOps, PartOps, DirectOps, HoldReasonOps, BinOps
  <2>6. \A w : ~MayBeDenied(op, w) BY <2>5 DEF MayBeDenied, Passes
  <2>7. AnswerIsRight(form, 1) BY <2>2, <2>3 DEF AnswerIsRight
  <2>8. CatchIsRight(form, 1) BY <1>1, <2>2, <2>3, <2>6 DEF CatchIsRight
  <2>9. GuardIsRight(form, 1) BY <2>2, <2>3, <2>4, <2>5 DEF GuardIsRight
  <2>10. Queues(op) = {} \/ by = "box" BY <1>1, QueuesOnly
  <2>11. NoticeIsRight(form, 1) BY <2>2, <2>3, <2>10 DEF NoticeIsRight
  <2>12. CallIsRight(form, 1) BY <2>7, <2>8, <2>9, <2>11 DEF CallIsRight
  <2>13. QED BY <2>3, <2>12, OneCall
<1>2. FormIsRight(Login)
  <2>1. Login = [by |-> "web", who |-> Standings, as |-> "agent",
                 steps |-> <<Do("authenticate", {"AuthenticationError"}, "refused")>>]
    BY DEF Login, Page, Try
  <2>2. \A e \in Refusals("authenticate") : Covers({"AuthenticationError"}, e)
    BY RefusalsOfEach DEF Covers
  <2>3. QED BY <1>1, <2>1, <2>2
<1>3. FormIsRight(Logout)
  <2>1. Logout = [by |-> "web", who |-> Standings, as |-> "agent",
                  steps |-> <<Do("logout", {}, "refused")>>]
    BY DEF Logout, Page, Try
  <2>2. QED BY <1>1, <2>1, RefusalsOfEach
<1>4. ASSUME NEW op \in {"report_onbox", "cancel_onbox"}
      PROVE  FormIsRight(Post(<<Try(op, {"OnboxVerificationError", "WorkOrderError"})>>))
  <2>1. Post(<<Try(op, {"OnboxVerificationError", "WorkOrderError"})>>)
          = [by |-> "box", who |-> Standings, as |-> "agent",
             steps |-> <<Do(op, {"OnboxVerificationError", "WorkOrderError"}, "refused")>>]
    BY DEF Post, Try
  <2>2. \A e \in Refusals(op) : Covers({"OnboxVerificationError", "WorkOrderError"}, e)
    BY RefusalsOfEach DEF Covers
  <2>3. QED BY <1>1, <2>1, <2>2
<1>5. FormIsRight(OnboxOpenReactive) /\ FormIsRight(OnboxCancel)
  BY <1>4 DEF OnboxOpenReactive, OnboxCancel
<1>6. FormIsRight(ReadApi)
  <2>1. ReadApi.by = "api" /\ ReadApi.who = Standings /\ ReadApi.as = "agent" /\ ReadApi.steps = <<>>
    BY DEF ReadApi
  <2>2. Len(ReadApi.steps) = 0 /\ DOMAIN ReadApi.steps = {} BY <2>1
  <2>3. QED BY <2>1, <2>2 DEF FormIsRight
<1>7. QED BY <1>2, <1>3, <1>5, <1>6

-----------------------------------------------------------------------------
\* The forms that make several calls, each its own transaction.

\* The photographs that come with a form are added last, and what is kept before them stays.
LEMMA PhotographsAreRight ==
  ASSUME NEW form, NEW i \in Nat \ {0, 1}, NEW who \in SUBSET Roles, NEW caught, NEW s, form.steps[i] = s,
         form.by = "web", form.as = "visitor", form.who = who,
         s.op = "add_attachment", s.caught = caught, s.told = "partly",
         s.wakes \subseteq {"notice", "comment"}, ~form.steps[1].may,
         caught \in {{"Exception"}, {"AttachmentError"}}
  PROVE  CallIsRight(form, i)
<1>1. \A w : MayAsk(form, w) => w \in Roles BY DEF MayAsk
<1>2. "add_attachment" \notin AdminOps \union StaffOps \union OwnOps \union PageOps
  BY DEF AdminOps, StaffOps, OwnOps, PageOps, TaskOps, ScheduleOps, AccountOps, ContactOps,
         RecipientOps, AssetOps, LinkOps, PartOps, DirectOps, HoldReasonOps, BinOps
<1>3. \A w : ~MayBeDenied("add_attachment", w) BY <1>2 DEF MayBeDenied, Passes
<1>4. \A e \in Refusals("add_attachment") : Covers(caught, e) BY RefusalsByClass DEF Covers
<1>5. AnswerIsRight(form, i) BY DEF AnswerIsRight
<1>6. CatchIsRight(form, i) BY <1>3, <1>4 DEF CatchIsRight
<1>7. GuardIsRight(form, i) BY <1>1, <1>2 DEF GuardIsRight, Roles
<1>8. Queues("add_attachment") = {} BY DEF Queues
<1>9. NoticeIsRight(form, i) BY <1>8 DEF NoticeIsRight
<1>10. QED BY <1>5, <1>6, <1>7, <1>9 DEF CallIsRight

\* A call of a page that is not the photographs.
LEMMA CallOfPage ==
  ASSUME NEW form, NEW i \in Nat, NEW who \in SUBSET Roles, NEW s, form.steps[i] = s,
         form.by = "web", form.as = "visitor", form.who = who,
         s.wakes \subseteq {"notice", "comment"}, s.op # "add_attachment", NoticeIsRight(form, i),
         \/ s.told = "partly" /\ i > 1 /\ ~form.steps[1].may
         \/ s.told \in {"refused", "quiet"} /\ (i = 1 \/ s.caught = {}),
         (\A e \in Refusals(s.op) : Covers(s.caught, e)) \/ IsLateNote(form, i),
         \A w \in who : MayBeDenied(s.op, w) => Covers(s.caught, "AuthorizationError") \/ IsLateNote(form, i),
         s.op \in Gated \union SelfOps \/ "operator" \notin who,
         s.op \in PageOps => \A w \in who : w = "admin"
  PROVE  CallIsRight(form, i)
<1>1. \A w : MayAsk(form, w) => w \in who BY DEF MayAsk
<1>2. AnswerIsRight(form, i) BY DEF AnswerIsRight
<1>3. CatchIsRight(form, i) BY <1>1 DEF CatchIsRight
<1>4. GuardIsRight(form, i) BY <1>1 DEF GuardIsRight, Roles
<1>5. QED BY <1>2, <1>3, <1>4 DEF CallIsRight

LEMMA ReportSubmitIsRight == FormIsRight(ReportSubmit)
<1>1. PICK s1, s2, s3 :
        /\ s1 = Waking("notice", Do("open_report", {"WorkOrderError"}, "refused"))
        /\ s2 = Optional(Do("add_report_note", {}, "refused"))
        /\ s3 = Optional(Do("add_attachment", {"Exception"}, "partly"))
  OBVIOUS
<1>2. PICK form : form = ReportSubmit OBVIOUS
<1>3. /\ form.by = "web" /\ form.who = Roles /\ form.as = "visitor" /\ form.steps = <<s1, s2, s3>>
  BY <1>1, <1>2 DEF ReportSubmit, Page, Try
<1>4. /\ s1.op = "open_report" /\ s1.caught = {"WorkOrderError"} /\ s1.told = "refused"
      /\ s1.wakes = {"notice"} /\ ~s1.may
      /\ s2.op = "add_report_note" /\ s2.caught = {} /\ s2.told = "refused" /\ s2.wakes = {}
      /\ s3.op = "add_attachment" /\ s3.caught = {"Exception"} /\ s3.told = "partly" /\ s3.wakes = {}
  BY <1>1 DEF Waking, Optional, Do
<1>5. /\ form.steps[1] = s1 /\ form.steps[2] = s2 /\ form.steps[3] = s3
      /\ Len(form.steps) = 3 /\ DOMAIN form.steps = 1 .. 3
  BY <1>3
<1>6. "open_report" \in OwnOps /\ "add_report_note" \in OwnOps /\ Roles \in SUBSET Roles BY DEF OwnOps
<1>7. CallIsRight(form, 1)
  <2>1. \A w : ~MayBeDenied("open_report", w) BY <1>6, OpsBelong DEF MayBeDenied, Passes
  <2>2. \A e \in Refusals("open_report") : Covers({"WorkOrderError"}, e) BY <1>6, OrderErrorsCatch
  <2>3. Queues("open_report") = {"notice"} BY DEF Queues
  <2>4. NoticeIsRight(form, 1) BY <1>4, <1>5, <2>3 DEF NoticeIsRight
  <2>5. "open_report" \in Gated \ PageOps BY <1>6, OpsBelong DEF Gated
  <2>6. /\ \A e \in Refusals(s1.op) : Covers(s1.caught, e)
        /\ \A w \in Roles : ~MayBeDenied(s1.op, w)
        /\ s1.op \in Gated /\ s1.op \notin PageOps /\ s1.op # "add_attachment"
    BY <1>4, <2>1, <2>2, <2>5
  <2>7. QED BY <1>3, <1>4, <1>5, <1>6, <2>4, <2>6, CallOfPage
<1>8. CallIsRight(form, 2)
  <2>1. IsLateNote(form, 2) BY <1>2 DEF IsLateNote
  <2>2. Queues("add_report_note") = {} BY DEF Queues
  <2>3. NoticeIsRight(form, 2) BY <1>4, <1>5, <2>2 DEF NoticeIsRight
  <2>4. "add_report_note" \in Gated \ PageOps BY <1>6, OpsBelong DEF Gated
  <2>5. QED BY <1>3, <1>4, <1>5, <1>6, <2>1, <2>3, <2>4, CallOfPage
<1>9. CallIsRight(form, 3) BY <1>3, <1>4, <1>5, <1>6, PhotographsAreRight
<1>10. form.who \subseteq Standings BY <1>3 DEF Standings
<1>11. \A i \in 1 .. 3 : i = 1 \/ i = 2 \/ i = 3 OBVIOUS
<1>12. FormIsRight(form)
  BY <1>3, <1>5, <1>7, <1>8, <1>9, <1>10, <1>11 DEF FormIsRight
<1>13. QED BY <1>2, <1>12

LEMMA NoteFormsRight == FormIsRight(AddWorkOrderNote) /\ FormIsRight(EditWorkOrderNote)
<1>1. /\ "add_note" \in Gated \ PageOps /\ "update_note" \in Gated \ PageOps
      /\ Staff \in SUBSET Roles /\ Roles \in SUBSET Roles
  BY OpsBelong DEF Gated, Staff, Roles
<1>2. /\ \A e \in Refusals("add_note") : Covers(OrderErrors, e)
      /\ \A e \in Refusals("update_note") : Covers(OrderErrors, e)
      /\ Covers(OrderErrors, "AuthorizationError")
  BY OrderErrorsCatch, OpsBelong DEF OrderErrors, Covers
<1>3. \A i \in 1 .. 2 : i = 1 \/ i = 2 OBVIOUS
<1>4. FormIsRight(AddWorkOrderNote)
  <2>1. PICK s1, s2 :
          /\ s1 = Do("add_note", OrderErrors, "quiet")
          /\ s2 = Waking("comment", Optional(Do("add_attachment", {"Exception"}, "partly")))
    OBVIOUS
  <2>2. PICK form : form = AddWorkOrderNote OBVIOUS
  <2>3. /\ form.by = "web" /\ form.who = Roles /\ form.as = "visitor" /\ form.steps = <<s1, s2>>
    BY <2>1, <2>2 DEF AddWorkOrderNote, Page
  <2>4. /\ s1.op = "add_note" /\ s1.caught = OrderErrors /\ s1.told = "quiet" /\ s1.wakes = {} /\ ~s1.may
        /\ s2.op = "add_attachment" /\ s2.caught = {"Exception"} /\ s2.told = "partly"
        /\ s2.wakes = {"comment"}
    BY <2>1 DEF Waking, Optional, Do
  <2>5. /\ form.steps[1] = s1 /\ form.steps[2] = s2 /\ Len(form.steps) = 2 /\ DOMAIN form.steps = 1 .. 2
    BY <2>3
  <2>6. NoticeIsRight(form, 1) BY <2>2 DEF NoticeIsRight
  <2>7. CallIsRight(form, 1) BY <1>1, <1>2, <2>3, <2>4, <2>5, <2>6, CallOfPage
  <2>8. CallIsRight(form, 2) BY <1>1, <2>3, <2>4, <2>5, PhotographsAreRight
  <2>9. form.who \subseteq Standings BY <2>3 DEF Standings
  <2>10. FormIsRight(form) BY <1>3, <2>3, <2>5, <2>7, <2>8, <2>9 DEF FormIsRight
  <2>11. QED BY <2>2, <2>10
<1>5. FormIsRight(EditWorkOrderNote)
  <2>1. PICK s1, s2 :
          /\ s1 = Do("update_note", OrderErrors, "refused")
          /\ s2 = Optional(Do("add_attachment", {"Exception"}, "partly"))
    OBVIOUS
  <2>2. PICK form : form = EditWorkOrderNote OBVIOUS
  <2>3. /\ form.by = "web" /\ form.who = Staff /\ form.as = "visitor" /\ form.steps = <<s1, s2>>
    BY <2>1, <2>2 DEF EditWorkOrderNote, Page, Try
  <2>4. /\ s1.op = "update_note" /\ s1.caught = OrderErrors /\ s1.told = "refused" /\ s1.wakes = {}
        /\ ~s1.may /\ s2.op = "add_attachment" /\ s2.caught = {"Exception"} /\ s2.told = "partly"
        /\ s2.wakes = {}
    BY <2>1 DEF Optional, Do
  <2>5. /\ form.steps[1] = s1 /\ form.steps[2] = s2 /\ Len(form.steps) = 2 /\ DOMAIN form.steps = 1 .. 2
    BY <2>3
  <2>6. Queues("update_note") = {} BY DEF Queues
  <2>7. NoticeIsRight(form, 1) BY <2>4, <2>5, <2>6 DEF NoticeIsRight
  <2>8. CallIsRight(form, 1) BY <1>1, <1>2, <2>3, <2>4, <2>5, <2>7, CallOfPage
  <2>9. CallIsRight(form, 2) BY <1>1, <2>3, <2>4, <2>5, PhotographsAreRight
  <2>10. form.who \subseteq Standings BY <1>1, <2>3 DEF Standings
  <2>11. FormIsRight(form) BY <1>3, <2>3, <2>5, <2>8, <2>9, <2>10 DEF FormIsRight
  <2>12. QED BY <2>2, <2>11
<1>6. QED BY <1>4, <1>5

LEMMA InventoryCreateIsRight == FormIsRight(InventoryCreate)
<1>1. PICK s1, s2, s3 :
        /\ s1 = Do("create_item", ItemErrors \union NumberErrors, "refused")
        /\ s2 = Optional(Do("add_attachment", {"AttachmentError"}, "partly"))
        /\ s3 = Optional(Do("adjust_on_hand", {"InventoryError"} \union NumberErrors, "partly"))
  OBVIOUS
<1>2. PICK form, who : form = InventoryCreate /\ who = {"admin"} OBVIOUS
<1>3. /\ form.by = "web" /\ form.who = who /\ form.as = "visitor"
      /\ form.steps = <<s1, s2, s3>>
  BY <1>1, <1>2 DEF InventoryCreate, Page, Try
<1>4. /\ s1.op = "create_item" /\ s1.caught = ItemErrors \union NumberErrors /\ s1.told = "refused"
      /\ s1.wakes = {} /\ ~s1.may
      /\ s2.op = "add_attachment" /\ s2.caught = {"AttachmentError"} /\ s2.told = "partly" /\ s2.wakes = {}
      /\ s3.op = "adjust_on_hand" /\ s3.caught = {"InventoryError"} \union NumberErrors
      /\ s3.told = "partly" /\ s3.wakes = {}
  BY <1>1 DEF Optional, Do
<1>5. /\ form.steps[1] = s1 /\ form.steps[2] = s2 /\ form.steps[3] = s3
      /\ Len(form.steps) = 3 /\ DOMAIN form.steps = 1 .. 3
  BY <1>3
<1>6. /\ who \in SUBSET Roles /\ "operator" \notin who /\ \A w \in who : w = "admin"
      /\ Queues("create_item") = {} /\ Queues("adjust_on_hand") = {}
  BY <1>2 DEF Roles, Queues
<1>7. NoticeIsRight(form, 1) /\ NoticeIsRight(form, 3) BY <1>4, <1>5, <1>6 DEF NoticeIsRight
<1>8. CallIsRight(form, 1)
  <2>1. \A e \in Refusals("create_item") : Covers(ItemErrors \union NumberErrors, e)
    BY RefusalsByClass DEF Covers, ItemErrors, NumberErrors
  <2>2. /\ \A e \in Refusals(s1.op) : Covers(s1.caught, e)
        /\ \A w \in who : ~MayBeDenied(s1.op, w)
        /\ s1.op # "add_attachment"
    BY <1>4, <1>6, <2>1, AdminIsNeverDenied
  <2>3. QED BY <1>3, <1>4, <1>5, <1>6, <1>7, <2>2, CallOfPage
<1>9. CallIsRight(form, 2) BY <1>3, <1>4, <1>5, <1>6, PhotographsAreRight
<1>10. CallIsRight(form, 3)
  <2>1. \A e \in Refusals("adjust_on_hand") : Covers({"InventoryError"} \union NumberErrors, e)
    BY RefusalsByClass DEF Covers, NumberErrors
  <2>2. /\ \A e \in Refusals(s3.op) : Covers(s3.caught, e)
        /\ \A w \in who : ~MayBeDenied(s3.op, w)
        /\ s3.op # "add_attachment" /\ s3.wakes \subseteq {"notice", "comment"}
        /\ s3.told = "partly" /\ 3 > 1 /\ ~form.steps[1].may
    BY <1>4, <1>5, <1>6, <2>1, AdminIsNeverDenied
  <2>3. AnswerIsRight(form, 3) BY <1>5, <2>2 DEF AnswerIsRight
  <2>4. \A w : MayAsk(form, w) => w = "admin" BY <1>3, <1>6 DEF MayAsk
  <2>5. CatchIsRight(form, 3) BY <1>5, <2>2, <2>4, AdminIsNeverDenied DEF CatchIsRight
  <2>6. GuardIsRight(form, 3) BY <2>4 DEF GuardIsRight
  <2>7. QED BY <1>7, <2>3, <2>5, <2>6 DEF CallIsRight
<1>11. form.who \subseteq Standings BY <1>3, <1>6 DEF Standings
<1>12. \A i \in 1 .. 3 : i = 1 \/ i = 2 \/ i = 3 OBVIOUS
<1>13. FormIsRight(form)
  BY <1>3, <1>5, <1>8, <1>9, <1>10, <1>11, <1>12 DEF FormIsRight
<1>14. QED BY <1>2, <1>13

\* All of them.
LEMMA FormsRight == \A form \in Forms : FormIsRight(form)
BY OrderFormsRight, OtherOrderFormsRight, SelfFormsRight, StoreFormsRight, MasterFormsRight,
   AdminPagesRight, ToolFormsRight, CommandFormsRight, AgentFormsRight, ReportSubmitIsRight,
   NoteFormsRight, InventoryCreateIsRight DEF Forms

-----------------------------------------------------------------------------
(***************************************************************************)
(* The invariant of a request.                                             *)
(***************************************************************************)
\* A request.
Reasons == DOMAIN Raising \union {"none", "AuthorizationError", "Fault"}
Visit == [by : {"web", "mcp", "cli", "box", "api"}, form : Forms, bearer : BOOLEAN, seen : Visitors,
          at : Nat, kept : SUBSET Nat, woken : SUBSET {"notice", "comment"}, why : Reasons,
          told : Answers]

\* What was done was let through.  Only a call with photographs can be done in part.
WasLetThrough(v, i) ==
  /\ i \in DOMAIN v.form.steps
  /\ i < v.at \/ (i = v.at /\ v.told # "awaited" /\ v.form.steps[i].op = "add_attachment")
  /\ Passes(v.form.steps[i].op, v.seen)
  /\ v.form.steps[i].op \in Gated => v.seen # "unread"

\* Who asks may ask.
AskedRightly(v) ==
  /\ v.by = v.form.by
  /\ v.told # "turned" => MayAsk(v.form, v.seen)
  /\ v.told = "turned" => v.kept = {}
  /\ \A i \in v.kept : WasLetThrough(v, i)

\* What is behind was done or not asked for, and its messages wait for the answer.
BehindIsDone(v) ==
  /\ v.at \in 1 .. Len(v.form.steps) + 1
  /\ \A i \in 1 .. v.at - 1 : /\ v.form.steps[i].may \/ i \in v.kept
                              /\ v.told # "error" => v.form.steps[i].wakes \subseteq v.woken

\* The answer is what the properties say of it.
ToldRightly(v) ==
  /\ v.told = "done" => v.at = Len(v.form.steps) + 1
  /\ v.told \in {"refused", "quiet"} => v.kept = {}
  /\ v.told = "partly" => 1 \in v.kept
  /\ v.told = "error" =>
       \/ v.why = "Fault" \/ (v.form = InventoryProposeUpdate /\ v.seen = "operator")
       \/ (v.form = ReportSubmit /\ v.at = 2)

ReaderIsKnown(v) ==
  v.by = "api" /\ v.told # "turned" => v.bearer \/ (~deployed.token /\ ~deployed.production)

VisitIsRight(v) ==
  v \in Visit /\ AskedRightly(v) /\ BehindIsDone(v) /\ ToldRightly(v) /\ ReaderIsKnown(v)

SurfaceInv ==
  /\ standing \in Standings /\ deployed \in [production : BOOLEAN, token : BOOLEAN]
  /\ visit = NoVisit \/ VisitIsRight(visit)

LEMMA SurfacesBegin == SurfaceInit => SurfaceInv
BY DEF SurfaceInit, SurfaceInv, Standings

\* A form that runs has steps, and the one it is at is one of them.
LEMMA RunningAtStep ==
  ASSUME SurfaceInv, Running
  PROVE  /\ VisitIsRight(visit) /\ visit \in Visit /\ FormIsRight(visit.form)
         /\ visit.told = "awaited" /\ visit.at \in DOMAIN visit.form.steps 
         /\ Step = visit.form.steps[visit.at] /\ Step.wakes \subseteq {"notice", "comment"}
         /\ DOMAIN visit.form.steps = 1 .. Len(visit.form.steps)
<1>1. visit # NoVisit /\ VisitIsRight(visit) BY DEF SurfaceInv, Running
<1>2. visit \in Visit /\ visit.form \in Forms /\ visit.at \in 1 .. Len(visit.form.steps) + 1
  BY <1>1 DEF VisitIsRight, Visit, BehindIsDone
<1>3. FormIsRight(visit.form) BY <1>2, FormsRight
<1>4. /\ Len(visit.form.steps) \in Nat /\ DOMAIN visit.form.steps = 1 .. Len(visit.form.steps)
      /\ \A i \in DOMAIN visit.form.steps : CallIsRight(visit.form, i)
  BY <1>3 DEF FormIsRight
<1>5. visit.at \in DOMAIN visit.form.steps /\ visit.told = "awaited" BY <1>2, <1>4 DEF Running
<1>6. Step = visit.form.steps[visit.at] /\ Step.wakes \subseteq {"notice", "comment"}
  BY <1>4, <1>5 DEF Step, CallIsRight, AnswerIsRight
<1>7. QED BY <1>1, <1>2, <1>3, <1>4, <1>5, <1>6

\* Who is seen once the gate of the step has loaded the account may still ask, and sees no less.
LEMMA SeenMayAsk ==
  ASSUME SurfaceInv, Running
  PROVE  /\ MayAsk(visit.form, Seen) /\ Seen \in Visitors
         /\ visit.seen # "unread" => Seen = visit.seen
         /\ Step.op \in Gated => Seen # "unread"
<1>1. /\ FormIsRight(visit.form) /\ visit.at \in DOMAIN visit.form.steps /\ visit.told = "awaited"
      /\ visit.seen \in Visitors /\ standing \in Standings
  BY RunningAtStep DEF Visit, SurfaceInv
<1>2. MayAsk(visit.form, visit.seen) BY <1>1, RunningAtStep DEF VisitIsRight, AskedRightly, WasLetThrough
<1>3. CASE visit.seen = "unread" /\ Step.op \in Gated
  <2>1. Seen = standing BY <1>3 DEF Seen, Reads, Gated
  <2>2. visit.form.as = "visitor" /\ visit.form.by # "web"
    BY <1>1, <1>2, <1>3 DEF MayAsk, FormIsRight, Standings, Roles
  <2>3. MayAsk(visit.form, standing) BY <1>1, <1>3, <2>2 DEF MayAsk, Step
  <2>4. QED BY <1>1, <1>3, <2>1, <2>3 DEF Visitors, Standings, Roles
<1>4. CASE visit.seen # "unread" \/ Step.op \notin Gated
  <2>1. Seen = visit.seen BY <1>4 DEF Seen, Reads, Gated
  <2>2. QED BY <1>1, <1>2, <1>4, <2>1
<1>5. QED BY <1>3, <1>4

\* An operation that was let through stays so when the account is loaded later.
LEMMA StaysLetThrough ==
  ASSUME NEW op, NEW old, NEW new, Passes(op, old), op \in Gated => old # "unread",
         old # "unread" => new = old
  PROVE  Passes(op, new) /\ (op \in Gated => new # "unread")
<1>1. CASE op \in Gated BY <1>1
<1>2. CASE op \notin Gated BY <1>2 DEF Passes, Gated
<1>3. QED BY <1>1, <1>2

LEMMA KeptStaysRight ==
  ASSUME SurfaceInv, Running
  PROVE  \A i \in visit.kept :
           /\ i \in DOMAIN visit.form.steps /\ i < visit.at /\ i \in Nat
           /\ Passes(visit.form.steps[i].op, Seen)
           /\ visit.form.steps[i].op \in Gated => Seen # "unread"
<1> SUFFICES ASSUME NEW i \in visit.kept
             PROVE  /\ i \in DOMAIN visit.form.steps /\ i < visit.at /\ i \in Nat
                    /\ Passes(visit.form.steps[i].op, Seen)
                    /\ visit.form.steps[i].op \in Gated => Seen # "unread"
  OBVIOUS
<1>1. visit.told = "awaited" /\ visit.kept \subseteq Nat BY RunningAtStep DEF Visit
<1>2. /\ i \in DOMAIN visit.form.steps /\ i < visit.at
      /\ Passes(visit.form.steps[i].op, visit.seen)
      /\ visit.form.steps[i].op \in Gated => visit.seen # "unread"
  BY <1>1, RunningAtStep DEF VisitIsRight, AskedRightly, WasLetThrough
<1>3. visit.seen # "unread" => Seen = visit.seen BY SeenMayAsk
<1>4. QED BY <1>1, <1>2, <1>3, StaysLetThrough

LEMMA AdmitStep ==
  ASSUME SurfaceInv, NEW form \in Forms, NEW bearer \in BOOLEAN, form.by # "api" => ~bearer,
         Admit(form, bearer)
  PROVE  SurfaceInv'
<1>1. /\ FormIsRight(form) /\ standing \in Standings
      /\ deployed \in [production : BOOLEAN, token : BOOLEAN]
  BY FormsRight DEF SurfaceInv
<1>2. /\ visit' = [by |-> form.by, form |-> form, bearer |-> bearer, seen |-> FirstSeen(form),
                    at |-> 1, kept |-> {}, woken |-> {}, why |-> "none",
                    told |-> IF Admitted(form, bearer) THEN "awaited" ELSE "turned"]
      /\ standing' = standing /\ deployed' = deployed
  BY DEF Admit
<1>3. FirstSeen(form) \in Visitors
  <2>1. CASE form.as # "visitor" BY <1>1, <2>1 DEF FirstSeen, FormIsRight, Visitors, Standings
  <2>2. CASE form.as = "visitor" /\ form.by = "web"
    BY <1>1, <2>2 DEF FirstSeen, Visitors
  <2>3. CASE form.as = "visitor" /\ form.by # "web"
    BY <2>3 DEF FirstSeen, Visitors
  <2>4. QED BY <2>1, <2>2, <2>3
<1>4. Admitted(form, bearer) => MayAsk(form, FirstSeen(form))
  <2>1. CASE form.as # "visitor" BY <2>1 DEF FirstSeen, MayAsk
  <2>2. CASE form.as = "visitor" /\ form.by = "web"
    BY <2>2 DEF FirstSeen, MayAsk, Admitted
  <2>3. CASE form.as = "visitor" /\ form.by # "web"
    BY <2>3 DEF FirstSeen, MayAsk
  <2>4. QED BY <2>1, <2>2, <2>3
<1>5. visit' \in Visit
  <2>1. visit'.told \in {"awaited", "turned"} BY <1>2
  <2>2. visit'.told \in Answers BY <2>1 DEF Answers
  <2>3. form.by \in {"web", "mcp", "cli", "box", "api"} BY <1>1 DEF FormIsRight
  <2>4. QED BY <1>2, <1>3, <2>2, <2>3 DEF Visit, Reasons
<1>6. AskedRightly(visit') BY <1>2, <1>4 DEF AskedRightly
<1>7. BehindIsDone(visit')
  <2>1. Len(form.steps) \in Nat BY <1>1 DEF FormIsRight
  <2>2. QED BY <1>2, <2>1 DEF BehindIsDone
<1>8. ToldRightly(visit') BY <1>2 DEF ToldRightly
<1>9. ReaderIsKnown(visit)' BY <1>1, <1>2 DEF ReaderIsKnown, Admitted
<1>10. VisitIsRight(visit)' BY <1>5, <1>6, <1>7, <1>8, <1>9 DEF VisitIsRight
<1>11. QED BY <1>1, <1>2, <1>10 DEF SurfaceInv

\* What a step of the form leaves of the request, when it goes on to the next.
LEMMA GoesOn ==
  ASSUME SurfaceInv, Running, UNCHANGED <<standing, deployed>>,
         NEW who, NEW kept, who \in Visitors, MayAsk(visit.form, who),
         visit' = [visit EXCEPT !.seen = who, !.at = @ + 1, !.kept = kept,
                                !.woken = @ \union Step.wakes],
         kept \in {visit.kept, visit.kept \union {visit.at}}, Step.may \/ visit.at \in kept,
         \A i \in kept : /\ Passes(visit.form.steps[i].op, who)
                         /\ visit.form.steps[i].op \in Gated => who # "unread"
  PROVE  SurfaceInv'
<1>1. /\ VisitIsRight(visit) /\ visit \in Visit /\ FormIsRight(visit.form) /\ visit.told = "awaited"
      /\ visit.at \in DOMAIN visit.form.steps /\ Step.wakes \subseteq {"notice", "comment"}
      /\ DOMAIN visit.form.steps = 1 .. Len(visit.form.steps) /\ Len(visit.form.steps) \in Nat
  BY RunningAtStep DEF FormIsRight
<1>2. /\ visit'.by = visit.by /\ visit'.form = visit.form /\ visit'.bearer = visit.bearer
      /\ visit'.seen = who /\ visit'.at = visit.at + 1 /\ visit'.kept = kept
      /\ visit'.woken = visit.woken \union Step.wakes /\ visit'.why = visit.why
      /\ visit'.told = "awaited"
  BY <1>1 DEF Visit
<1>3. visit' \in Visit
  <2>1. Step.wakes \subseteq {"notice", "comment"} BY <1>1
  <2>2. visit.at \in Nat BY <1>1 DEF Visit
  <2>3. visit.kept \subseteq Nat BY <1>1 DEF Visit
  <2>4. kept \subseteq Nat /\ visit.at + 1 \in Nat BY <2>2, <2>3
  <2>5. visit.woken \union Step.wakes \subseteq {"notice", "comment"} BY <1>1, <2>1 DEF Visit
  <2>6. QED BY <1>1, <2>4, <2>5 DEF Visit
<1>4. \A i \in kept : i \in DOMAIN visit.form.steps /\ i < visit.at + 1
  <2>1. \A i \in visit.kept : i \in DOMAIN visit.form.steps /\ i < visit.at /\ i \in Nat
    BY KeptStaysRight
  <2>2. visit.at \in Nat BY <1>1 DEF Visit
  <2>3. QED BY <1>1, <2>1, <2>2
<1>5. AskedRightly(visit')
  <2>1. visit.by = visit.form.by BY <1>1 DEF VisitIsRight, AskedRightly, WasLetThrough
  <2>2. ASSUME NEW i \in visit'.kept PROVE WasLetThrough(visit', i)
    <3>1. /\ i \in DOMAIN visit'.form.steps /\ i < visit'.at
          /\ Passes(visit'.form.steps[i].op, visit'.seen)
          /\ visit'.form.steps[i].op \in Gated => visit'.seen # "unread"
      BY <1>2, <1>4
    <3>2. QED BY <3>1 DEF WasLetThrough
  <2>3. MayAsk(visit'.form, visit'.seen) /\ visit'.by = visit'.form.by /\ visit'.told = "awaited"
    BY <1>2, <2>1
  <2>4. QED BY <2>2, <2>3 DEF AskedRightly
<1>6. BehindIsDone(visit')
  <2>1. visit.at \in Nat BY <1>1 DEF Visit
  <2>2. \A i \in 1 .. visit.at - 1 : /\ visit.form.steps[i].may \/ i \in visit.kept
                                     /\ visit.form.steps[i].wakes \subseteq visit.woken
    BY <1>1 DEF VisitIsRight, BehindIsDone
  <2>3. \A i \in 1 .. visit.at : i = visit.at \/ i \in 1 .. visit.at - 1 BY <2>1
  <2>4. \A i \in 1 .. visit.at :
          /\ visit.form.steps[i].may \/ i \in kept
          /\ visit.form.steps[i].wakes \subseteq visit.woken \union Step.wakes
    BY <2>2, <2>3 DEF Step
  <2>5. visit.at + 1 \in 1 .. Len(visit.form.steps) + 1 /\ (visit.at + 1) - 1 = visit.at
    BY <1>1, <2>1
  <2>6. QED BY <1>2, <2>4, <2>5 DEF BehindIsDone
<1>7. ToldRightly(visit') BY <1>2 DEF ToldRightly
<1>8. ReaderIsKnown(visit)'
  <2>1. ReaderIsKnown(visit) BY <1>1 DEF VisitIsRight
  <2>2. QED BY <1>1, <1>2, <2>1 DEF ReaderIsKnown
<1>9. VisitIsRight(visit)' BY <1>3, <1>5, <1>6, <1>7, <1>8 DEF VisitIsRight
<1>10. QED BY <1>9 DEF SurfaceInv

LEMMA MadeStep == ASSUME SurfaceInv, Made PROVE SurfaceInv'
<1>1. /\ Running /\ Passes(Step.op, Seen) /\ UNCHANGED <<standing, deployed>>
      /\ visit' = [visit EXCEPT !.seen = Seen, !.at = @ + 1, !.kept = @ \union {visit.at},
                                !.woken = @ \union Step.wakes]
  BY DEF Made
<1>2. MayAsk(visit.form, Seen) /\ Seen \in Visitors /\ (Step.op \in Gated => Seen # "unread")
  BY <1>1, SeenMayAsk
<1>3. \A i \in visit.kept : /\ Passes(visit.form.steps[i].op, Seen)
                            /\ visit.form.steps[i].op \in Gated => Seen # "unread"
  BY <1>1, KeptStaysRight
<1>4. \A i \in visit.kept \union {visit.at} :
        /\ Passes(visit.form.steps[i].op, Seen)
        /\ visit.form.steps[i].op \in Gated => Seen # "unread"
  BY <1>1, <1>2, <1>3 DEF Step
<1>5. QED BY <1>1, <1>2, <1>4, GoesOn

LEMMA SkipStep == ASSUME SurfaceInv, Skip PROVE SurfaceInv'
<1>1. Running /\ Step.may /\ UNCHANGED <<standing, deployed>> BY DEF Skip
<1>2. /\ VisitIsRight(visit) /\ visit \in Visit /\ visit.told = "awaited" BY <1>1, RunningAtStep
<1>3. visit' = [visit EXCEPT !.seen = visit.seen, !.at = @ + 1, !.kept = visit.kept,
                             !.woken = @ \union Step.wakes]
  BY <1>2 DEF Skip, Visit
<1>4. visit.seen \in Visitors /\ MayAsk(visit.form, visit.seen)
  BY <1>2 DEF Visit, VisitIsRight, AskedRightly, WasLetThrough
<1>5. \A i \in visit.kept : /\ Passes(visit.form.steps[i].op, visit.seen)
                            /\ visit.form.steps[i].op \in Gated => visit.seen # "unread"
  BY <1>2 DEF VisitIsRight, AskedRightly, WasLetThrough
<1>6. QED BY <1>1, <1>3, <1>4, <1>5, GoesOn

LEMMA FinishStep == ASSUME SurfaceInv, Finish PROVE SurfaceInv'
<1>1. /\ visit # NoVisit /\ visit.told = "awaited" /\ visit.at > Len(visit.form.steps)
      /\ visit' = [visit EXCEPT !.told = "done"] /\ UNCHANGED <<standing, deployed>>
  BY DEF Finish
<1>2. VisitIsRight(visit) /\ visit \in Visit BY <1>1 DEF SurfaceInv, VisitIsRight
<1>3. /\ visit'.by = visit.by /\ visit'.form = visit.form /\ visit'.bearer = visit.bearer
      /\ visit'.seen = visit.seen /\ visit'.at = visit.at /\ visit'.kept = visit.kept
      /\ visit'.woken = visit.woken /\ visit'.why = visit.why /\ visit'.told = "done"
  BY <1>1, <1>2 DEF Visit
<1>4. visit' \in Visit BY <1>1, <1>2 DEF Visit, Answers
<1>5. AskedRightly(visit') BY <1>1, <1>2, <1>3 DEF VisitIsRight, AskedRightly, WasLetThrough
<1>6. BehindIsDone(visit') BY <1>1, <1>2, <1>3 DEF VisitIsRight, BehindIsDone
<1>7. ToldRightly(visit')
  <2>1. Len(visit.form.steps) \in Nat BY <1>2, FormsRight DEF Visit, FormIsRight
  <2>2. visit.at = Len(visit.form.steps) + 1
    BY <1>1, <1>2, <2>1 DEF VisitIsRight, BehindIsDone
  <2>3. QED BY <1>3, <2>2 DEF ToldRightly
<1>8. ReaderIsKnown(visit)' BY <1>1, <1>2, <1>3 DEF VisitIsRight, ReaderIsKnown
<1>9. VisitIsRight(visit)' BY <1>4, <1>5, <1>6, <1>7, <1>8 DEF VisitIsRight
<1>10. QED BY <1>1, <1>9 DEF SurfaceInv

\* A call ends in an exception.
LEMMA RaiseStep ==
  ASSUME SurfaceInv, NEW e \in DOMAIN Raising \union {"AuthorizationError", "Fault"}, Raise(e)
  PROVE  SurfaceInv'
<1>1. /\ Running /\ UNCHANGED <<standing, deployed>>
      /\ \/ e = "AuthorizationError" /\ MayBeDenied(Step.op, Seen)
         \/ e \in Refusals(Step.op) /\ Passes(Step.op, Seen)
         \/ e = "Fault"
  BY DEF Raise
<1>2. PICK some \in SUBSET {i \in {visit.at} : Step.op = "add_attachment"} :
        visit' = [visit EXCEPT
                    !.seen = Seen, !.kept = @ \union some, !.why = e,
                    !.told = IF Covers(Step.caught, e) THEN Step.told ELSE "error",
                    !.woken = IF Covers(Step.caught, e) THEN @ ELSE {}]
  BY DEF Raise
<1>3. /\ VisitIsRight(visit) /\ visit \in Visit /\ FormIsRight(visit.form)
      /\ visit.told = "awaited" /\ visit.at \in DOMAIN visit.form.steps /\ Step.wakes \subseteq {"notice", "comment"}
      /\ DOMAIN visit.form.steps = 1 .. Len(visit.form.steps)
  BY <1>1, RunningAtStep
<1>4. /\ visit'.by = visit.by /\ visit'.form = visit.form /\ visit'.bearer = visit.bearer
      /\ visit'.seen = Seen /\ visit'.at = visit.at /\ visit'.kept = visit.kept \union some
      /\ visit'.woken = (IF Covers(Step.caught, e) THEN visit.woken ELSE {}) /\ visit'.why = e
      /\ visit'.told = (IF Covers(Step.caught, e) THEN Step.told ELSE "error")
  BY <1>2, <1>3 DEF Visit
<1>5. /\ AnswerIsRight(visit.form, visit.at) /\ CatchIsRight(visit.form, visit.at)
      /\ Step = visit.form.steps[visit.at]
  BY <1>3 DEF FormIsRight, CallIsRight, Step
<1>6. MayAsk(visit.form, Seen) /\ Seen \in Visitors /\ (Step.op \in Gated => Seen # "unread")
  BY <1>1, SeenMayAsk
<1>7. /\ visit.at \in Nat /\ visit.kept \subseteq Nat /\ some \subseteq {visit.at}
      /\ some # {} => Step.op = "add_attachment"
  BY <1>2, <1>3 DEF Visit
<1>8. visit' \in Visit
  <2>1. visit.woken \in SUBSET {"notice", "comment"} BY <1>3 DEF Visit
  <2>2. e \in Reasons BY DEF Reasons
  <2>3. Step.told \in Answers /\ "error" \in Answers BY <1>5 DEF AnswerIsRight, Answers
  <2>4. /\ visit'.told \in Answers /\ visit'.woken \in SUBSET {"notice", "comment"}
        /\ visit'.kept \in SUBSET Nat
    BY <1>4, <1>7, <2>1, <2>3
  <2>5. /\ visit' = [visit EXCEPT !.seen = visit'.seen, !.kept = visit'.kept, !.why = visit'.why,
                                   !.told = visit'.told, !.woken = visit'.woken]
        /\ visit'.seen \in Visitors /\ visit'.why \in Reasons
    BY <1>2, <1>4, <1>6, <2>2
  <2>6. QED BY <1>3, <2>4, <2>5 DEF Visit
<1>9. AskedRightly(visit')
  <2>1. visit.by = visit.form.by BY <1>3 DEF VisitIsRight, AskedRightly, WasLetThrough
  <2>2. visit'.told \notin {"turned", "awaited"} BY <1>4, <1>5 DEF AnswerIsRight
  <2>3. \A i \in visit.kept : /\ i \in DOMAIN visit.form.steps /\ i < visit.at
                              /\ Passes(visit.form.steps[i].op, Seen)
                              /\ visit.form.steps[i].op \in Gated => Seen # "unread"
    BY <1>1, KeptStaysRight
  <2>4. \A i \in some : i = visit.at /\ visit.form.steps[i].op = "add_attachment"
    BY <1>5, <1>7
  <2>5. Passes("add_attachment", Seen) /\ "add_attachment" \notin Gated
    BY DEF Passes, Gated, AdminOps, StaffOps, OwnOps, AccountOps, ContactOps, RecipientOps, AssetOps,
           HoldReasonOps, BinOps, PartOps, DirectOps
  <2>6. \A i \in some : /\ i \in DOMAIN visit.form.steps
                        /\ visit.form.steps[i].op = "add_attachment"
                        /\ Passes(visit.form.steps[i].op, Seen)
                        /\ visit.form.steps[i].op \in Gated => Seen # "unread"
    BY <1>3, <2>4, <2>5
  <2>7. ASSUME NEW i \in visit'.kept PROVE WasLetThrough(visit', i)
    <3>1. /\ i \in DOMAIN visit'.form.steps
          /\ i < visit'.at \/ (i = visit'.at /\ visit'.form.steps[i].op = "add_attachment")
          /\ Passes(visit'.form.steps[i].op, visit'.seen)
          /\ visit'.form.steps[i].op \in Gated => visit'.seen # "unread"
      BY <1>4, <1>5, <2>3, <2>6, <2>7
    <3>2. QED BY <2>2, <3>1 DEF WasLetThrough
  <2>8. MayAsk(visit'.form, visit'.seen) /\ visit'.by = visit'.form.by BY <1>4, <1>6, <2>1
  <2>9. QED BY <2>2, <2>7, <2>8 DEF AskedRightly
<1>10. BehindIsDone(visit')
  <2>1. /\ visit.at \in 1 .. Len(visit.form.steps) + 1
        /\ \A i \in 1 .. visit.at - 1 : /\ visit.form.steps[i].may \/ i \in visit.kept
                                        /\ visit.form.steps[i].wakes \subseteq visit.woken
    BY <1>3 DEF VisitIsRight, BehindIsDone
  <2>2. visit'.told # "error" => visit'.woken = visit.woken BY <1>4
  <2>3. QED BY <1>4, <2>1, <2>2 DEF BehindIsDone
<1>11. ToldRightly(visit')
  <2>1. visit'.told # "done" BY <1>4, <1>5 DEF AnswerIsRight
  <2>2. visit.kept \subseteq {i \in Nat : i < visit.at /\ i >= 1}
    BY <1>1, <1>3, KeptStaysRight
  <2>3. ASSUME visit'.told \in {"refused", "quiet"} PROVE visit'.kept = {}
    <3>1. Covers(Step.caught, e) /\ visit'.told = Step.told BY <1>4, <2>3
    <3>2. Step.caught # {} BY <3>1 DEF Covers
    <3>3. visit.at = 1 /\ Step.op # "add_attachment" BY <1>5, <2>3, <3>1, <3>2 DEF AnswerIsRight
    <3>4. some = {} /\ visit.kept = {} BY <1>7, <2>2, <3>3
    <3>5. QED BY <1>4, <3>4
  <2>4. ASSUME visit'.told = "partly" PROVE 1 \in visit'.kept
    <3>1. Step.told = "partly" BY <1>4, <2>4
    <3>2. visit.at > 1 /\ ~visit.form.steps[1].may BY <1>5, <3>1 DEF AnswerIsRight
    <3>3. 1 \in 1 .. visit.at - 1 BY <1>7, <3>2
    <3>4. 1 \in visit.kept BY <1>3, <3>2, <3>3 DEF VisitIsRight, BehindIsDone
    <3>5. QED BY <1>4, <3>4
  <2>5. ASSUME visit'.told = "error"
        PROVE  \/ visit'.why = "Fault" \/ (visit'.form = InventoryProposeUpdate /\ visit'.seen = "operator")
               \/ (visit'.form = ReportSubmit /\ visit'.at = 2)
    <3>1. ~Covers(Step.caught, e) BY <1>4, <1>5, <2>5 DEF AnswerIsRight
    <3>2. CASE e = "AuthorizationError" /\ MayBeDenied(Step.op, Seen)
      BY <1>4, <1>5, <1>6, <3>1, <3>2 DEF CatchIsRight, IsLateNote
    <3>3. CASE e \in Refusals(Step.op)
      BY <1>4, <1>5, <3>1, <3>3 DEF CatchIsRight, IsLateNote
    <3>4. CASE e = "Fault" BY <1>4, <3>4
    <3>5. QED BY <1>1, <3>2, <3>3, <3>4
  <2>6. QED BY <2>1, <2>3, <2>4, <2>5 DEF ToldRightly
<1>12. ReaderIsKnown(visit)'
  <2>1. ReaderIsKnown(visit) BY <1>3 DEF VisitIsRight
  <2>2. QED BY <1>1, <1>3, <1>4, <2>1 DEF ReaderIsKnown
<1>13. VisitIsRight(visit)' BY <1>8, <1>9, <1>10, <1>11, <1>12 DEF VisitIsRight
<1>14. QED BY <1>1, <1>13 DEF SurfaceInv

\* The invariant is inductive.
LEMMA SurfaceInvKept == SurfaceInv /\ [SurfaceNext]_surfaceVars => SurfaceInv'
<1> SUFFICES ASSUME SurfaceInv, [SurfaceNext]_surfaceVars PROVE SurfaceInv'
  OBVIOUS
<1>1. CASE \E form \in Forms, bearer \in BOOLEAN : (form.by # "api" => ~bearer) /\ Admit(form, bearer)
  BY <1>1, AdmitStep
<1>2. CASE Made BY <1>2, MadeStep
<1>3. CASE Skip BY <1>3, SkipStep
<1>4. CASE Finish BY <1>4, FinishStep
<1>5. CASE Leave BY <1>5 DEF Leave, SurfaceInv
<1>6. CASE \E e \in DOMAIN Raising \union {"AuthorizationError", "Fault"} : Raise(e)
  BY <1>6, RaiseStep
<1>7. CASE \E s \in Standings \ {"none"} : SetStanding(s)
  <2>1. /\ standing' \in Standings /\ deployed' = deployed /\ visit' = visit
    BY <1>7 DEF SetStanding
  <2>2. QED BY <2>1 DEF SurfaceInv, VisitIsRight, ReaderIsKnown
<1>8. CASE UNCHANGED surfaceVars
  BY <1>8 DEF surfaceVars, SurfaceInv, VisitIsRight, ReaderIsKnown
<1>9. QED BY <1>1, <1>2, <1>3, <1>4, <1>5, <1>6, <1>7, <1>8 DEF SurfaceNext

\* It says what is claimed of the surfaces.
LEMMA SurfaceInvSays == SurfaceInv => SurfacesAreSound
<1> SUFFICES ASSUME SurfaceInv PROVE SurfacesAreSound
  OBVIOUS
<1>1. standing \in Standings /\ deployed \in [production : BOOLEAN, token : BOOLEAN]
  BY DEF SurfaceInv
<1>2. CASE visit = NoVisit
  BY <1>1, <1>2 DEF SurfacesAreSound, SurfaceTypeOK, AnswersAreHonest, RefusalsAreAnswers,
     OperatorsOnlyReport, AdminsGovern, MessagesGoWithAnswer, ReadersAreKnown, Answered
<1>3. CASE visit # NoVisit
  <2>1. VisitIsRight(visit) /\ visit \in Visit BY <1>3 DEF SurfaceInv, VisitIsRight
  <2>2. FormIsRight(visit.form) BY <2>1, FormsRight DEF Visit
  <2>3. /\ DOMAIN visit.form.steps = 1 .. Len(visit.form.steps)
        /\ Len(visit.form.steps) \in Nat
    BY <2>2 DEF FormIsRight
  <2>4. \A i \in visit.kept :
          /\ i \in DOMAIN visit.form.steps /\ visit.form.steps[i].op \in KeptOps
          /\ i < visit.at \/ visit.form.steps[i].op = "add_attachment"
          /\ Passes(visit.form.steps[i].op, visit.seen)
          /\ visit.form.steps[i].op \in Gated => visit.seen # "unread"
    BY <2>1 DEF VisitIsRight, AskedRightly, WasLetThrough, KeptOps
  <2>5. visit.told = "turned" => visit.kept = {} BY <2>1 DEF VisitIsRight, AskedRightly, WasLetThrough
  <2>6. \A i \in visit.kept : MayAsk(visit.form, visit.seen) /\ GuardIsRight(visit.form, i)
    BY <2>1, <2>2, <2>4, <2>5 DEF VisitIsRight, AskedRightly, FormIsRight, CallIsRight
  <2>7. SurfaceTypeOK
    <3>1. visit.kept \subseteq 1 .. visit.at
      <4>1. visit.at \in 1 .. Len(visit.form.steps) + 1 /\ visit.kept \subseteq Nat
        BY <2>1 DEF VisitIsRight, BehindIsDone, Visit
      <4>2. \A i \in visit.kept : i < visit.at \/ i = visit.at
        BY <2>1 DEF VisitIsRight, AskedRightly, WasLetThrough
      <4>3. QED BY <2>3, <2>4, <4>1, <4>2
    <3>2. QED BY <1>1, <2>1, <3>1 DEF SurfaceTypeOK, Visit, Visitors
  <2>8. AnswersAreHonest
    <3>1. ToldRightly(visit) /\ BehindIsDone(visit) BY <2>1 DEF VisitIsRight
    <3>2. ASSUME visit.told = "done", NEW i \in DOMAIN visit.form.steps
          PROVE  visit.form.steps[i].may \/ i \in visit.kept
      <4>1. i \in 1 .. visit.at - 1 BY <2>3, <3>1, <3>2 DEF ToldRightly
      <4>2. QED BY <3>1, <4>1 DEF BehindIsDone
    <3>3. QED BY <2>5, <3>1, <3>2 DEF AnswersAreHonest, ToldRightly
  <2>9. RefusalsAreAnswers
    <3>1. ASSUME visit.form = ReportSubmit, visit.at = 2 PROVE KeptOps = {"open_report"}
      <4>1. /\ visit.form.steps[1].op = "open_report" /\ ~visit.form.steps[1].may
            /\ visit.form.steps[2].op = "add_report_note"
        BY <3>1 DEF ReportSubmit, Page, Try, Do, Waking, Optional
      <4>2. 1 \in visit.kept BY <2>1, <3>1, <4>1 DEF VisitIsRight, BehindIsDone
      <4>3. visit.kept \subseteq 1 .. 2 BY <2>7, <1>3, <3>1 DEF SurfaceTypeOK
      <4>4. 2 \notin visit.kept BY <2>4, <3>1, <4>1
      <4>5. visit.kept = {1} BY <4>2, <4>3, <4>4
      <4>6. QED BY <4>1, <4>5 DEF KeptOps
    <3>2. QED BY <2>1, <3>1 DEF RefusalsAreAnswers, VisitIsRight, ToldRightly
  <2>10. OperatorsOnlyReport
    <3>1. ASSUME visit.seen = "operator", NEW i \in visit.kept
          PROVE  visit.form.steps[i].op \in OwnOps \union SelfOps \union {"add_attachment"}
      <4>1. visit.form.steps[i].op \notin AdminOps \union StaffOps
        BY <2>4, <3>1 DEF Passes
      <4>2. QED BY <2>1, <2>6, <3>1, <4>1 DEF GuardIsRight, Gated, Visit
    <3>2. ASSUME visit.seen = "unread", NEW i \in visit.kept
          PROVE  visit.form.steps[i].op \in SelfOps \union {"reject"}
      BY <2>1, <2>4, <2>6, <3>2 DEF GuardIsRight, Visit
    <3>3. QED BY <3>1, <3>2 DEF OperatorsOnlyReport, KeptOps
  <2>11. AdminsGovern
    <3>1. ASSUME NEW i \in visit.kept, visit.form.steps[i].op \in AdminOps \union PageOps
          PROVE  visit.seen = "admin" \/ visit.form \in UngovernedForms
      <4>1. CASE visit.form.steps[i].op \in AdminOps BY <2>4, <4>1 DEF Passes
      <4>2. CASE visit.form.steps[i].op \in PageOps BY <2>1, <2>6, <4>2 DEF GuardIsRight, Visit
      <4>3. QED BY <3>1, <4>1, <4>2
    <3>2. QED BY <3>1 DEF AdminsGovern, KeptOps, UngovernedForms
  <2>12. MessagesGoWithAnswer
    <3>1. SUFFICES ASSUME Answered, visit.told # "error", NEW i \in visit.kept,
                          NEW kind \in Queues(visit.form.steps[i].op),
                          visit.form # AdminConfirmProposal, visit.by \notin {"mcp", "cli", "box"},
                          ~(visit.form = AddWorkOrderNote /\ visit.told = "partly")
                   PROVE  kind \in visit.woken
      BY DEF MessagesGoWithAnswer, KeptOps
    <3>2. Queues("add_attachment") = {} BY DEF Queues
    <3>3. i < visit.at /\ i \in DOMAIN visit.form.steps BY <2>4, <3>1, <3>2
    <3>4. NoticeIsRight(visit.form, i) /\ visit.by = visit.form.by
      BY <2>1, <2>2, <3>3 DEF FormIsRight, CallIsRight, VisitIsRight, AskedRightly, WasLetThrough
    <3>5. \A j \in 1 .. visit.at - 1 : visit.form.steps[j].wakes \subseteq visit.woken
      BY <2>1, <3>1 DEF VisitIsRight, BehindIsDone
    <3>6. visit.at \in 1 .. Len(visit.form.steps) + 1 BY <2>1 DEF VisitIsRight, BehindIsDone
    <3>7. i \in 1 .. visit.at - 1 BY <2>3, <3>3, <3>6
    <3>8. CASE Queues(visit.form.steps[i].op) \subseteq visit.form.steps[i].wakes
      BY <3>1, <3>5, <3>7, <3>8
    <3>9. CASE visit.form = AddWorkOrderNote /\ i = 1
      <4>1. /\ visit.form.steps[1].op = "add_note" /\ visit.form.steps[2].wakes = {"comment"}
            /\ Len(visit.form.steps) = 2
        <5>1. visit.form.steps = <<Do("add_note", OrderErrors, "quiet"),
                Waking("comment", Optional(Do("add_attachment", {"Exception"}, "partly")))>>
          BY <3>9 DEF AddWorkOrderNote, Page
        <5>2. Do("add_note", OrderErrors, "quiet").op = "add_note" BY DEF Do
        <5>3. Waking("comment", Optional(Do("add_attachment", {"Exception"}, "partly"))).wakes
                = {"comment"}
          BY DEF Do, Waking, Optional
        <5>4. QED BY <5>1, <5>2, <5>3
      <4>2. kind = "comment" BY <3>1, <3>9, <4>1 DEF Queues
      <4>3. visit.told = "done"
        <5>1. visit.told \notin {"refused", "quiet", "turned", "partly", "error", "awaited"}
          BY <2>1, <2>5, <3>1, <3>9 DEF VisitIsRight, ToldRightly, Answered
        <5>2. QED BY <2>1, <5>1 DEF Visit, Answers
      <4>4. visit.at = 3 BY <2>1, <4>1, <4>3 DEF VisitIsRight, ToldRightly
      <4>5. QED BY <3>5, <4>1, <4>2, <4>4
    <3>10. QED BY <3>1, <3>4, <3>8, <3>9 DEF NoticeIsRight
  <2>13. ReadersAreKnown
    BY <2>1 DEF ReadersAreKnown, VisitIsRight, ReaderIsKnown
  <2>14. QED BY <2>7, <2>8, <2>9, <2>10, <2>11, <2>12, <2>13 DEF SurfacesAreSound
<1>4. QED BY <1>2, <1>3

\* Every request, with roles that change under it, does what it answers and no more than its
\* visitor may (web/routes.py, mcp/server.py, cli/main.py, api/app.py).
THEOREM SurfacesHold == SurfaceSpec => []SurfacesAreSound
<1>1. SurfaceInit => SurfaceInv BY SurfacesBegin
<1>2. SurfaceInv /\ [SurfaceNext]_surfaceVars => SurfaceInv' BY SurfaceInvKept
<1>3. SurfaceInv => SurfacesAreSound BY SurfaceInvSays
<1>4. QED BY <1>1, <1>2, <1>3, PTL DEF SurfaceSpec

\* And the claim of the three together: resets end sessions, a slot has one current credential,
\* and a request does what it answers and no more than its visitor may.
THEOREM IdentityHolds == AccountsSpec /\ VaultSpec /\ SurfaceSpec => []IdentityIsSound
BY AdminsStay, VaultIsTrue, SurfacesHold, PTL DEF IdentityIsSound

-----------------------------------------------------------------------------
(***************************************************************************)
(* The bridge.  What a command read of its code is worth until another     *)
(* redemption of it commits, and then it is "late"; an update that was     *)
(* not seen has done nothing yet.                                          *)
(***************************************************************************)
CodesAreKnown ==
  /\ Len(code) <= MaxCodes
  /\ \A n \in Updates : update[n].sent => update[n].code \in DOMAIN code
  /\ \A u \in Members : making[u].codes \subseteq DOMAIN code

\* Where an update is: unseen it has no effect, under way it has bound nothing yet, and at rest
\* it was answered or lost; what it bound is a code that is used up.
UpdatesAreInOrder ==
  \A n \in Updates :
    /\ processed[n] = IF n \in seen THEN 1 ELSE 0
    /\ n \in seen => update[n].sent
    /\ n \notin seen => start[n].pc = "idle" /\ ~update[n].answered /\ bound[n].code = 0
    /\ start[n].pc # "idle" =>
         update[n].sent /\ ~update[n].answered /\ bound[n] = [chat |-> NoChat, code |-> 0]
    /\ n \in seen /\ start[n].pc = "idle" /\ ~update[n].answered => n \in lost

BoundCodesAreSpent ==
  \A n \in Updates :
    /\ bound[n].code = 0 => bound[n].chat = NoChat
    /\ bound[n].code # 0 => bound[n].code \in DOMAIN code /\ code[bound[n].code].state # "unused"

\* A command that looked at its code, and that no other redemption overtook, is its first.
FirstToRedeem ==
  \A n \in Updates : start[n].pc \in {"redeem", "write"} /\ ~start[n].late =>
    \A m \in Updates : bound[m].code # update[n].code

BridgeInv ==
  BridgeTypeOK /\ CodesAreKnown /\ UpdatesAreInOrder /\ BoundCodesAreSpent /\ FirstToRedeem
    /\ CodeBindsOnce /\ ChatsAreOwn

LEMMA BridgeIsSafe == BridgeInv => BridgeTypeOK /\ BridgeSafe
<1> SUFFICES ASSUME BridgeInv PROVE BridgeTypeOK /\ BridgeSafe
  OBVIOUS
<1>1. CommandsOnce
  <2> SUFFICES ASSUME NEW n \in Updates
               PROVE  /\ processed[n] <= 1
                      /\ update[n].answered => processed[n] = 1
                      /\ n \in seen /\ start[n].pc = "idle" /\ ~update[n].answered => n \in lost
    BY DEF CommandsOnce
  <2>1. QED
    BY DEF BridgeInv, UpdatesAreInOrder
<1>2. QED
  BY <1>1 DEF BridgeInv, BridgeSafe

LEMMA NoUpdateIsUpdate == NoUpdate \in Update /\ ~NoUpdate.sent /\ ~NoUpdate.answered
BY BridgeAssumption DEF NoUpdate, Update, BridgeAssumption

LEMMA BridgeStart == BridgeInit => BridgeInv
<1> SUFFICES ASSUME BridgeInit PROVE BridgeInv
  OBVIOUS
<1> USE DEF BridgeInit
<1>1. NoUpdate \in Update /\ Resting \in Start /\ ~NoUpdate.sent /\ ~NoUpdate.answered /\ Resting.pc = "idle"
  BY NoUpdateIsUpdate DEF Resting, Start
<1>2. BridgeTypeOK
  BY <1>1, BridgeAssumption DEF BridgeTypeOK, BridgeAssumption
<1>3. CodesAreKnown
  BY <1>1, BridgeAssumption DEF CodesAreKnown
<1>4. UpdatesAreInOrder /\ BoundCodesAreSpent /\ FirstToRedeem
  BY <1>1 DEF UpdatesAreInOrder, BoundCodesAreSpent, FirstToRedeem
<1>5. CodeBindsOnce /\ ChatsAreOwn
  BY DEF CodeBindsOnce, ChatsAreOwn
<1>6. QED
  BY <1>2, <1>3, <1>4, <1>5 DEF BridgeInv

\* Codes that are made or end: those that were spent stay so.
LEMMA CodesKeep ==
  ASSUME BridgeInv, UNCHANGED <<chatOf, update, seen, start, bound, contested, processed, lost>>,
         code' \in Seq(LinkCode), Len(code') <= MaxCodes, DOMAIN code \subseteq DOMAIN code',
         \A c \in DOMAIN code : /\ code'[c].user = code[c].user
                                /\ code[c].state # "unused" => code'[c].state # "unused",
         making' \in [Members -> [pc : {"idle", "read"}, codes : SUBSET Codes]],
         \A u \in Members : making'[u].codes \subseteq DOMAIN code'
  PROVE  BridgeInv'
<1>1. /\ BridgeTypeOK /\ CodesAreKnown /\ UpdatesAreInOrder /\ BoundCodesAreSpent /\ FirstToRedeem
      /\ CodeBindsOnce /\ ChatsAreOwn
  BY DEF BridgeInv
<1>2. BridgeTypeOK' /\ CodesAreKnown'
  BY <1>1 DEF BridgeTypeOK, CodesAreKnown
<1>3. UpdatesAreInOrder' /\ FirstToRedeem' /\ CodeBindsOnce'
  BY <1>1 DEF UpdatesAreInOrder, FirstToRedeem, CodeBindsOnce
<1>4. BoundCodesAreSpent'
  BY <1>1 DEF BoundCodesAreSpent
<1>5. ChatsAreOwn'
  <2>1. ASSUME NEW u \in Members, chatOf[u] # NoChat
        PROVE  \E n \in Updates : bound[n].chat = chatOf[u] /\ code'[bound[n].code].user = u
    <3>1. PICK n \in Updates : bound[n].chat = chatOf[u] /\ code[bound[n].code].user = u
      BY <1>1, <2>1 DEF ChatsAreOwn
    <3>2. bound[n].code \in DOMAIN code
      BY <1>1, <2>1, <3>1 DEF BoundCodesAreSpent
    <3>3. QED
      BY <3>1, <3>2
  <2>2. QED
    BY <1>1, <2>1 DEF ChatsAreOwn
<1>6. QED
  BY <1>2, <1>3, <1>4, <1>5 DEF BridgeInv

\* What the steps of an update do to its record.
LEMMA UpdateRows ==
  ASSUME BridgeAssumption, NEW r \in Update
  PROVE  /\ [r EXCEPT !.answered = TRUE] \in Update
         /\ [r EXCEPT !.answered = TRUE].answered
         /\ [r EXCEPT !.answered = TRUE].sent = r.sent
         /\ [r EXCEPT !.answered = TRUE].code = r.code
         /\ [r EXCEPT !.answered = TRUE].chat = r.chat
         /\ r.deliveries < MaxDeliveries => [r EXCEPT !.deliveries = @ + 1] \in Update
         /\ [r EXCEPT !.deliveries = @ + 1].answered = r.answered
         /\ [r EXCEPT !.deliveries = @ + 1].sent = r.sent
         /\ [r EXCEPT !.deliveries = @ + 1].code = r.code
         /\ [r EXCEPT !.deliveries = @ + 1].chat = r.chat
<1>1. /\ r.sent \in BOOLEAN /\ r.chat \in Chats /\ r.code \in 0..MaxCodes
      /\ r.deliveries \in 0..MaxDeliveries /\ r.answered \in BOOLEAN
  BY DEF Update
<1>2. r.deliveries < MaxDeliveries => r.deliveries + 1 \in 0..MaxDeliveries
  BY <1>1, BridgeAssumption DEF BridgeAssumption
<1>3. QED
  BY <1>1, <1>2 DEF Update

\* One update is recorded as answered, as sent or as delivered once more, and its command begins
\* or rests: nothing that is about the codes and the chats changes.
LEMMA CommandsKeep ==
  ASSUME BridgeInv, NEW n \in Updates,
         UNCHANGED <<code, chatOf, making, bound, contested>>,
         update' \in [Updates -> Update], start' \in [Updates -> Start], seen' \subseteq Updates,
         \A m \in Updates \ {n} : /\ update'[m] = update[m] /\ start'[m] = start[m]
                                  /\ processed'[m] = processed[m] /\ (m \in seen' <=> m \in seen),
         lost \subseteq lost', lost' \subseteq Updates,
         update'[n].sent => update'[n].code \in DOMAIN code,
         processed' \in [Updates -> Nat], processed'[n] = IF n \in seen' THEN 1 ELSE 0,
         n \in seen' => update'[n].sent,
         n \notin seen' => start'[n].pc = "idle" /\ ~update'[n].answered /\ bound[n].code = 0,
         start'[n].pc # "idle" =>
           update'[n].sent /\ ~update'[n].answered /\ bound[n] = [chat |-> NoChat, code |-> 0],
         n \in seen' /\ start'[n].pc = "idle" /\ ~update'[n].answered => n \in lost',
         start'[n].pc \in {"redeem", "write"} /\ ~start'[n].late =>
           \A m \in Updates : bound[m].code # update'[n].code
  PROVE  BridgeInv'
<1>1. /\ BridgeTypeOK /\ CodesAreKnown /\ UpdatesAreInOrder /\ BoundCodesAreSpent /\ FirstToRedeem
      /\ CodeBindsOnce /\ ChatsAreOwn
  BY DEF BridgeInv
<1>2. BridgeTypeOK'
  BY <1>1 DEF BridgeTypeOK
<1>3. CodesAreKnown'
  BY <1>1 DEF CodesAreKnown
<1>4. UpdatesAreInOrder'
  <2>1. ASSUME NEW m \in Updates
        PROVE  /\ processed'[m] = IF m \in seen' THEN 1 ELSE 0
               /\ m \in seen' => update'[m].sent
               /\ m \notin seen' => start'[m].pc = "idle" /\ ~update'[m].answered /\ bound'[m].code = 0
               /\ start'[m].pc # "idle" =>
                    update'[m].sent /\ ~update'[m].answered /\ bound'[m] = [chat |-> NoChat, code |-> 0]
               /\ m \in seen' /\ start'[m].pc = "idle" /\ ~update'[m].answered => m \in lost'
    <3>1. CASE m = n
      BY <3>1
    <3>2. CASE m # n
      BY <1>1, <3>2 DEF UpdatesAreInOrder
    <3>3. QED
      BY <3>1, <3>2
  <2>2. QED
    BY <2>1 DEF UpdatesAreInOrder
<1>5. FirstToRedeem'
  BY <1>1 DEF FirstToRedeem
<1>6. BoundCodesAreSpent' /\ CodeBindsOnce' /\ ChatsAreOwn'
  BY <1>1 DEF BoundCodesAreSpent, CodeBindsOnce, ChatsAreOwn
<1>7. QED
  BY <1>2, <1>3, <1>4, <1>5, <1>6 DEF BridgeInv

LEMMA MakingKeeps ==
  ASSUME BridgeInv, NEW u \in Members, ReadCodes(u) \/ CreateCode(u)
  PROVE  BridgeInv'
<1>1. /\ BridgeTypeOK /\ CodesAreKnown
      /\ code \in Seq(LinkCode) /\ Len(code) \in Nat /\ DOMAIN code = 1..Len(code)
      /\ making \in [Members -> [pc : {"idle", "read"}, codes : SUBSET Codes]]
  BY DEF BridgeInv, BridgeTypeOK
<1>2. CASE ReadCodes(u)
  <2>1. Unused(u) \subseteq DOMAIN code /\ Unused(u) \subseteq Codes
    BY <1>1, BridgeAssumption DEF Unused, Codes, CodesAreKnown, BridgeAssumption
  <2>2. making' \in [Members -> [pc : {"idle", "read"}, codes : SUBSET Codes]]
    BY <1>1, <1>2, <2>1 DEF ReadCodes
  <2>3. \A v \in Members : making'[v].codes \subseteq DOMAIN code
    BY <1>1, <1>2, <2>1 DEF ReadCodes, CodesAreKnown
  <2>4. QED
    BY <1>1, <1>2, <2>2, <2>3, CodesKeep DEF ReadCodes, CodesAreKnown
<1>3. CASE CreateCode(u)
  <2> DEFINE old == [c \in DOMAIN code |-> IF c \in making[u].codes
                                           THEN [code[c] EXCEPT !.state = "gone"] ELSE code[c]]
             new == [user |-> u, state |-> "unused"]
  <2>1. \A c \in 1..Len(code) : code[c] \in LinkCode
    BY <1>1
  <2>2. \A c \in 1..Len(code) : /\ old[c] \in LinkCode /\ old[c].user = code[c].user
                                /\ code[c].state # "unused" => old[c].state # "unused"
    BY <1>1, <2>1 DEF LinkCode
  <2>3. old \in Seq(LinkCode) /\ Len(old) = Len(code) /\ DOMAIN old = 1..Len(code)
    <3>1. old = [c \in 1..Len(code) |-> old[c]]
      BY <1>1
    <3>2. QED
      BY ONLY <1>1, <2>2, <3>1
  <2>4. code' = Append(old, new) /\ new \in LinkCode
    BY <1>3 DEF CreateCode, LinkCode
  <2> HIDE DEF old, new
  <2>5. /\ code' \in Seq(LinkCode) /\ Len(code') = Len(code) + 1
        /\ \A c \in 1..Len(code) : code'[c] = old[c]
    BY <2>3, <2>4
  <2>6. DOMAIN code' = 1..(Len(code) + 1)
    BY <2>5
  <2>7. Len(code') <= MaxCodes
    BY <1>1, <1>3, <2>5, BridgeAssumption DEF CreateCode, BridgeAssumption
  <2>8. making' \in [Members -> [pc : {"idle", "read"}, codes : SUBSET Codes]]
    BY <1>1, <1>3 DEF CreateCode
  <2>9. \A v \in Members : making'[v].codes \subseteq DOMAIN code'
    <3>1. DOMAIN code \subseteq DOMAIN code'
      BY <1>1, <2>6
    <3>2. \A v \in Members : making'[v].codes \subseteq making[v].codes
      BY <1>1, <1>3 DEF CreateCode
    <3>3. QED
      BY <1>1, <3>1, <3>2 DEF CodesAreKnown
  <2>10. QED
    BY <1>1, <1>3, <2>2, <2>5, <2>6, <2>7, <2>8, <2>9, CodesKeep DEF CreateCode
<1>4. QED
  BY <1>2, <1>3

LEMMA ExpiryKeeps ==
  ASSUME BridgeInv, NEW c \in DOMAIN code, ExpireCode(c)
  PROVE  BridgeInv'
<1>1. /\ BridgeTypeOK /\ CodesAreKnown
      /\ code \in Seq(LinkCode) /\ Len(code) \in Nat /\ DOMAIN code = 1..Len(code)
      /\ making \in [Members -> [pc : {"idle", "read"}, codes : SUBSET Codes]]
  BY DEF BridgeInv, BridgeTypeOK
<1>2. \A d \in 1..Len(code) : code[d] \in LinkCode
  BY <1>1
<1>3. [code[c] EXCEPT !.state = "gone"] \in LinkCode
  BY <1>1, <1>2 DEF LinkCode
<1>4. code' \in Seq(LinkCode) /\ Len(code') = Len(code) /\ DOMAIN code' = 1..Len(code)
  BY <1>1, <1>3 DEF ExpireCode
<1>5. \A d \in 1..Len(code) : /\ code'[d].user = code[d].user
                              /\ code[d].state # "unused" => code'[d].state # "unused"
  BY <1>1, <1>2 DEF ExpireCode, LinkCode
<1>6. QED
  BY <1>1, <1>4, <1>5, CodesKeep DEF ExpireCode, CodesAreKnown

LEMMA UnlinkKeeps ==
  ASSUME BridgeInv, NEW u \in Members, UnlinkChat(u)
  PROVE  BridgeInv'
<1>1. /\ BridgeTypeOK /\ CodesAreKnown /\ UpdatesAreInOrder /\ BoundCodesAreSpent /\ FirstToRedeem
      /\ CodeBindsOnce /\ ChatsAreOwn
  BY DEF BridgeInv
<1>2. BridgeTypeOK' /\ \A v \in Members : chatOf'[v] # NoChat => chatOf'[v] = chatOf[v]
  BY <1>1 DEF BridgeTypeOK, UnlinkChat
<1>3. ChatsAreOwn'
  BY <1>1, <1>2 DEF ChatsAreOwn, UnlinkChat
<1>4. QED
  BY <1>1, <1>2, <1>3 DEF BridgeInv, UnlinkChat, CodesAreKnown, UpdatesAreInOrder,
                          BoundCodesAreSpent, FirstToRedeem, CodeBindsOnce

LEMMA SendKeeps ==
  ASSUME BridgeInv, NEW n \in Updates, NEW chat \in Chats, NEW c \in Codes, Send(n, chat, c)
  PROVE  BridgeInv'
<1>1. /\ BridgeTypeOK /\ CodesAreKnown /\ UpdatesAreInOrder /\ BoundCodesAreSpent /\ FirstToRedeem
      /\ update \in [Updates -> Update] /\ start \in [Updates -> Start] /\ seen \subseteq Updates
      /\ processed \in [Updates -> Nat] /\ lost \subseteq Updates
  BY DEF BridgeInv, BridgeTypeOK
<1> DEFINE row == [NoUpdate EXCEPT !.sent = TRUE, !.chat = chat, !.code = c]
<1>2. row \in Update /\ row.sent /\ ~row.answered /\ row.code = c
  <2>1. c \in 0..MaxCodes
    BY BridgeAssumption DEF Codes, BridgeAssumption
  <2>2. row \in Update
    BY <2>1, NoUpdateIsUpdate DEF Update
  <2>3. row.sent /\ ~row.answered /\ row.code = c
    BY <2>1, NoUpdateIsUpdate DEF Update
  <2>4. QED
    BY <2>2, <2>3
<1>3. update' = [update EXCEPT ![n] = row]
  BY DEF Send
<1> HIDE DEF row
<1>4. /\ update' \in [Updates -> Update] /\ update'[n] = row
      /\ \A m \in Updates \ {n} : update'[m] = update[m]
  BY <1>1, <1>2, <1>3
<1>5. n \notin seen /\ c \in DOMAIN code
  BY <1>1 DEF Send, UpdatesAreInOrder
<1>6. /\ start[n].pc = "idle" /\ bound[n].code = 0
      /\ processed[n] = IF n \in seen THEN 1 ELSE 0
  BY <1>1, <1>5 DEF UpdatesAreInOrder
<1>7. UNCHANGED <<code, chatOf, seen, start, making, bound, contested, processed, lost>>
  BY DEF Send
<1>8. QED
  BY <1>1, <1>2, <1>4, <1>5, <1>6, <1>7, CommandsKeep

LEMMA DeliverKeeps ==
  ASSUME BridgeInv, NEW n \in Updates, Deliver(n)
  PROVE  BridgeInv'
<1>1. /\ BridgeTypeOK /\ CodesAreKnown /\ UpdatesAreInOrder /\ BoundCodesAreSpent /\ FirstToRedeem
      /\ update \in [Updates -> Update] /\ start \in [Updates -> Start] /\ seen \subseteq Updates
      /\ processed \in [Updates -> Nat] /\ lost \subseteq Updates
  BY DEF BridgeInv, BridgeTypeOK
<1>2. /\ update[n] \in Update /\ start[n] \in Start
      /\ update[n].sent /\ ~update[n].answered /\ update[n].deliveries < MaxDeliveries
      /\ start[n].pc = "idle" /\ seen' = seen \cup {n}
      /\ UNCHANGED <<code, chatOf, making, bound, contested, lost>>
      /\ update[n].code \in DOMAIN code
  BY <1>1 DEF Deliver, CodesAreKnown
<1> DEFINE once == [update[n] EXCEPT !.deliveries = @ + 1]
<1>3. once \in Update /\ once.sent /\ ~once.answered /\ once.code = update[n].code
  BY <1>2, UpdateRows, BridgeAssumption
<1>4. CASE n \notin seen
  <2>1. /\ start' = [start EXCEPT ![n].pc = "dispatch"] /\ processed' = [processed EXCEPT ![n] = @ + 1]
        /\ update' = [update EXCEPT ![n] = once]
    BY <1>1, <1>4 DEF Deliver, FirstTime
  <2> HIDE DEF once
  <2>2. /\ update' \in [Updates -> Update] /\ update'[n] = once
        /\ \A m \in Updates \ {n} : update'[m] = update[m]
    BY <1>1, <1>3, <2>1
  <2>3. [start[n] EXCEPT !.pc = "dispatch"] \in Start
    BY <1>2 DEF Start
  <2>4. /\ start' \in [Updates -> Start] /\ start'[n].pc = "dispatch"
        /\ \A m \in Updates \ {n} : start'[m] = start[m]
    BY <1>1, <1>2, <2>1, <2>3 DEF Start
  <2>5. processed[n] = 0 /\ bound[n].code = 0
    BY <1>1, <1>4 DEF UpdatesAreInOrder
  <2>6. /\ processed' \in [Updates -> Nat] /\ processed'[n] = 1
        /\ \A m \in Updates \ {n} : processed'[m] = processed[m]
    BY <1>1, <2>1, <2>5 DEF BridgeTypeOK
  <2>7. bound[n] = [chat |-> NoChat, code |-> 0]
    BY <1>1, <2>5 DEF BoundCodesAreSpent, BridgeTypeOK
  <2>8. QED
    BY <1>1, <1>2, <1>3, <2>2, <2>4, <2>5, <2>6, <2>7, CommandsKeep
<1>5. CASE n \in seen
  <2> DEFINE row == [once EXCEPT !.answered = TRUE]
  <2>1. row \in Update /\ row.sent /\ row.answered /\ row.code = update[n].code
    BY <1>3, UpdateRows, BridgeAssumption
  <2>2. update' = [update EXCEPT ![n] = row] /\ UNCHANGED <<start, processed>>
    BY <1>1, <1>5 DEF Deliver, FirstTime
  <2> HIDE DEF once, row
  <2>3. /\ update' \in [Updates -> Update] /\ update'[n] = row
        /\ \A m \in Updates \ {n} : update'[m] = update[m]
    BY <1>1, <2>1, <2>2
  <2>4. processed[n] = 1
    BY <1>1, <1>5 DEF UpdatesAreInOrder
  <2>5. QED
    BY <1>1, <1>2, <1>5, <2>1, <2>2, <2>3, <2>4, CommandsKeep
<1>6. QED
  BY <1>4, <1>5

\* A command that ends without binding: its process is lost, or the update is answered.
LEMMA CommandEnds ==
  ASSUME BridgeInv, NEW n \in Updates, start[n].pc # "idle",
         start' = [start EXCEPT ![n] = Resting],
         UNCHANGED <<code, chatOf, seen, making, bound, contested, processed>>,
         \/ UNCHANGED update /\ lost' = lost \cup {n}
         \/ AnswerOk(n) /\ UNCHANGED lost
  PROVE  BridgeInv'
<1>1. /\ BridgeTypeOK /\ CodesAreKnown /\ UpdatesAreInOrder /\ BoundCodesAreSpent /\ FirstToRedeem
      /\ update \in [Updates -> Update] /\ start \in [Updates -> Start] /\ seen \subseteq Updates
      /\ processed \in [Updates -> Nat] /\ lost \subseteq Updates
  BY DEF BridgeInv, BridgeTypeOK
<1>2. Resting \in Start /\ Resting.pc = "idle"
  BY DEF Resting, Start
<1>3. /\ start' \in [Updates -> Start] /\ start'[n].pc = "idle"
      /\ \A m \in Updates \ {n} : start'[m] = start[m]
  BY <1>1, <1>2
<1>4. /\ n \in seen /\ processed[n] = 1 /\ update[n].sent /\ update[n].code \in DOMAIN code
      /\ update[n] \in Update
  BY <1>1 DEF UpdatesAreInOrder, CodesAreKnown
<1>5. CASE UNCHANGED update /\ lost' = lost \cup {n}
  BY <1>1, <1>3, <1>4, <1>5, CommandsKeep
<1>6. CASE AnswerOk(n) /\ UNCHANGED lost
  <2> DEFINE row == [update[n] EXCEPT !.answered = TRUE]
  <2>1. update' = [update EXCEPT ![n] = row]
    BY <1>1, <1>6 DEF AnswerOk
  <2>2. row \in Update /\ row.sent /\ row.answered /\ row.code = update[n].code
    <3>1. update[n] \in Update
      BY <1>4
    <3>2. /\ row \in Update /\ row.answered
          /\ (row.sent <=> update[n].sent) /\ row.code = update[n].code
      BY <3>1 DEF Update
    <3>3. QED
      BY <1>4, <3>2
  <2> HIDE DEF row
  <2>3. /\ update' \in [Updates -> Update] /\ update'[n] = row
        /\ \A m \in Updates \ {n} : update'[m] = update[m]
    BY <1>1, <2>1, <2>2
  <2>4. QED
    BY <1>1, <1>3, <1>4, <1>6, <2>2, <2>3, CommandsKeep
<1>7. QED
  BY <1>5, <1>6

LEMMA CommandGoesOn ==
  ASSUME BridgeInv, NEW n \in Updates,
         TestCode(n) \/ ReadLink(n) \/ CrashCommand(n) \/ (CommitRedeem(n) /\ Fails(n))
  PROVE  BridgeInv'
<1>1. /\ BridgeTypeOK /\ CodesAreKnown /\ UpdatesAreInOrder /\ BoundCodesAreSpent /\ FirstToRedeem
      /\ update \in [Updates -> Update] /\ start \in [Updates -> Start] /\ seen \subseteq Updates
      /\ processed \in [Updates -> Nat] /\ lost \subseteq Updates
  BY DEF BridgeInv, BridgeTypeOK
<1>2. start[n] \in Start /\ start[n].linked \in BOOLEAN /\ start[n].late \in BOOLEAN
  BY <1>1 DEF Start
<1>3. CASE CrashCommand(n)
  BY <1>3, CommandEnds DEF CrashCommand
<1>4. CASE CommitRedeem(n) /\ Fails(n)
  BY <1>4, CommandEnds DEF CommitRedeem
<1>5. CASE TestCode(n) /\ ~MayRedeem(n)
  BY <1>5, CommandEnds DEF TestCode
<1>6. ASSUME NEW row \in Start, row.pc \in {"redeem", "write"}, row.late <=> start[n].late,
             start[n].pc # "idle", start' = [start EXCEPT ![n] = row],
             UNCHANGED <<code, chatOf, update, seen, making, bound, contested, processed, lost>>,
             ~start[n].late => \A m \in Updates : bound[m].code # update[n].code
      PROVE  BridgeInv'
  <2>1. /\ start' \in [Updates -> Start] /\ start'[n] = row
        /\ \A m \in Updates \ {n} : start'[m] = start[m]
    BY <1>1, <1>6
  <2>2. /\ n \in seen /\ processed[n] = 1 /\ update[n].sent /\ update[n].code \in DOMAIN code
        /\ ~update[n].answered /\ bound[n] = [chat |-> NoChat, code |-> 0]
    BY <1>1, <1>6 DEF UpdatesAreInOrder, CodesAreKnown
  <2>3. QED
    BY <1>1, <1>6, <2>1, <2>2, CommandsKeep
<1>7. CASE TestCode(n) /\ MayRedeem(n)
  <2>1. code[update[n].code].state = "unused"
    BY <1>7 DEF MayRedeem, CodeOf
  <2>2. \A m \in Updates : bound[m].code # update[n].code
    <3> SUFFICES ASSUME NEW m \in Updates, bound[m].code = update[n].code PROVE FALSE
      OBVIOUS
    <3>1. update[n].code \in DOMAIN code /\ code \in Seq(LinkCode)
      BY <1>1, <1>7 DEF TestCode, UpdatesAreInOrder, CodesAreKnown, BridgeTypeOK
    <3>2. update[n].code # 0
      BY <3>1
    <3>3. QED
      BY <1>1, <2>1, <3>2 DEF BoundCodesAreSpent
  <2> DEFINE row == [start[n] EXCEPT !.pc = "redeem"]
  <2>3. row \in Start /\ row.pc = "redeem" /\ (row.late <=> start[n].late)
    BY <1>2 DEF Start
  <2>4. start' = [start EXCEPT ![n] = row] /\ start[n].pc # "idle"
    BY <1>1, <1>7 DEF TestCode
  <2>5. UNCHANGED <<code, chatOf, update, seen, making, bound, contested, processed, lost>>
    BY <1>7 DEF TestCode
  <2> HIDE DEF row
  <2>6. QED
    BY <1>6, <2>2, <2>3, <2>4, <2>5
<1>8. CASE ReadLink(n)
  <2>1. PICK l \in BOOLEAN : l <=> chatOf[CodeOf(n).user] # NoChat
    OBVIOUS
  <2>2. /\ start' = [start EXCEPT ![n].pc = "write", ![n].linked = chatOf[CodeOf(n).user] # NoChat]
        /\ start[n].pc = "redeem"
        /\ UNCHANGED <<code, chatOf, update, seen, making, bound, contested, processed, lost>>
    BY <1>8 DEF ReadLink
  <2> DEFINE row == [start[n] EXCEPT !.pc = "write", !.linked = l]
  <2>3. row \in Start /\ row.pc = "write" /\ (row.late <=> start[n].late)
    BY <1>2, <2>1 DEF Start
  <2>4. start' = [start EXCEPT ![n] = row]
    BY <1>1, <1>2, <2>1, <2>2
  <2>5. ~start[n].late => \A m \in Updates : bound[m].code # update[n].code
    BY <1>1, <2>2 DEF FirstToRedeem
  <2> HIDE DEF row
  <2>6. QED
    BY <1>6, <2>2, <2>3, <2>4, <2>5
<1>9. QED
  BY <1>3, <1>4, <1>5, <1>7, <1>8 DEF TestCode

\* A code is redeemed: the chat was nobody else's, and whoever redeems it after another has done
\* so was late.
LEMMA RedeemKeeps ==
  ASSUME BridgeInv, NEW n \in Updates, CommitRedeem(n), ~Fails(n)
  PROVE  BridgeInv'
<1> DEFINE c == update[n].code
           mine == code[c].user
           chat == update[n].chat
<1>1. /\ BridgeTypeOK /\ CodesAreKnown /\ UpdatesAreInOrder /\ BoundCodesAreSpent /\ FirstToRedeem
      /\ CodeBindsOnce /\ ChatsAreOwn
      /\ update \in [Updates -> Update] /\ start \in [Updates -> Start] /\ seen \subseteq Updates
      /\ code \in Seq(LinkCode) /\ chatOf \in [Members -> Chats \cup {NoChat}]
      /\ bound \in [Updates -> [chat : Chats \cup {NoChat}, code : 0..MaxCodes]]
  BY DEF BridgeInv, BridgeTypeOK
<1>2. /\ code' = [code EXCEPT ![c].state = "used"]
      /\ chatOf' = [chatOf EXCEPT ![mine] = chat]
      /\ bound' = [bound EXCEPT ![n] = [chat |-> chat, code |-> c]]
      /\ contested' = IF start[n].late THEN contested \cup {c} ELSE contested
      /\ start' = [m \in Updates |->
           IF m = n THEN Resting
           ELSE [start[m] EXCEPT !.late = @ \/ (start[m].pc \in {"redeem", "write"} /\ update[m].code = c)]]
      /\ AnswerOk(n) /\ start[n].pc = "write"
      /\ UNCHANGED <<seen, making, processed, lost>>
  BY DEF CommitRedeem
<1>3. update[n] \in Update /\ chat \in Chats /\ chat # NoChat /\ c \in 0..MaxCodes
  BY <1>1, BridgeAssumption DEF Update, BridgeAssumption
<1>4. /\ n \in seen /\ update[n].sent /\ ~update[n].answered /\ c \in DOMAIN code
      /\ bound[n] = [chat |-> NoChat, code |-> 0] /\ processed[n] = 1
  BY <1>1, <1>2 DEF UpdatesAreInOrder, CodesAreKnown
<1>5. /\ c \in 1..Len(code) /\ Len(code) \in Nat /\ c # 0 /\ c \in Codes /\ code[c] \in LinkCode
      /\ mine \in Members
  <2>1. c \in 1..Len(code) /\ Len(code) \in Nat /\ Len(code) <= MaxCodes
    BY <1>1, <1>4 DEF CodesAreKnown
  <2>2. code[c] \in LinkCode
    BY <1>1, <2>1
  <2>3. c # 0 /\ c \in Codes
    BY <2>1, BridgeAssumption DEF Codes, BridgeAssumption
  <2>4. QED
    BY <2>1, <2>2, <2>3 DEF LinkCode
<1> DEFINE row == [update[n] EXCEPT !.answered = TRUE]
           rest(m) == [start[m] EXCEPT !.late = @ \/ (start[m].pc \in {"redeem", "write"} /\ update[m].code = c)]
<1>6. row \in Update /\ row.answered /\ (row.sent <=> update[n].sent) /\ row.code = c /\ row.chat = chat
  BY <1>3 DEF Update
<1>7. update' = [update EXCEPT ![n] = row]
  BY <1>1, <1>2 DEF AnswerOk
<1>8. /\ update' \in [Updates -> Update]
      /\ \A m \in Updates : /\ update'[m].code = update[m].code /\ (update'[m].sent <=> update[m].sent)
                            /\ update'[m].answered <=> (m = n \/ update[m].answered)
  <2> HIDE DEF row
  <2>1. QED
    BY <1>1, <1>6, <1>7
<1>9. ASSUME NEW m \in Updates, m # n
      PROVE  /\ rest(m) \in Start /\ rest(m).pc = start[m].pc
             /\ ~rest(m).late /\ start[m].pc \in {"redeem", "write"} => ~start[m].late /\ update[m].code # c
  <2>1. PICK l \in BOOLEAN : l <=> start[m].late \/ (start[m].pc \in {"redeem", "write"} /\ update[m].code = c)
    OBVIOUS
  <2>2. start[m] \in Start /\ start[m].late \in BOOLEAN
    BY <1>1 DEF Start
  <2>3. rest(m) = [start[m] EXCEPT !.late = l]
    BY <2>1, <2>2, Zenon
  <2>4. [start[m] EXCEPT !.late = l] \in Start /\ [start[m] EXCEPT !.late = l].pc = start[m].pc
    BY <2>1, <2>2 DEF Start
  <2>5. [start[m] EXCEPT !.late = l].late <=> l
    BY <2>1, <2>2 DEF Start
  <2>6. QED
    BY <2>1, <2>3, <2>4, <2>5
<1>10. Resting \in Start /\ Resting.pc = "idle"
  BY DEF Resting, Start
<1>11. /\ start' \in [Updates -> Start] /\ start'[n].pc = "idle"
       /\ \A m \in Updates \ {n} :
            /\ start'[m].pc = start[m].pc
            /\ ~start'[m].late /\ start[m].pc \in {"redeem", "write"} => ~start[m].late /\ update[m].code # c
  BY <1>2, <1>9, <1>10
<1>12. /\ code' \in Seq(LinkCode) /\ Len(code') = Len(code) /\ DOMAIN code' = DOMAIN code
       /\ code'[c].state = "used" /\ \A d \in DOMAIN code : code'[d].user = code[d].user
       /\ \A d \in DOMAIN code : d # c => code'[d] = code[d]
  <2>1. [code[c] EXCEPT !.state = "used"] \in LinkCode
    BY <1>5 DEF LinkCode
  <2>2. code' = [code EXCEPT ![c] = [code[c] EXCEPT !.state = "used"]]
    BY <1>1, <1>2
  <2>3. [code[c] EXCEPT !.state = "used"].state = "used" /\ [code[c] EXCEPT !.state = "used"].user = code[c].user
    BY <1>5 DEF LinkCode
  <2>4. PICK spent : spent = [code[c] EXCEPT !.state = "used"]
    OBVIOUS
  <2>5. spent \in LinkCode /\ spent.state = "used" /\ spent.user = code[c].user /\ code' = [code EXCEPT ![c] = spent]
    BY <2>1, <2>2, <2>3, <2>4
  <2> HIDE DEF c, mine, chat
  <2>6. /\ code' \in Seq(LinkCode) /\ Len(code') = Len(code) /\ DOMAIN code' = DOMAIN code
        /\ code'[c] = spent /\ \A d \in DOMAIN code : d # c => code'[d] = code[d]
    BY <1>1, <1>4, <2>5
  <2>7. QED
    BY <2>5, <2>6
<1>13. /\ bound' \in [Updates -> [chat : Chats \cup {NoChat}, code : 0..MaxCodes]]
       /\ bound'[n] = [chat |-> chat, code |-> c] /\ bound'[n].code = c /\ bound'[n].chat = chat
       /\ \A m \in Updates \ {n} : bound'[m] = bound[m]
  BY <1>1, <1>2, <1>3
<1>14. /\ chatOf' \in [Members -> Chats \cup {NoChat}] /\ chatOf'[mine] = chat
       /\ \A v \in Members \ {mine} : chatOf'[v] = chatOf[v] /\ chatOf[v] # chat
  BY <1>1, <1>2, <1>3, <1>5 DEF Fails, CodeOf
<1> HIDE DEF c, mine, chat, row, rest
<1>15. BridgeTypeOK'
  <2>1. contested' \subseteq Codes
    BY <1>1, <1>2, <1>5 DEF BridgeTypeOK
  <2>2. QED
    BY <1>1, <1>2, <1>8, <1>11, <1>12, <1>13, <1>14, <2>1 DEF BridgeTypeOK
<1>16. CodesAreKnown'
  BY <1>1, <1>2, <1>8, <1>12 DEF CodesAreKnown
<1>17. UpdatesAreInOrder'
  <2> SUFFICES ASSUME NEW m \in Updates
               PROVE  /\ processed'[m] = IF m \in seen' THEN 1 ELSE 0
                      /\ m \in seen' => update'[m].sent
                      /\ m \notin seen' => start'[m].pc = "idle" /\ ~update'[m].answered /\ bound'[m].code = 0
                      /\ start'[m].pc # "idle" =>
                           update'[m].sent /\ ~update'[m].answered /\ bound'[m] = [chat |-> NoChat, code |-> 0]
                      /\ m \in seen' /\ start'[m].pc = "idle" /\ ~update'[m].answered => m \in lost'
    BY DEF UpdatesAreInOrder
  <2>1. /\ processed[m] = IF m \in seen THEN 1 ELSE 0
        /\ m \in seen => update[m].sent
        /\ m \notin seen => start[m].pc = "idle" /\ ~update[m].answered /\ bound[m].code = 0
        /\ start[m].pc # "idle" =>
             update[m].sent /\ ~update[m].answered /\ bound[m] = [chat |-> NoChat, code |-> 0]
        /\ m \in seen /\ start[m].pc = "idle" /\ ~update[m].answered => m \in lost
    BY <1>1 DEF UpdatesAreInOrder
  <2>2. processed'[m] = IF m \in seen' THEN 1 ELSE 0
    BY <1>2, <2>1
  <2>3. m \in seen' => update'[m].sent
    BY <1>2, <1>8, <2>1
  <2>4. m \notin seen' => start'[m].pc = "idle" /\ ~update'[m].answered /\ bound'[m].code = 0
    BY <1>2, <1>4, <1>8, <1>11, <1>13, <2>1
  <2>5. start'[m].pc # "idle" =>
          update'[m].sent /\ ~update'[m].answered /\ bound'[m] = [chat |-> NoChat, code |-> 0]
    BY <1>8, <1>11, <1>13, <2>1
  <2>6. m \in seen' /\ start'[m].pc = "idle" /\ ~update'[m].answered => m \in lost'
    BY <1>2, <1>8, <1>11, <2>1
  <2>7. QED
    BY <2>2, <2>3, <2>4, <2>5, <2>6
<1>18. BoundCodesAreSpent'
  <2>1. ASSUME NEW m \in Updates
        PROVE  /\ bound'[m].code = 0 => bound'[m].chat = NoChat
               /\ bound'[m].code # 0 => bound'[m].code \in DOMAIN code' /\ code'[bound'[m].code].state # "unused"
    <3>1. CASE m = n
      BY <1>4, <1>5, <1>12, <1>13, <3>1
    <3>2. CASE m # n
      BY <1>1, <1>12, <1>13, <3>2 DEF BoundCodesAreSpent
    <3>3. QED
      BY <3>1, <3>2
  <2>2. QED
    BY <2>1 DEF BoundCodesAreSpent
<1>19. FirstToRedeem'
  <2> SUFFICES ASSUME NEW m \in Updates, start'[m].pc \in {"redeem", "write"}, ~start'[m].late,
                      NEW k \in Updates
               PROVE  bound'[k].code # update'[m].code
    BY DEF FirstToRedeem
  <2>1. m # n
    BY <1>11
  <2>2. start[m].pc \in {"redeem", "write"} /\ ~start[m].late /\ update[m].code # c
    BY <1>11, <2>1
  <2>3. bound[k].code # update[m].code
    BY <1>1, <2>2 DEF FirstToRedeem
  <2>4. QED
    BY <1>8, <1>13, <2>2, <2>3
<1>20. CodeBindsOnce'
  <2> SUFFICES ASSUME NEW m \in Updates, NEW k \in Updates, bound'[m].code # 0,
                      bound'[m].code = bound'[k].code, m # k
               PROVE  bound'[m].code \in contested'
    BY DEF CodeBindsOnce
  <2>1. contested \subseteq contested'
    BY <1>2
  <2>2. CASE m # n /\ k # n
    BY <1>1, <1>13, <2>1, <2>2 DEF CodeBindsOnce
  <2>3. CASE m = n \/ k = n
    <3>1. PICK o \in Updates : bound[o].code = c
      BY <1>13, <2>3
    <3>2. start[n].late
      BY <1>1, <1>2, <3>1 DEF FirstToRedeem, c
    <3>3. QED
      BY <1>2, <1>13, <2>3, <3>2
  <2>4. QED
    BY <2>2, <2>3
<1>21. ChatsAreOwn'
  <2>1. \A u, v \in Members : chatOf'[u] # NoChat /\ chatOf'[u] = chatOf'[v] => u = v
    BY <1>1, <1>14 DEF ChatsAreOwn
  <2>2. ASSUME NEW u \in Members, chatOf'[u] # NoChat
        PROVE  \E m \in Updates : bound'[m].chat = chatOf'[u] /\ code'[bound'[m].code].user = u
    <3>1. CASE u = mine
      BY <1>4, <1>12, <1>13, <1>14, <3>1 DEF mine
    <3>2. CASE u # mine
      <4>1. PICK m \in Updates : bound[m].chat = chatOf[u] /\ code[bound[m].code].user = u
        BY <1>1, <1>14, <2>2, <3>2 DEF ChatsAreOwn
      <4>2. chatOf[u] # NoChat /\ m # n
        BY <1>4, <1>14, <2>2, <3>2, <4>1
      <4>3. bound[m].code \in DOMAIN code
        BY <1>1, <4>1, <4>2 DEF BoundCodesAreSpent
      <4>4. QED
        BY <1>12, <1>13, <1>14, <3>2, <4>1, <4>2, <4>3
    <3>3. QED
      BY <3>1, <3>2
  <2>3. QED
    BY <2>1, <2>2 DEF ChatsAreOwn
<1>22. QED
  BY <1>15, <1>16, <1>17, <1>18, <1>19, <1>20, <1>21 DEF BridgeInv

LEMMA BridgeStep ==
  ASSUME BridgeInv, [BridgeNext]_bridgeVars
  PROVE  BridgeInv'
<1>1. CASE BridgeNext
  <2>1. ASSUME NEW u \in Members, ReadCodes(u) \/ CreateCode(u) \/ UnlinkChat(u) PROVE BridgeInv'
    BY <2>1, MakingKeeps, UnlinkKeeps
  <2>2. ASSUME NEW c \in DOMAIN code, ExpireCode(c) PROVE BridgeInv'
    BY <2>2, ExpiryKeeps
  <2>3. ASSUME NEW n \in Updates, NEW chat \in Chats, NEW c \in Codes, Send(n, chat, c) PROVE BridgeInv'
    BY <2>3, SendKeeps
  <2>4. ASSUME NEW n \in Updates, Deliver(n) \/ CrashCommand(n) \/ Dispatch(n) PROVE BridgeInv'
    BY <2>4, DeliverKeeps, CommandGoesOn, RedeemKeeps DEF Dispatch
  <2>5. QED
    BY <1>1, <2>1, <2>2, <2>3, <2>4 DEF BridgeNext
<1>2. CASE UNCHANGED bridgeVars
  BY <1>2 DEF bridgeVars, BridgeInv, BridgeTypeOK, CodesAreKnown, UpdatesAreInOrder, BoundCodesAreSpent,
              FirstToRedeem, CodeBindsOnce, ChatsAreOwn
<1>3. QED
  BY <1>1, <1>2

\* However redemptions race and updates are delivered again: a code binds one chat unless two
\* commands had read it at once, a chat is one member's, and a command is carried out once.
THEOREM BridgeIsSound == BridgeSpec => [](BridgeTypeOK /\ BridgeSafe)
<1>1. BridgeInit => BridgeInv
  BY BridgeStart
<1>2. BridgeInv /\ [BridgeNext]_bridgeVars => BridgeInv'
  BY BridgeStep
<1>3. BridgeInv => BridgeTypeOK /\ BridgeSafe
  BY BridgeIsSafe
<1>4. QED
  BY <1>1, <1>2, <1>3, PTL DEF BridgeSpec

-----------------------------------------------------------------------------
(***************************************************************************)
(* The conversations.  A question that no other one crossed has its answer *)
(* right after it, or nothing after it and at most one turn that asks.     *)
(***************************************************************************)
HasAnswer(m) == \E n \in DOMAIN message : message[n].of = m

AnswersHaveQuestions ==
  /\ message \in Seq(Message) /\ Len(message) <= MaxMessages
  /\ \A n \in DOMAIN message :
       LET q == message[n].of IN
         /\ message[n].conversation \in DOMAIN conversation
         /\ message[n].role = "user" => q = 0
         /\ message[n].role = "assistant" =>
              /\ q \in DOMAIN message /\ q < n /\ message[q].role = "user"
              /\ message[q].conversation = message[n].conversation
  /\ \A pair \in shown : pair[1] \in DOMAIN message /\ pair[2] \in DOMAIN message

\* Of the conversations that were never crossed: an answer is the next message after its
\* question, and what has no answer is the last message.
QuestionsAreInOrder ==
  \A m \in DOMAIN message : message[m].role = "user" /\ message[m].conversation \notin crossed =>
    /\ HasAnswer(m) => \E n \in Later(m) : message[n].of = m /\ \A o \in Later(m) : n <= o
    /\ ~HasAnswer(m) => Later(m) = {}

TurnsAreRight ==
  \A t \in Turns :
    /\ turn[t].pc = "post" => turn[t].conversation \in DOMAIN conversation
    /\ turn[t].pc = "call" =>
         LET q == turn[t].question IN
           /\ q \in DOMAIN message /\ message[q].role = "user"
           /\ message[q].conversation = turn[t].conversation
           /\ turn[t].conversation \notin crossed =>
                ~HasAnswer(q) /\ \A s \in Turns : s # t /\ turn[s].pc = "call" => turn[s].question # q

\* Who counted the open conversations before nobody else opened one found room for one.
CountsAreRight ==
  ~crowded => /\ Cardinality(OpenConversations) <= MaxOpen
              /\ \A t \in Turns : turn[t].pc = "open" /\ ~turn[t].late =>
                   Cardinality(OpenConversations) < MaxOpen

TalkInv ==
  TalkTypeOK /\ Len(conversation) <= MaxConversations /\ AnswersHaveQuestions /\ QuestionsAreInOrder
    /\ TurnsAreRight /\ CountsAreRight /\ AnswersAreOwn

LEMMA NoTurnIsTurn == NoTurn \in Turn /\ NoTurn.pc = "idle"
BY ConversationAssumption DEF NoTurn, Turn, ChatSources, ConversationAssumption

LEMMA TalkIsSound == TalkInv => TalkTypeOK /\ TalksAreSound
<1> SUFFICES ASSUME TalkInv PROVE TalkTypeOK /\ TalksAreSound
  OBVIOUS
<1>1. OpenWithinLimit
  BY DEF TalkInv, CountsAreRight, OpenWithinLimit
<1>2. QED
  BY <1>1 DEF TalkInv, TalksAreSound

LEMMA TalkStart == TalkInit => TalkInv
<1> SUFFICES ASSUME TalkInit PROVE TalkInv
  OBVIOUS
<1> USE DEF TalkInit
<1>1. /\ conversation \in Seq(Conversation) /\ message \in Seq(Message)
      /\ Len(conversation) = 0 /\ Len(message) = 0 /\ DOMAIN message = {} /\ DOMAIN conversation = {}
  OBVIOUS
<1>2. TalkTypeOK /\ Len(conversation) <= MaxConversations /\ Len(message) <= MaxMessages
  BY <1>1, NoTurnIsTurn, ConversationAssumption DEF TalkTypeOK, ConversationAssumption
<1>3. AnswersHaveQuestions /\ QuestionsAreInOrder /\ AnswersAreOwn
  BY <1>1, <1>2 DEF AnswersHaveQuestions, QuestionsAreInOrder, AnswersAreOwn
<1>4. TurnsAreRight
  BY NoTurnIsTurn DEF TurnsAreRight
<1>5. CountsAreRight
  <2>1. OpenConversations = {}
    BY <1>1 DEF OpenConversations
  <2>2. Cardinality(OpenConversations) = 0
    BY <2>1, FS_EmptySet
  <2>3. QED
    BY <2>2, NoTurnIsTurn, ConversationAssumption DEF CountsAreRight, ConversationAssumption
<1>6. QED
  BY <1>1, <1>2, <1>3, <1>4, <1>5 DEF TalkInv

\* A message is added at the end.
LEMMA MessageGrows ==
  ASSUME AnswersHaveQuestions, NEW r \in Message, message' = Append(message, r)
  PROVE  /\ message' \in Seq(Message) /\ Len(message) \in Nat /\ Len(message') = Len(message) + 1
         /\ DOMAIN message = 1..Len(message) /\ DOMAIN message' = 1..(Len(message) + 1)
         /\ message'[Len(message) + 1] = r
         /\ \A m \in DOMAIN message : /\ m \in DOMAIN message' /\ m < Len(message) + 1 /\ m \in Nat
                                      /\ message'[m] = message[m] /\ message[m] \in Message
         /\ \A m \in DOMAIN message' : m \in DOMAIN message \/ m = Len(message) + 1
<1>1. message \in Seq(Message) /\ Len(message) \in Nat /\ DOMAIN message = 1..Len(message)
  BY DEF AnswersHaveQuestions
<1>2. /\ message' \in Seq(Message) /\ Len(message') = Len(message) + 1
      /\ message'[Len(message) + 1] = r
      /\ \A m \in 1..Len(message) : message'[m] = message[m]
  BY <1>1
<1>3. DOMAIN message' = 1..(Len(message) + 1)
  BY <1>2
<1>4. \A m \in 1..Len(message) : message[m] \in Message
  BY <1>1
<1>5. QED
  BY <1>1, <1>2, <1>3, <1>4

\* A question is added: nothing is answered by it, and in a conversation that stays uncrossed
\* every question before it has its answer.
LEMMA QuestionKeeps ==
  ASSUME TalkInv, Len(message) < MaxMessages,
         NEW c \in DOMAIN conversation', c \in 1..MaxConversations,
         DOMAIN conversation \subseteq DOMAIN conversation',
         message' = Append(message, [conversation |-> c, role |-> "user", of |-> 0]),
         crossed \subseteq crossed', Unanswered(c) = {} \/ c \in crossed', UNCHANGED shown
  PROVE  /\ AnswersHaveQuestions' /\ QuestionsAreInOrder' /\ AnswersAreOwn'
         /\ \A m \in DOMAIN message : HasAnswer(m)' => HasAnswer(m)
         /\ \A n \in DOMAIN message' : message'[n].of # Len(message) + 1
<1> DEFINE r == [conversation |-> c, role |-> "user", of |-> 0]
<1>0. PICK e \in {Len(message) + 1} : TRUE
  OBVIOUS
<1>1. r \in Message /\ r.conversation = c /\ r.role = "user" /\ r.of = 0
  BY ConversationAssumption DEF Message, ConversationAssumption
<1>2. /\ TalkTypeOK /\ AnswersHaveQuestions /\ QuestionsAreInOrder /\ AnswersAreOwn
  BY DEF TalkInv
<1>3. message' = Append(message, r)
  OBVIOUS
<1> HIDE DEF r
<1>4. /\ message' \in Seq(Message) /\ Len(message) \in Nat /\ Len(message') = e
      /\ DOMAIN message = 1..Len(message) /\ DOMAIN message' = 1..e /\ e \in DOMAIN message'
      /\ message'[e] = r
      /\ \A m \in DOMAIN message : /\ m \in DOMAIN message' /\ m < e /\ m \in Nat
                                   /\ message'[m] = message[m] /\ message[m] \in Message
      /\ \A m \in DOMAIN message' : m \in DOMAIN message \/ m = e
  BY <1>0, <1>1, <1>2, <1>3, MessageGrows
<1>5. e \in Nat /\ e # 0 /\ e \notin DOMAIN message
  BY <1>0, <1>4
<1>6. ASSUME NEW m \in Nat, m # 0 PROVE HasAnswer(m)' <=> HasAnswer(m)
  BY <1>1, <1>4, <1>6 DEF HasAnswer
<1>7. ~HasAnswer(e)'
  <2>1. ~HasAnswer(e)
    <3> SUFFICES ASSUME NEW n \in DOMAIN message, message[n].of = e PROVE FALSE
      BY DEF HasAnswer
    <3>1. message[n].role \in {"user", "assistant"}
      BY <1>4 DEF Message
    <3>2. CASE message[n].role = "user"
      BY <1>2, <1>5, <3>2 DEF AnswersHaveQuestions
    <3>3. CASE message[n].role = "assistant"
      <4>1. message[n].of \in DOMAIN message
        BY <1>2, <3>3 DEF AnswersHaveQuestions
      <4>2. QED
        BY <1>5, <4>1
    <3>4. QED
      BY <3>1, <3>2, <3>3
  <2>2. QED
    BY <1>5, <1>6, <2>1
<1>8. AnswersHaveQuestions'
  <2>1. Len(message') <= MaxMessages
    BY <1>0, <1>4, ConversationAssumption DEF ConversationAssumption
  <2>2. ASSUME NEW n \in DOMAIN message'
        PROVE  LET q == message'[n].of IN
                 /\ message'[n].conversation \in DOMAIN conversation'
                 /\ message'[n].role = "user" => q = 0
                 /\ message'[n].role = "assistant" =>
                      /\ q \in DOMAIN message' /\ q < n /\ message'[q].role = "user"
                      /\ message'[q].conversation = message'[n].conversation
    <3>1. CASE n = e
      BY <1>1, <1>4, <3>1
    <3>2. CASE n # e
      <4>1. n \in DOMAIN message /\ message'[n] = message[n]
        BY <1>4, <3>2
      <4>2. QED
        BY <1>2, <1>4, <4>1 DEF AnswersHaveQuestions
    <3>3. QED
      BY <3>1, <3>2
  <2>3. \A pair \in shown' : pair[1] \in DOMAIN message' /\ pair[2] \in DOMAIN message'
    BY <1>2, <1>4 DEF AnswersHaveQuestions
  <2>4. QED
    BY <1>4, <2>1, <2>2, <2>3 DEF AnswersHaveQuestions
<1>9. QuestionsAreInOrder'
  <2> SUFFICES ASSUME NEW m \in DOMAIN message', message'[m].role = "user",
                      message'[m].conversation \notin crossed'
               PROVE  /\ HasAnswer(m)' => \E n \in Later(m)' : message'[n].of = m /\ \A o \in Later(m)' : n <= o
                      /\ ~HasAnswer(m)' => Later(m)' = {}
    BY DEF QuestionsAreInOrder
  <2>1. CASE m = e
    <3>1. Later(m)' = {}
      BY <1>4, <1>5, <2>1 DEF Later
    <3>2. ~HasAnswer(m)'
      BY <1>7, <2>1 DEF HasAnswer
    <3>3. QED
      BY <3>1, <3>2
  <2>2. CASE m # e
    <3>1. m \in DOMAIN message /\ message'[m] = message[m] /\ m \in Nat /\ m # 0
      BY <1>4, <2>2
    <3>2. CASE message[m].conversation = c
      <4>1. HasAnswer(m)
        BY <3>1, <3>2 DEF Unanswered, HasAnswer
      <4>2. PICK n \in Later(m) : message[n].of = m /\ \A o \in Later(m) : n <= o
        BY <1>2, <3>1, <4>1 DEF QuestionsAreInOrder
      <4>3. n \in DOMAIN message /\ n \in Later(m)' /\ message'[n].of = m /\ n \in Nat /\ n < e
        BY <1>4, <3>1, <4>2 DEF Later
      <4>4. \A o \in Later(m)' : o \in Later(m) \/ o = e
        BY <1>4, <3>1 DEF Later
      <4>5. \A o \in Later(m)' : n <= o
        BY <1>5, <4>2, <4>3, <4>4
      <4>6. QED
        BY <1>6, <3>1, <4>1, <4>3, <4>5
    <3>3. CASE message[m].conversation # c
      <4>1. Later(m)' = Later(m)
        BY <1>1, <1>4, <3>1, <3>3 DEF Later
      <4>2. \A n \in Later(m) : message'[n] = message[n]
        BY <1>4 DEF Later
      <4>3. HasAnswer(m)' <=> HasAnswer(m)
        BY <1>6, <3>1
      <4>4. /\ HasAnswer(m) => \E n \in Later(m) : message[n].of = m /\ \A o \in Later(m) : n <= o
            /\ ~HasAnswer(m) => Later(m) = {}
        BY <1>2, <3>1 DEF QuestionsAreInOrder
      <4>5. QED
        BY <4>1, <4>2, <4>3, <4>4
    <3>4. QED
      BY <3>2, <3>3
  <2>3. QED
    BY <2>1, <2>2
<1>10. AnswersAreOwn'
  <2>1. ASSUME NEW m \in DOMAIN message', NEW n \in DOMAIN message',
               message'[m].role = "assistant", message'[m].of = message'[n].of, m # n
        PROVE  message'[m].conversation \in crossed'
    <3>1. m \in DOMAIN message /\ message'[m] = message[m]
      BY <1>1, <1>4, <2>1
    <3>2. message[m].of # 0
      BY <1>2, <1>4, <2>1, <3>1 DEF AnswersHaveQuestions
    <3>3. n \in DOMAIN message /\ message'[n] = message[n]
      BY <1>1, <1>4, <2>1, <3>1, <3>2
    <3>4. QED
      BY <1>2, <2>1, <3>1, <3>3 DEF AnswersAreOwn
  <2>2. ASSUME NEW pair \in shown'
        PROVE  message'[pair[2]].of = pair[1] \/ message'[pair[1]].conversation \in crossed'
    <3>1. pair[1] \in DOMAIN message /\ pair[2] \in DOMAIN message
      BY <1>2, <2>2 DEF AnswersHaveQuestions
    <3>2. message[pair[2]].of = pair[1] \/ message[pair[1]].conversation \in crossed
      BY <1>2, <2>2 DEF AnswersAreOwn
    <3>3. QED
      BY <1>4, <3>1, <3>2
  <2>3. QED
    BY <2>1, <2>2 DEF AnswersAreOwn
<1>11. \A m \in DOMAIN message : HasAnswer(m)' => HasAnswer(m)
  <2>1. \A m \in DOMAIN message : m \in Nat /\ m # 0
    BY <1>4
  <2>2. QED
    BY <1>6, <2>1
<1>12. \A n \in DOMAIN message' : message'[n].of # Len(message) + 1
  BY <1>0, <1>7 DEF HasAnswer
<1>13. QED
  BY <1>8, <1>9, <1>10, <1>11, <1>12

\* An answer is added: of a question that nobody else asked, in a conversation that was not
\* crossed, and then it stands right after it.
LEMMA AnswerKeeps ==
  ASSUME TalkInv, NEW t \in Turns, StoreAnswer(t)
  PROVE  /\ AnswersHaveQuestions' /\ QuestionsAreInOrder' /\ AnswersAreOwn'
         /\ shown' \subseteq (1..MaxMessages) \X (1..MaxMessages)
         /\ \A m \in DOMAIN message : HasAnswer(m)' => m = turn[t].question \/ HasAnswer(m)
<1>0. PICK e \in {Len(message) + 1}, c \in {turn[t].conversation}, q \in {turn[t].question} : TRUE
  OBVIOUS
<1> DEFINE r == [conversation |-> c, role |-> "assistant", of |-> q]
<1>2. /\ TalkTypeOK /\ AnswersHaveQuestions /\ QuestionsAreInOrder /\ AnswersAreOwn /\ TurnsAreRight
      /\ turn[t].pc = "call" /\ turn[t] \in Turn
  BY DEF TalkInv, TalkTypeOK, StoreAnswer
<1>1. /\ q \in DOMAIN message /\ message[q].role = "user" /\ message[q].conversation = c
      /\ c \notin crossed => ~HasAnswer(q)
  BY <1>0, <1>2 DEF TurnsAreRight
<1>3. /\ message' = Append(message, r) /\ Len(message) < MaxMessages
      /\ UNCHANGED <<conversation, crossed>>
      /\ shown' = shown \/ shown' = shown \cup {<<q, e>>}
  BY <1>0 DEF StoreAnswer
<1>13. r \in Message /\ r.conversation = c /\ r.role = "assistant" /\ r.of = q
  <2>1. message \in Seq(Message) /\ Len(message) <= MaxMessages
    BY <1>2 DEF AnswersHaveQuestions
  <2>2. message[q] \in Message /\ q \in 1..Len(message) /\ Len(message) \in Nat
    BY <1>1, <2>1
  <2>3. q \in 0..MaxMessages
    BY <2>1, <2>2, ConversationAssumption DEF ConversationAssumption
  <2>4. c \in 1..MaxConversations
    BY <1>1, <2>2 DEF Message
  <2>5. QED
    BY <2>3, <2>4 DEF Message
<1> HIDE DEF r
<1>4. /\ message' \in Seq(Message) /\ Len(message) \in Nat /\ Len(message') = e
      /\ DOMAIN message = 1..Len(message) /\ DOMAIN message' = 1..e /\ e \in DOMAIN message'
      /\ message'[e] = r
      /\ \A m \in DOMAIN message : /\ m \in DOMAIN message' /\ m < e /\ m \in Nat
                                   /\ message'[m] = message[m] /\ message[m] \in Message
      /\ \A m \in DOMAIN message' : m \in DOMAIN message \/ m = e
  BY <1>0, <1>2, <1>3, <1>13, MessageGrows
<1>5. e \in Nat /\ e # 0 /\ e \notin DOMAIN message /\ q \in Nat /\ q # 0 /\ q < e /\ e \in 1..MaxMessages
  BY <1>0, <1>1, <1>3, <1>4, ConversationAssumption DEF ConversationAssumption
<1>6. /\ HasAnswer(q)'
      /\ \A m \in DOMAIN message : HasAnswer(m)' => m = q \/ HasAnswer(m)
      /\ \A m \in DOMAIN message : HasAnswer(m) => HasAnswer(m)'
  <2>1. HasAnswer(q)'
    BY <1>4, <1>13 DEF HasAnswer
  <2>2. ASSUME NEW m \in DOMAIN message, HasAnswer(m)' PROVE m = q \/ HasAnswer(m)
    <3>1. PICK n \in DOMAIN message' : message'[n].of = m
      BY <2>2 DEF HasAnswer
    <3>2. QED
      BY <1>4, <1>13, <3>1 DEF HasAnswer
  <2>3. ASSUME NEW m \in DOMAIN message, HasAnswer(m) PROVE HasAnswer(m)'
    BY <1>4, <2>3 DEF HasAnswer
  <2>4. QED
    BY <2>1, <2>2, <2>3 DEF HasAnswer
<1>7. shown' \subseteq (1..MaxMessages) \X (1..MaxMessages)
  <2>1. q \in 1..MaxMessages
    BY <1>5, ConversationAssumption DEF ConversationAssumption
  <2>2. QED
    BY <1>2, <1>3, <1>5, <2>1 DEF TalkTypeOK
<1>8. AnswersHaveQuestions'
  <2>1. Len(message') <= MaxMessages
    BY <1>4, <1>5
  <2>2. ASSUME NEW n \in DOMAIN message'
        PROVE  LET p == message'[n].of IN
                 /\ message'[n].conversation \in DOMAIN conversation'
                 /\ message'[n].role = "user" => p = 0
                 /\ message'[n].role = "assistant" =>
                      /\ p \in DOMAIN message' /\ p < n /\ message'[p].role = "user"
                      /\ message'[p].conversation = message'[n].conversation
    <3>1. CASE n = e
      <4>1. message[q].conversation \in DOMAIN conversation
        BY <1>1, <1>2 DEF AnswersHaveQuestions
      <4>2. QED
        BY <1>1, <1>3, <1>4, <1>5, <1>13, <3>1, <4>1
    <3>2. CASE n # e
      <4>1. n \in DOMAIN message /\ message'[n] = message[n]
        BY <1>4, <3>2
      <4>2. QED
        BY <1>2, <1>3, <1>4, <4>1 DEF AnswersHaveQuestions
    <3>3. QED
      BY <3>1, <3>2
  <2>3. \A pair \in shown' : pair[1] \in DOMAIN message' /\ pair[2] \in DOMAIN message'
    <3>1. \A pair \in shown : pair[1] \in DOMAIN message' /\ pair[2] \in DOMAIN message'
      BY <1>2, <1>4 DEF AnswersHaveQuestions
    <3>2. <<q, e>>[1] \in DOMAIN message' /\ <<q, e>>[2] \in DOMAIN message'
      BY <1>1, <1>4
    <3>3. QED
      BY <1>3, <3>1, <3>2
  <2>4. QED
    BY <1>4, <2>1, <2>2, <2>3 DEF AnswersHaveQuestions
<1>9. QuestionsAreInOrder'
  <2> SUFFICES ASSUME NEW m \in DOMAIN message', message'[m].role = "user",
                      message'[m].conversation \notin crossed'
               PROVE  /\ HasAnswer(m)' => \E n \in Later(m)' : message'[n].of = m /\ \A o \in Later(m)' : n <= o
                      /\ ~HasAnswer(m)' => Later(m)' = {}
    BY DEF QuestionsAreInOrder
  <2>1. m # e /\ m \in DOMAIN message /\ message'[m] = message[m] /\ m \in Nat /\ m # 0
    BY <1>4, <1>13
  <2>2. /\ HasAnswer(m) => \E n \in Later(m) : message[n].of = m /\ \A o \in Later(m) : n <= o
        /\ ~HasAnswer(m) => Later(m) = {}
    BY <1>2, <1>3, <2>1 DEF QuestionsAreInOrder
  <2>3. \A o \in Later(m)' : o \in Later(m) \/ o = e
    BY <1>4, <2>1 DEF Later
  <2>4. \A o \in Later(m) : o \in Later(m)' /\ message'[o] = message[o] /\ o < e /\ o \in Nat
    BY <1>4, <2>1 DEF Later
  <2>5. CASE m = q
    <3>1. Later(m) = {}
      BY <1>1, <1>3, <2>1, <2>2, <2>5
    <3>2. e \in Later(m)'
      BY <1>1, <1>4, <1>5, <1>13, <2>1, <2>5 DEF Later
    <3>3. message'[e].of = m
      BY <1>4, <1>13, <2>5
    <3>4. \A o \in Later(m)' : e <= o
      BY <1>5, <2>3, <3>1
    <3>5. HasAnswer(m)'
      BY <1>4, <3>3 DEF HasAnswer
    <3>6. QED
      BY <3>2, <3>3, <3>4, <3>5
  <2>6. CASE m # q /\ HasAnswer(m)
    <3>1. PICK n \in Later(m) : message[n].of = m /\ \A o \in Later(m) : n <= o
      BY <2>2, <2>6
    <3>2. n \in Later(m)' /\ message'[n].of = m /\ n \in Nat /\ n < e
      BY <2>4, <3>1
    <3>3. \A o \in Later(m)' : n <= o
      BY <1>5, <2>3, <3>1, <3>2
    <3>4. HasAnswer(m)'
      BY <1>6, <2>1, <2>6
    <3>5. QED
      BY <3>2, <3>3, <3>4
  <2>7. CASE m # q /\ ~HasAnswer(m)
    <3>1. ~HasAnswer(m)'
      BY <1>6, <2>1, <2>7
    <3>2. Later(m) = {}
      BY <2>2, <2>7
    <3>3. message[m].conversation # c
      <4> SUFFICES ASSUME message[m].conversation = c PROVE FALSE
        OBVIOUS
      <4>1. c \notin crossed /\ message[q].conversation \notin crossed
        BY <1>1, <1>3, <2>1
      <4>2. Later(q) = {}
        BY <1>1, <1>2, <4>1 DEF QuestionsAreInOrder
      <4>3. m < q \/ q < m
        BY <1>5, <2>1, <2>7
      <4>4. QED
        BY <1>1, <2>1, <3>2, <4>2, <4>3 DEF Later
    <3>4. e \notin Later(m)'
      BY <1>4, <1>13, <2>1, <3>3 DEF Later
    <3>5. QED
      BY <2>3, <3>1, <3>2, <3>4
  <2>8. QED
    BY <2>5, <2>6, <2>7
<1>10. AnswersAreOwn'
  <2>1. ASSUME NEW m \in DOMAIN message', NEW n \in DOMAIN message',
               message'[m].role = "assistant", message'[m].of = message'[n].of, m # n
        PROVE  message'[m].conversation \in crossed'
    <3>1. ASSUME NEW k \in DOMAIN message, message[k].of = q
          PROVE  c \in crossed
      BY <1>1, <3>1 DEF HasAnswer
    <3>2. CASE m = e
      BY <1>3, <1>4, <1>13, <2>1, <3>1, <3>2
    <3>3. CASE n = e
      <4>1. m \in DOMAIN message /\ message'[m] = message[m] /\ message[m].of = q
        BY <1>4, <1>13, <2>1, <3>3
      <4>2. message[m].role = "assistant"
        BY <2>1, <4>1
      <4>3. message[q].conversation = message[m].conversation
        BY <1>2, <4>1, <4>2 DEF AnswersHaveQuestions
      <4>4. QED
        BY <1>1, <1>3, <3>1, <4>1, <4>3
    <3>4. CASE m # e /\ n # e
      <4>1. /\ m \in DOMAIN message /\ message'[m] = message[m]
            /\ n \in DOMAIN message /\ message'[n] = message[n]
        BY <1>4, <3>4
      <4>2. QED
        BY <1>2, <1>3, <2>1, <4>1 DEF AnswersAreOwn
    <3>5. QED
      BY <3>2, <3>3, <3>4
  <2>2. ASSUME NEW pair \in shown'
        PROVE  message'[pair[2]].of = pair[1] \/ message'[pair[1]].conversation \in crossed'
    <3>1. CASE pair \in shown
      <4>1. pair[1] \in DOMAIN message /\ pair[2] \in DOMAIN message
        BY <1>2, <3>1 DEF AnswersHaveQuestions
      <4>2. message[pair[2]].of = pair[1] \/ message[pair[1]].conversation \in crossed
        BY <1>2, <3>1 DEF AnswersAreOwn
      <4>3. QED
        BY <1>3, <1>4, <4>1, <4>2
    <3>2. CASE pair = <<q, e>>
      BY <1>4, <1>13, <3>2
    <3>3. QED
      BY <1>3, <3>1, <3>2
  <2>3. QED
    BY <2>1, <2>2 DEF AnswersAreOwn
<1>11. \A m \in DOMAIN message : HasAnswer(m)' => m = turn[t].question \/ HasAnswer(m)
  BY <1>0, <1>6
<1>12. QED
  BY <1>7, <1>8, <1>9, <1>10, <1>11

\* The dock asks again: what it shows is the answer of the question, where none was crossed.
LEMMA ShowingKeeps ==
  ASSUME TalkInv, NEW m \in DOMAIN message, message[m].role = "user", Answered1(m)
  PROVE  /\ Next1(m) \in DOMAIN message /\ m \in 1..MaxMessages /\ Next1(m) \in 1..MaxMessages
         /\ message[Next1(m)].of = m \/ message[m].conversation \in crossed
<1>1. /\ message \in Seq(Message) /\ Len(message) \in Nat /\ DOMAIN message = 1..Len(message)
      /\ Len(message) <= MaxMessages /\ AnswersHaveQuestions /\ QuestionsAreInOrder
  BY DEF TalkInv, AnswersHaveQuestions
<1>2. Later(m) \in SUBSET Nat /\ Later(m) # {} /\ message[Next1(m)].role = "assistant"
  BY <1>1 DEF Answered1, Later
<1>3. PICK n \in Later(m) : \A o \in Later(m) : n <= o
  BY <1>2, LeastOf
<1>4. Next1(m) \in Later(m) /\ \A o \in Later(m) : Next1(m) <= o
  BY <1>3 DEF Next1
<1>5. Next1(m) \in DOMAIN message /\ m \in 1..MaxMessages /\ Next1(m) \in 1..MaxMessages
  BY <1>1, <1>4, ConversationAssumption DEF Later, ConversationAssumption
<1>6. ASSUME message[m].conversation \notin crossed PROVE message[Next1(m)].of = m
  <2>1. HasAnswer(m)
    BY <1>1, <1>2, <1>6 DEF QuestionsAreInOrder
  <2>2. PICK k \in Later(m) : message[k].of = m /\ \A o \in Later(m) : k <= o
    BY <1>1, <1>6, <2>1 DEF QuestionsAreInOrder
  <2>3. k = Next1(m)
    <3>1. k <= Next1(m) /\ Next1(m) <= k /\ k \in Nat /\ Next1(m) \in Nat
      BY <1>2, <1>4, <2>2
    <3>2. QED
      BY <3>1
  <2>4. QED
    BY <2>2, <2>3
<1>7. QED
  BY <1>5, <1>6

\* Without an answer, nothing that was not crossed is answered.
LEMMA AskingIsRight ==
  ASSUME TalkInv, NEW m \in DOMAIN message, message[m].role = "user", ~Answered1(m),
         message[m].conversation \notin crossed
  PROVE  ~HasAnswer(m)
<1> SUFFICES ASSUME HasAnswer(m) PROVE FALSE
  OBVIOUS
<1>1. /\ message \in Seq(Message) /\ Len(message) \in Nat /\ DOMAIN message = 1..Len(message)
      /\ AnswersHaveQuestions /\ QuestionsAreInOrder
  BY DEF TalkInv, AnswersHaveQuestions
<1>2. PICK n \in Later(m) : message[n].of = m /\ \A o \in Later(m) : n <= o
  BY <1>1 DEF QuestionsAreInOrder
<1>3. Next1(m) \in Later(m) /\ \A o \in Later(m) : Next1(m) <= o
  BY <1>2 DEF Next1
<1>4. Next1(m) = n
  <2>1. n <= Next1(m) /\ Next1(m) <= n /\ n \in Nat /\ Next1(m) \in Nat
    BY <1>1, <1>2, <1>3 DEF Later
  <2>2. QED
    BY <2>1
<1>5. n \in DOMAIN message /\ message[n].role \in {"user", "assistant"}
  <2>1. n \in DOMAIN message
    BY <1>2 DEF Later
  <2>2. message[n] \in Message
    BY <1>1, <2>1
  <2>3. QED
    BY <2>1, <2>2 DEF Message
<1>6. message[n].role = "assistant"
  BY <1>1, <1>2, <1>5 DEF AnswersHaveQuestions
<1>7. QED
  BY <1>2, <1>4, <1>6 DEF Answered1

\* A step that adds no message leaves them in order.
LEMMA MessagesStay ==
  ASSUME TalkInv, UNCHANGED message, DOMAIN conversation \subseteq DOMAIN conversation',
         crossed \subseteq crossed', shown' \subseteq (1..MaxMessages) \X (1..MaxMessages),
         \A pair \in shown' \ shown :
           /\ pair[1] \in DOMAIN message /\ pair[2] \in DOMAIN message
           /\ message[pair[2]].of = pair[1] \/ message[pair[1]].conversation \in crossed
  PROVE  /\ AnswersHaveQuestions' /\ QuestionsAreInOrder' /\ AnswersAreOwn'
         /\ \A m \in DOMAIN message : HasAnswer(m)' => HasAnswer(m)
<1>1. AnswersHaveQuestions /\ QuestionsAreInOrder /\ AnswersAreOwn
  BY DEF TalkInv
<1>2. AnswersHaveQuestions'
  BY <1>1 DEF AnswersHaveQuestions
<1>3. QuestionsAreInOrder'
  BY <1>1 DEF QuestionsAreInOrder, Later, HasAnswer
<1>4. AnswersAreOwn'
  BY <1>1 DEF AnswersAreOwn
<1>5. \A m \in DOMAIN message : HasAnswer(m)' => HasAnswer(m)
  BY DEF HasAnswer
<1>6. QED
  BY <1>2, <1>3, <1>4, <1>5

\* The turns: one changes, the others may become late; what it asks is a question without an
\* answer that nobody else asks, where none was crossed.
LEMMA TurnsKeep ==
  ASSUME TalkInv, NEW t \in Turns, turn' \in [Turns -> Turn],
         DOMAIN conversation \subseteq DOMAIN conversation', crossed \subseteq crossed',
         \A m \in DOMAIN message : m \in DOMAIN message' /\ message'[m] = message[m],
         \A m \in DOMAIN message :
           HasAnswer(m)' => HasAnswer(m) \/ (turn[t].pc = "call" /\ m = turn[t].question),
         \A s \in Turns \ {t} : /\ turn'[s].pc = turn[s].pc /\ turn'[s].question = turn[s].question
                                /\ turn'[s].conversation = turn[s].conversation,
         turn[t].pc = "call" => turn'[t].pc # "call",
         turn'[t].pc = "post" => turn'[t].conversation \in DOMAIN conversation',
         turn'[t].pc = "call" =>
           /\ turn'[t].question \in DOMAIN message' /\ message'[turn'[t].question].role = "user"
           /\ message'[turn'[t].question].conversation = turn'[t].conversation
           /\ turn'[t].conversation \notin crossed' =>
                /\ \A n \in DOMAIN message' : message'[n].of # turn'[t].question
                /\ \A s \in Turns : s # t /\ turn[s].pc = "call" => turn[s].question # turn'[t].question
  PROVE  TurnsAreRight'
<1> SUFFICES ASSUME NEW s \in Turns
             PROVE  /\ turn'[s].pc = "post" => turn'[s].conversation \in DOMAIN conversation'
                    /\ turn'[s].pc = "call" =>
                         LET q == turn'[s].question IN
                           /\ q \in DOMAIN message' /\ message'[q].role = "user"
                           /\ message'[q].conversation = turn'[s].conversation
                           /\ turn'[s].conversation \notin crossed' =>
                                /\ \A n \in DOMAIN message' : message'[n].of # q
                                /\ \A o \in Turns : o # s /\ turn'[o].pc = "call" => turn'[o].question # q
  BY DEF TurnsAreRight, HasAnswer
<1>1. TurnsAreRight
  BY DEF TalkInv
<1>2. CASE s = t
  <2>1. \A o \in Turns : o # t /\ turn'[o].pc = "call" => turn[o].pc = "call" /\ turn'[o].question = turn[o].question
    OBVIOUS
  <2>2. QED
    BY <1>2, <2>1
<1>3. CASE s # t
  <2>1. turn'[s].pc = "post" => turn'[s].conversation \in DOMAIN conversation'
    BY <1>1, <1>3 DEF TurnsAreRight
  <2>2. ASSUME turn'[s].pc = "call"
        PROVE  /\ turn'[s].question \in DOMAIN message' /\ message'[turn'[s].question].role = "user"
               /\ message'[turn'[s].question].conversation = turn'[s].conversation
               /\ turn'[s].conversation \notin crossed' =>
                    /\ \A n \in DOMAIN message' : message'[n].of # turn'[s].question
                    /\ \A o \in Turns : o # s /\ turn'[o].pc = "call" => turn'[o].question # turn'[s].question
    <3>1. PICK q \in {turn[s].question} : TRUE
      OBVIOUS
    <3>2. /\ turn[s].pc = "call" /\ turn'[s].question = q /\ turn[s].question = q
          /\ turn'[s].conversation = turn[s].conversation
      BY <1>3, <2>2, <3>1
    <3>3. /\ q \in DOMAIN message /\ message[q].role = "user"
          /\ message[q].conversation = turn[s].conversation
          /\ turn[s].conversation \notin crossed =>
               ~HasAnswer(q) /\ \A o \in Turns : o # s /\ turn[o].pc = "call" => turn[o].question # q
      BY <1>1, <3>2 DEF TurnsAreRight
    <3>4. ASSUME turn'[s].conversation \notin crossed'
          PROVE  /\ \A n \in DOMAIN message' : message'[n].of # q
                 /\ \A o \in Turns : o # s /\ turn'[o].pc = "call" => turn'[o].question # q
      <4>1. ~HasAnswer(q) /\ \A o \in Turns : o # s /\ turn[o].pc = "call" => turn[o].question # q
        BY <3>2, <3>3, <3>4
      <4>2. ~HasAnswer(q)'
        BY <1>3, <3>3, <4>1
      <4>3. ASSUME NEW o \in Turns, o # s, turn'[o].pc = "call", turn'[o].question = q PROVE FALSE
        <5>1. o = t
          BY <4>1, <4>3
        <5>2. turn'[t].conversation = message'[q].conversation
          BY <4>3, <5>1
        <5>3. turn'[t].conversation \notin crossed'
          BY <3>2, <3>3, <3>4, <5>2
        <5>4. QED
          BY <1>3, <3>2, <4>3, <5>1, <5>3
      <4>4. QED
        BY <4>2, <4>3 DEF HasAnswer
    <3>5. QED
      BY <3>2, <3>3, <3>4
  <2>3. QED
    BY <2>1, <2>2
<1>4. QED
  BY <1>2, <1>3

\* The open conversations are finitely many; one that is closed leaves fewer.
LEMMA OpenAreCounted ==
  ASSUME conversation \in Seq(Conversation)
  PROVE  IsFiniteSet(OpenConversations) /\ Cardinality(OpenConversations) \in Nat
<1>1. Len(conversation) \in Nat /\ DOMAIN conversation = 1..Len(conversation)
  OBVIOUS
<1>2. IsFiniteSet(1..Len(conversation)) /\ OpenConversations \subseteq 1..Len(conversation)
  BY <1>1, FS_Interval DEF OpenConversations
<1>3. QED
  BY <1>2, FS_Subset, FS_CardinalityType

\* No conversation is opened, and no turn counts them late again.
LEMMA CountsKeep ==
  ASSUME TalkInv, OpenConversations' \subseteq OpenConversations, UNCHANGED crowded,
         \A t \in Turns : turn'[t].pc = "open" /\ ~turn'[t].late =>
           \/ turn[t].pc = "open" /\ ~turn[t].late
           \/ Cardinality(OpenConversations) < MaxOpen
  PROVE  CountsAreRight'
<1>1. CountsAreRight /\ conversation \in Seq(Conversation)
  BY DEF TalkInv, TalkTypeOK
<1>2. /\ IsFiniteSet(OpenConversations) /\ Cardinality(OpenConversations) \in Nat
      /\ Cardinality(OpenConversations)' \in Nat
      /\ Cardinality(OpenConversations)' <= Cardinality(OpenConversations)
  <2>1. IsFiniteSet(OpenConversations) /\ Cardinality(OpenConversations) \in Nat
    BY <1>1, OpenAreCounted
  <2>2. PICK S : S = OpenConversations'
    OBVIOUS
  <2>3. IsFiniteSet(S) /\ Cardinality(S) <= Cardinality(OpenConversations) /\ Cardinality(S) \in Nat
    BY <2>1, <2>2, FS_Subset, FS_CardinalityType
  <2>4. QED
    BY <2>1, <2>2, <2>3
<1>3. MaxOpen \in Nat
  BY ConversationAssumption DEF ConversationAssumption
<1>4. ASSUME ~crowded' PROVE Cardinality(OpenConversations)' <= MaxOpen
  BY <1>1, <1>2, <1>3, <1>4 DEF CountsAreRight
<1>5. ASSUME ~crowded', NEW t \in Turns, turn'[t].pc = "open", ~turn'[t].late
      PROVE  Cardinality(OpenConversations)' < MaxOpen
  <2>1. Cardinality(OpenConversations) < MaxOpen
    BY <1>1, <1>5 DEF CountsAreRight
  <2>2. QED
    BY <1>2, <1>3, <2>1
<1>6. QED
  BY <1>4, <1>5 DEF CountsAreRight

\* Who opens a conversation counted before another one did, unless it is late.
LEMMA OpeningKeeps ==
  ASSUME TalkInv, NEW t \in Turns, CreateConversation(t)
  PROVE  TalkInv'
<1>0. PICK c \in {Len(conversation) + 1}, source \in {turn[t].source} : TRUE
  OBVIOUS
<1> DEFINE row == [open |-> TRUE, title |-> source]
           k == turn[t]
<1>1. /\ TalkTypeOK /\ AnswersHaveQuestions /\ QuestionsAreInOrder /\ AnswersAreOwn /\ CountsAreRight
      /\ conversation \in Seq(Conversation) /\ turn \in [Turns -> Turn] /\ Len(conversation) \in Nat
      /\ DOMAIN conversation = 1..Len(conversation)
  BY DEF TalkInv, TalkTypeOK
<1>2. /\ k \in Turn /\ k.pc = "open" /\ c <= MaxConversations /\ Len(message) < MaxMessages
      /\ conversation' = Append(conversation, row) /\ crowded' = (crowded \/ k.late)
      /\ UNCHANGED <<shown, crossed>> /\ source \in ChatSources
      /\ c = Len(conversation) + 1 /\ source = k.source
  BY <1>0, <1>1 DEF CreateConversation, Opened, Turn
<1>3. c \in Nat /\ c \in 1..MaxConversations /\ c \in 0..MaxConversations /\ c \notin DOMAIN conversation
  BY <1>1, <1>2, ConversationAssumption DEF ConversationAssumption
<1>4. row \in Conversation /\ row.open
  BY <1>2 DEF Conversation
<1> HIDE DEF row
<1>5. /\ conversation' \in Seq(Conversation) /\ Len(conversation') = c
      /\ DOMAIN conversation' = 1..c /\ c \in DOMAIN conversation'
      /\ DOMAIN conversation \subseteq DOMAIN conversation'
      /\ conversation'[c] = row /\ \A d \in DOMAIN conversation : conversation'[d] = conversation[d]
      /\ \A d \in DOMAIN conversation' : d \in DOMAIN conversation \/ d = c
  <2>1. /\ conversation' \in Seq(Conversation) /\ Len(conversation') = c
        /\ conversation'[c] = row /\ \A d \in 1..Len(conversation) : conversation'[d] = conversation[d]
    BY <1>1, <1>2, <1>4
  <2>2. DOMAIN conversation' = 1..c
    BY <2>1
  <2>3. QED
    BY <1>1, <1>2, <1>3, <2>1, <2>2
\* what becomes of the turns
<1> DEFINE mine == IF source = "web" THEN NoTurn ELSE [k EXCEPT !.pc = "post", !.conversation = c]
<1>6. turn' = [o \in Turns |-> IF o = t THEN mine ELSE [turn[o] EXCEPT !.late = @ \/ turn[o].pc = "open"]]
  <2>1. CASE source = "web"
    BY <1>0, <1>2, <2>1 DEF CreateConversation
  <2>2. CASE source # "web"
    BY <1>0, <1>2, <2>2 DEF CreateConversation
  <2>3. QED
    BY <2>1, <2>2
<1>7. mine \in Turn /\ mine.pc \in {"idle", "post"} /\ (mine.pc = "post" => mine.conversation = c)
  <2>1. [k EXCEPT !.pc = "post", !.conversation = c] \in Turn
    BY <1>2, <1>3 DEF Turn
  <2>2. /\ [k EXCEPT !.pc = "post", !.conversation = c].pc = "post"
        /\ [k EXCEPT !.pc = "post", !.conversation = c].conversation = c
    BY <1>2 DEF Turn
  <2>3. QED
    BY <2>1, <2>2, NoTurnIsTurn
<1> HIDE DEF mine
<1>8. ASSUME NEW o \in Turns, o # t
      PROVE  /\ turn'[o] \in Turn /\ turn'[o].pc = turn[o].pc /\ turn'[o].question = turn[o].question
             /\ turn'[o].conversation = turn[o].conversation
             /\ turn[o].pc = "open" => turn'[o].late
  <2>1. PICK l \in BOOLEAN : l <=> turn[o].late \/ turn[o].pc = "open"
    OBVIOUS
  <2>2. turn[o] \in Turn /\ turn[o].late \in BOOLEAN
    BY <1>1 DEF Turn
  <2>3. [turn[o] EXCEPT !.late = @ \/ turn[o].pc = "open"] = [turn[o] EXCEPT !.late = l]
    BY <2>1, <2>2, Zenon
  <2>4. turn'[o] = [turn[o] EXCEPT !.late = l]
    BY <1>6, <1>8, <2>3
  <2>5. /\ [turn[o] EXCEPT !.late = l] \in Turn /\ [turn[o] EXCEPT !.late = l].pc = turn[o].pc
        /\ [turn[o] EXCEPT !.late = l].question = turn[o].question
        /\ [turn[o] EXCEPT !.late = l].conversation = turn[o].conversation
        /\ [turn[o] EXCEPT !.late = l].late <=> l
    BY <2>1, <2>2 DEF Turn
  <2>6. QED
    BY <2>1, <2>4, <2>5
<1>9. turn' \in [Turns -> Turn] /\ turn'[t] = mine
  BY <1>6, <1>7, <1>8
\* the messages
<1>10. /\ AnswersHaveQuestions' /\ QuestionsAreInOrder' /\ AnswersAreOwn'
       /\ \A m \in DOMAIN message : m \in DOMAIN message' /\ message'[m] = message[m]
       /\ \A m \in DOMAIN message : HasAnswer(m)' => HasAnswer(m)
       /\ message' \in Seq(Message)
  <2>1. CASE source = "web"
    <3>1. message' = Append(message, [conversation |-> c, role |-> "user", of |-> 0])
      BY <1>0, <1>2, <2>1 DEF CreateConversation, Said
    <3>2. Unanswered(c) = {}
      BY <1>1, <1>3 DEF Unanswered, AnswersHaveQuestions
    <3>3. /\ AnswersHaveQuestions' /\ QuestionsAreInOrder' /\ AnswersAreOwn'
          /\ \A m \in DOMAIN message : HasAnswer(m)' => HasAnswer(m)
      BY <1>2, <1>3, <1>5, <3>1, <3>2, QuestionKeeps
    <3>4. [conversation |-> c, role |-> "user", of |-> 0] \in Message
      BY <1>3, ConversationAssumption DEF Message, ConversationAssumption
    <3>5. /\ \A m \in DOMAIN message : m \in DOMAIN message' /\ message'[m] = message[m]
          /\ message' \in Seq(Message)
      BY <1>1, <3>1, <3>4, MessageGrows
    <3>6. QED
      BY <3>3, <3>5
  <2>2. CASE source # "web"
    <3>1. UNCHANGED message
      BY <1>0, <1>2, <2>2 DEF CreateConversation
    <3>2. shown' = shown /\ shown' \subseteq (1..MaxMessages) \X (1..MaxMessages)
      BY <1>1, <1>2 DEF TalkTypeOK
    <3>3. /\ AnswersHaveQuestions' /\ QuestionsAreInOrder' /\ AnswersAreOwn'
          /\ \A m \in DOMAIN message : HasAnswer(m)' => HasAnswer(m)
      BY <1>2, <1>5, <3>1, <3>2, MessagesStay
    <3>4. QED
      BY <1>1, <3>1, <3>3 DEF TalkTypeOK
  <2>3. QED
    BY <2>1, <2>2
<1>11. TalkTypeOK' /\ Len(conversation') <= MaxConversations
  BY <1>1, <1>2, <1>5, <1>9, <1>10 DEF TalkTypeOK
<1>12. TurnsAreRight'
  BY <1>2, <1>5, <1>7, <1>8, <1>9, <1>10, TurnsKeep
\* the count
<1>13. CountsAreRight'
  <2>1. PICK S : S = OpenConversations'
    OBVIOUS
  <2>2. IsFiniteSet(OpenConversations) /\ Cardinality(OpenConversations) \in Nat
    BY <1>1, OpenAreCounted
  <2>3. S = OpenConversations \cup {c}
    BY <1>4, <1>5, <2>1 DEF OpenConversations
  <2>4. c \notin OpenConversations
    BY <1>3 DEF OpenConversations
  <2>5. Cardinality(S) = Cardinality(OpenConversations) + 1
    BY <2>2, <2>3, <2>4, FS_AddElement
  <2>6. ASSUME ~crowded' PROVE Cardinality(S) <= MaxOpen
    <3>1. ~crowded /\ ~k.late
      BY <1>2, <2>6
    <3>2. Cardinality(OpenConversations) < MaxOpen
      BY <1>1, <1>2, <3>1 DEF CountsAreRight
    <3>3. QED
      BY <2>2, <2>5, <3>2, ConversationAssumption DEF ConversationAssumption
  <2>7. \A o \in Turns : turn'[o].pc = "open" => turn'[o].late
    BY <1>7, <1>8, <1>9
  <2>8. QED
    BY <2>1, <2>6, <2>7 DEF CountsAreRight
<1>14. QED
  BY <1>10, <1>11, <1>12, <1>13 DEF TalkInv

LEMMA AddedQuestionKeeps ==
  ASSUME TalkInv, NEW t \in Turns, AddUserMessage(t)
  PROVE  TalkInv'
<1>0. PICK c \in {turn[t].conversation} : TRUE
  OBVIOUS
<1> DEFINE k == turn[t]
           r == [conversation |-> c, role |-> "user", of |-> 0]
<1>1. /\ TalkTypeOK /\ AnswersHaveQuestions /\ TurnsAreRight /\ CountsAreRight
      /\ conversation \in Seq(Conversation) /\ turn \in [Turns -> Turn] /\ Len(conversation) \in Nat
      /\ DOMAIN conversation = 1..Len(conversation) /\ Len(conversation) <= MaxConversations
  BY DEF TalkInv, TalkTypeOK
<1>2. /\ k \in Turn /\ k.pc = "post" /\ Len(message) < MaxMessages /\ k.conversation = c
      /\ message' = Append(message, r)
      /\ turn' = [turn EXCEPT ![t] = IF k.source = "web" THEN NoTurn
                                     ELSE [k EXCEPT !.pc = "call", !.question = Len(message) + 1]]
      /\ crossed' = IF Unanswered(c) # {} THEN crossed \cup {c} ELSE crossed
      /\ UNCHANGED <<conversation, shown, crowded>>
  BY <1>0, <1>1 DEF AddUserMessage, Said
<1>3. c \in DOMAIN conversation /\ c \in 1..MaxConversations
  BY <1>1, <1>2, ConversationAssumption DEF TurnsAreRight, ConversationAssumption
<1>4. r \in Message /\ r.conversation = c /\ r.role = "user"
  BY <1>3, ConversationAssumption DEF Message, ConversationAssumption
<1>5. /\ AnswersHaveQuestions' /\ QuestionsAreInOrder' /\ AnswersAreOwn'
      /\ \A m \in DOMAIN message : HasAnswer(m)' => HasAnswer(m)
      /\ \A n \in DOMAIN message' : message'[n].of # Len(message) + 1
  BY <1>2, <1>3, QuestionKeeps
<1> HIDE DEF r
<1>6. /\ message' \in Seq(Message) /\ Len(message) \in Nat /\ DOMAIN message = 1..Len(message)
      /\ DOMAIN message' = 1..(Len(message) + 1) /\ message'[Len(message) + 1] = r
      /\ \A m \in DOMAIN message : m \in DOMAIN message' /\ message'[m] = message[m]
  BY <1>1, <1>2, <1>4, MessageGrows
<1> DEFINE mine == IF k.source = "web" THEN NoTurn
                   ELSE [k EXCEPT !.pc = "call", !.question = Len(message) + 1]
<1>7. /\ mine \in Turn /\ mine.pc \in {"idle", "call"}
      /\ mine.pc = "call" => mine.question = Len(message) + 1 /\ mine.conversation = c
  <2>1. Len(message) + 1 \in 0..MaxMessages
    BY <1>2, <1>6, ConversationAssumption DEF ConversationAssumption
  <2>2. [k EXCEPT !.pc = "call", !.question = Len(message) + 1] \in Turn
    BY <1>2, <2>1 DEF Turn
  <2>3. /\ [k EXCEPT !.pc = "call", !.question = Len(message) + 1].pc = "call"
        /\ [k EXCEPT !.pc = "call", !.question = Len(message) + 1].question = Len(message) + 1
        /\ [k EXCEPT !.pc = "call", !.question = Len(message) + 1].conversation = c
    BY <1>2 DEF Turn
  <2>4. QED
    BY <2>2, <2>3, NoTurnIsTurn
<1>8. turn' = [turn EXCEPT ![t] = mine]
  BY <1>2
<1> HIDE DEF mine
<1>9. turn' \in [Turns -> Turn] /\ turn'[t] = mine /\ \A s \in Turns \ {t} : turn'[s] = turn[s]
  BY <1>1, <1>7, <1>8
<1>10. TalkTypeOK' /\ Len(conversation') <= MaxConversations
  BY <1>1, <1>2, <1>6, <1>9 DEF TalkTypeOK
<1>11. \A s \in Turns : turn[s].pc = "call" => turn[s].question # Len(message) + 1
  BY <1>1, <1>6 DEF TurnsAreRight
<1>12. TurnsAreRight'
  <2>1. turn'[t].pc = "call" =>
          /\ turn'[t].question \in DOMAIN message' /\ message'[turn'[t].question].role = "user"
          /\ message'[turn'[t].question].conversation = turn'[t].conversation
          /\ turn'[t].conversation \notin crossed' =>
               /\ \A n \in DOMAIN message' : message'[n].of # turn'[t].question
               /\ \A s \in Turns : s # t /\ turn[s].pc = "call" => turn[s].question # turn'[t].question
    BY <1>4, <1>5, <1>6, <1>7, <1>9, <1>11
  <2>2. crossed \subseteq crossed' /\ DOMAIN conversation \subseteq DOMAIN conversation'
    BY <1>2
  <2>3. turn[t].pc # "call" /\ turn'[t].pc # "post"
    BY <1>2, <1>7, <1>9
  <2>4. QED
    BY <1>5, <1>6, <1>9, <2>1, <2>2, <2>3, TurnsKeep
<1>13. CountsAreRight'
  <2>1. OpenConversations' \subseteq OpenConversations /\ UNCHANGED crowded
    BY <1>2 DEF OpenConversations
  <2>2. \A s \in Turns : turn'[s].pc = "open" => turn[s].pc = "open" /\ turn'[s] = turn[s]
    BY <1>7, <1>9
  <2>3. QED
    BY <2>1, <2>2, CountsKeep
<1>14. QED
  BY <1>5, <1>10, <1>12, <1>13 DEF TalkInv

\* A turn that begins or ends, and what the dock shows, leave the messages alone.
LEMMA TurnBegins ==
  ASSUME TalkInv, NEW t \in Turns, NEW row \in Turn, turn' = [turn EXCEPT ![t] = row],
         turn[t].pc = "idle" \/ row.pc = "idle",
         UNCHANGED <<conversation, message, shown, crowded>>, crossed \subseteq crossed',
         row.pc = "open" => Cardinality(OpenConversations) < MaxOpen,
         row.pc = "post" => row.conversation \in DOMAIN conversation,
         row.pc = "call" =>
           /\ row.question \in DOMAIN message /\ message[row.question].role = "user"
           /\ message[row.question].conversation = row.conversation
           /\ row.conversation \notin crossed' => ~HasAnswer(row.question) /\ ~Asking(row.question)
  PROVE  TalkInv'
<1>1. /\ TalkTypeOK /\ Len(conversation) <= MaxConversations
      /\ turn \in [Turns -> Turn] /\ shown \subseteq (1..MaxMessages) \X (1..MaxMessages)
  BY DEF TalkInv, TalkTypeOK
<1>2. turn' \in [Turns -> Turn] /\ turn'[t] = row /\ \A s \in Turns \ {t} : turn'[s] = turn[s]
  BY <1>1
<1>3. /\ AnswersHaveQuestions' /\ QuestionsAreInOrder' /\ AnswersAreOwn'
      /\ \A m \in DOMAIN message : HasAnswer(m)' => HasAnswer(m)
  BY <1>1, MessagesStay
<1>4. TalkTypeOK' /\ Len(conversation') <= MaxConversations
  BY <1>1, <1>2 DEF TalkTypeOK
<1>5. TurnsAreRight'
  <2>1. turn'[t].pc = "call" =>
          /\ turn'[t].question \in DOMAIN message' /\ message'[turn'[t].question].role = "user"
          /\ message'[turn'[t].question].conversation = turn'[t].conversation
          /\ turn'[t].conversation \notin crossed' =>
               /\ \A n \in DOMAIN message' : message'[n].of # turn'[t].question
               /\ \A s \in Turns : s # t /\ turn[s].pc = "call" => turn[s].question # turn'[t].question
    BY <1>2 DEF HasAnswer, Asking
  <2>2. turn[t].pc = "call" => turn'[t].pc # "call"
    BY <1>2
  <2>3. QED
    BY <1>2, <1>3, <2>1, <2>2, TurnsKeep
<1>6. CountsAreRight'
  <2>1. OpenConversations' \subseteq OpenConversations /\ UNCHANGED crowded
    BY DEF OpenConversations
  <2>2. \A s \in Turns : turn'[s].pc = "open" /\ ~turn'[s].late =>
          (turn[s].pc = "open" /\ ~turn[s].late) \/ Cardinality(OpenConversations) < MaxOpen
    BY <1>2
  <2>3. QED
    BY <2>1, <2>2, CountsKeep
<1>7. QED
  BY <1>3, <1>4, <1>5, <1>6 DEF TalkInv

LEMMA BeginningTurnsKeep ==
  ASSUME TalkInv, NEW t \in Turns, NEW source \in ChatSources,
         \/ TestLimit(t, source)
         \/ \E c \in DOMAIN conversation : LoadConversation(t, c, source)
         \/ NoAnswer(t)
  PROVE  TalkInv'
<1>1. /\ conversation \in Seq(Conversation) /\ turn \in [Turns -> Turn] /\ Len(conversation) \in Nat
      /\ DOMAIN conversation = 1..Len(conversation) /\ Len(conversation) <= MaxConversations
  BY DEF TalkInv, TalkTypeOK
<1>2. CASE TestLimit(t, source)
  <2> DEFINE row == [NoTurn EXCEPT !.pc = "open", !.source = source]
  <2>1. row \in Turn /\ row.pc = "open"
    BY NoTurnIsTurn DEF Turn
  <2>2. /\ turn' = [turn EXCEPT ![t] = row] /\ turn[t].pc = "idle"
        /\ Cardinality(OpenConversations) < MaxOpen
        /\ UNCHANGED <<conversation, message, shown, crowded, crossed>>
    BY <1>2 DEF TestLimit
  <2> HIDE DEF row
  <2>3. QED
    BY <2>1, <2>2, TurnBegins
<1>3. ASSUME NEW c \in DOMAIN conversation, LoadConversation(t, c, source) PROVE TalkInv'
  <2> DEFINE row == [NoTurn EXCEPT !.pc = "post", !.source = source, !.conversation = c]
  <2>1. c \in 0..MaxConversations
    BY <1>1, <1>3, ConversationAssumption DEF ConversationAssumption
  <2>2. row \in Turn /\ row.pc = "post" /\ row.conversation = c
    BY <2>1, NoTurnIsTurn DEF Turn
  <2>3. /\ turn' = [turn EXCEPT ![t] = row] /\ turn[t].pc = "idle"
        /\ UNCHANGED <<conversation, message, shown, crowded, crossed>>
    BY <1>3 DEF LoadConversation
  <2> HIDE DEF row
  <2>4. QED
    BY <1>3, <2>2, <2>3, TurnBegins
<1>4. CASE NoAnswer(t)
  BY <1>4, NoTurnIsTurn, TurnBegins DEF NoAnswer
<1>5. QED
  BY <1>2, <1>3, <1>4

LEMMA AskingKeeps ==
  ASSUME TalkInv, NEW t \in Turns, NEW m \in DOMAIN message, AskAgain(t, m)
  PROVE  TalkInv'
<1>1. /\ TalkTypeOK /\ AnswersHaveQuestions /\ Len(conversation) <= MaxConversations
      /\ message \in Seq(Message) /\ Len(message) \in Nat /\ DOMAIN message = 1..Len(message)
      /\ Len(message) <= MaxMessages /\ turn \in [Turns -> Turn]
      /\ shown \subseteq (1..MaxMessages) \X (1..MaxMessages)
  BY DEF TalkInv, TalkTypeOK, AnswersHaveQuestions
<1>2. /\ turn[t].pc = "idle" /\ message[m].role = "user"
      /\ UNCHANGED <<conversation, message, crowded>>
  BY DEF AskAgain
<1>3. CASE Answered1(m)
  <2>1. /\ Next1(m) \in DOMAIN message /\ m \in 1..MaxMessages /\ Next1(m) \in 1..MaxMessages
        /\ message[Next1(m)].of = m \/ message[m].conversation \in crossed
    BY <1>2, <1>3, ShowingKeeps
  <2>2. shown' = shown \cup {<<m, Next1(m)>>} /\ UNCHANGED <<turn, crossed>>
    BY <1>3 DEF AskAgain
  <2>3. PICK a : a = Next1(m)
    OBVIOUS
  <2>4. shown' \subseteq (1..MaxMessages) \X (1..MaxMessages)
    BY <1>1, <2>1, <2>2, <2>3
  <2>5. \A pair \in shown' \ shown :
          /\ pair[1] \in DOMAIN message /\ pair[2] \in DOMAIN message
          /\ message[pair[2]].of = pair[1] \/ message[pair[1]].conversation \in crossed
    BY <2>1, <2>2, <2>3
  <2>6. /\ AnswersHaveQuestions' /\ QuestionsAreInOrder' /\ AnswersAreOwn'
        /\ \A n \in DOMAIN message : HasAnswer(n)' => HasAnswer(n)
    BY <1>2, <2>2, <2>4, <2>5, MessagesStay
  <2>7. TalkTypeOK' /\ TurnsAreRight' /\ CountsAreRight'
    BY <1>1, <1>2, <2>2, <2>4 DEF TalkInv, TalkTypeOK, TurnsAreRight, HasAnswer, CountsAreRight, OpenConversations
  <2>8. QED
    BY <1>1, <1>2, <2>6, <2>7 DEF TalkInv
<1>4. CASE ~Answered1(m)
  <2> DEFINE row == [NoTurn EXCEPT !.pc = "call", !.question = m, !.conversation = message[m].conversation]
  <2>1. message[m] \in Message /\ m \in 0..MaxMessages
    BY <1>1, ConversationAssumption DEF ConversationAssumption
  <2>2. message[m].conversation \in 0..MaxConversations
    BY <2>1, ConversationAssumption DEF Message, ConversationAssumption
  <2>3. row \in Turn /\ row.pc = "call" /\ row.question = m /\ row.conversation = message[m].conversation
    BY <2>1, <2>2, NoTurnIsTurn DEF Turn
  <2>4. /\ turn' = [turn EXCEPT ![t] = row] /\ UNCHANGED shown
        /\ crossed' = IF Asking(m) THEN crossed \cup {message[m].conversation} ELSE crossed
    BY <1>4 DEF AskAgain
  <2> HIDE DEF row
  <2>5. crossed \subseteq crossed'
    BY <2>4
  <2>6. message[m].conversation \notin crossed' => ~HasAnswer(m) /\ ~Asking(m)
    BY <1>2, <1>4, <2>4, <2>5, AskingIsRight
  <2>7. QED
    BY <1>2, <2>3, <2>4, <2>5, <2>6, TurnBegins
<1>5. QED
  BY <1>3, <1>4

LEMMA StoringKeeps ==
  ASSUME TalkInv, NEW t \in Turns, StoreAnswer(t)
  PROVE  TalkInv'
<1>1. /\ TalkTypeOK /\ AnswersHaveQuestions /\ Len(conversation) <= MaxConversations
      /\ turn \in [Turns -> Turn]
  BY DEF TalkInv, TalkTypeOK
<1>2. /\ AnswersHaveQuestions' /\ QuestionsAreInOrder' /\ AnswersAreOwn'
      /\ shown' \subseteq (1..MaxMessages) \X (1..MaxMessages)
      /\ \A m \in DOMAIN message : HasAnswer(m)' => m = turn[t].question \/ HasAnswer(m)
  BY AnswerKeeps
<1>3. /\ turn[t].pc = "call" /\ turn' = [turn EXCEPT ![t] = NoTurn]
      /\ UNCHANGED <<conversation, crowded, crossed>>
      /\ message' = Append(message, [conversation |-> turn[t].conversation, role |-> "assistant",
                                     of |-> turn[t].question])
  BY DEF StoreAnswer
<1>4. /\ turn' \in [Turns -> Turn] /\ turn'[t] = NoTurn /\ NoTurn.pc = "idle"
      /\ \A s \in Turns \ {t} : turn'[s] = turn[s]
  BY <1>1, <1>3, NoTurnIsTurn
<1>5. /\ message' \in Seq(Message)
      /\ \A m \in DOMAIN message : m \in DOMAIN message' /\ message'[m] = message[m]
  <2>1. message' \in Seq(Message)
    BY <1>2 DEF AnswersHaveQuestions
  <2>2. message \in Seq(Message)
    BY <1>1 DEF AnswersHaveQuestions
  <2>3. QED
    BY <1>3, <2>1, <2>2
<1>6. TalkTypeOK' /\ Len(conversation') <= MaxConversations
  BY <1>1, <1>2, <1>3, <1>4, <1>5 DEF TalkTypeOK
<1>7. TurnsAreRight'
  BY <1>2, <1>3, <1>4, <1>5, TurnsKeep
<1>8. CountsAreRight'
  <2>1. OpenConversations' \subseteq OpenConversations
    BY <1>3 DEF OpenConversations
  <2>2. \A s \in Turns : turn'[s].pc = "open" => turn[s].pc = "open" /\ turn'[s] = turn[s]
    BY <1>4
  <2>3. QED
    BY <1>3, <2>1, <2>2, CountsKeep
<1>9. QED
  BY <1>2, <1>6, <1>7, <1>8 DEF TalkInv

LEMMA ClosingKeeps ==
  ASSUME TalkInv, CloseTelegram \/ \E c \in DOMAIN conversation : CloseConversation(c)
  PROVE  TalkInv'
<1>1. /\ TalkTypeOK /\ Len(conversation) <= MaxConversations /\ conversation \in Seq(Conversation)
      /\ Len(conversation) \in Nat /\ DOMAIN conversation = 1..Len(conversation)
      /\ TurnsAreRight /\ shown \subseteq (1..MaxMessages) \X (1..MaxMessages)
  BY DEF TalkInv, TalkTypeOK
<1>2. \A d \in 1..Len(conversation) : /\ conversation[d] \in Conversation
                                      /\ [conversation[d] EXCEPT !.open = FALSE] \in Conversation
                                      /\ ~[conversation[d] EXCEPT !.open = FALSE].open
  <2>1. \A d \in 1..Len(conversation) : conversation[d] \in Conversation
    BY <1>1
  <2>2. QED
    BY <2>1 DEF Conversation
<1>3. /\ conversation' \in Seq(Conversation) /\ Len(conversation') = Len(conversation)
      /\ DOMAIN conversation' = DOMAIN conversation
      /\ \A d \in DOMAIN conversation : conversation'[d].open => conversation[d].open
      /\ UNCHANGED <<message, turn, shown, crowded, crossed>>
  <2>1. ASSUME NEW c \in DOMAIN conversation, CloseConversation(c)
        PROVE  /\ conversation' \in Seq(Conversation) /\ Len(conversation') = Len(conversation)
               /\ DOMAIN conversation' = DOMAIN conversation
               /\ \A d \in DOMAIN conversation : conversation'[d].open => conversation[d].open
    <3>1. PICK row : row = [conversation[c] EXCEPT !.open = FALSE]
      OBVIOUS
    <3>2. conversation' = [conversation EXCEPT ![c] = row]
      BY <2>1, <3>1 DEF CloseConversation
    <3>3. row \in Conversation /\ ~row.open
      BY <1>1, <1>2, <3>1
    <3>4. QED
      BY <1>1, <3>2, <3>3
  <2>2. ASSUME CloseTelegram
        PROVE  /\ conversation' \in Seq(Conversation) /\ Len(conversation') = Len(conversation)
               /\ DOMAIN conversation' = DOMAIN conversation
               /\ \A d \in DOMAIN conversation : conversation'[d].open => conversation[d].open
    <3> DEFINE closed(d) == [conversation[d] EXCEPT !.open = @ /\ conversation[d].title # "telegram"]
    <3>1. ASSUME NEW d \in 1..Len(conversation)
          PROVE  closed(d) \in Conversation /\ (closed(d).open => conversation[d].open)
      <4>1. PICK l \in BOOLEAN : l <=> conversation[d].open /\ conversation[d].title # "telegram"
        OBVIOUS
      <4>2. conversation[d] \in Conversation /\ conversation[d].open \in BOOLEAN
        BY <1>2 DEF Conversation
      <4>3. closed(d) = [conversation[d] EXCEPT !.open = l]
        BY <4>1, <4>2, Zenon
      <4>4. [conversation[d] EXCEPT !.open = l] \in Conversation /\ ([conversation[d] EXCEPT !.open = l].open <=> l)
        BY <4>1, <4>2 DEF Conversation
      <4>5. QED
        BY <4>1, <4>3, <4>4
    <3>2. conversation' = [d \in 1..Len(conversation) |-> closed(d)]
      BY <1>1, <2>2 DEF CloseTelegram
    <3> HIDE DEF closed
    <3>3. QED
      BY <1>1, <3>1, <3>2
  <2>3. UNCHANGED <<message, turn, shown, crowded, crossed>>
    BY DEF CloseTelegram, CloseConversation
  <2>4. QED
    BY <2>1, <2>2, <2>3
<1>4. /\ AnswersHaveQuestions' /\ QuestionsAreInOrder' /\ AnswersAreOwn'
      /\ \A m \in DOMAIN message : HasAnswer(m)' => HasAnswer(m)
  BY <1>1, <1>3, MessagesStay
<1>5. TalkTypeOK' /\ Len(conversation') <= MaxConversations /\ TurnsAreRight'
  BY <1>1, <1>3 DEF TalkTypeOK, TurnsAreRight, HasAnswer
<1>6. OpenConversations' \subseteq OpenConversations
  BY <1>3 DEF OpenConversations
<1>7. CountsAreRight'
  BY <1>3, <1>6, CountsKeep
<1>8. QED
  BY <1>4, <1>5, <1>7 DEF TalkInv

LEMMA TalkStep ==
  ASSUME TalkInv, [TalkNext]_talkVars
  PROVE  TalkInv'
<1>1. CASE TalkNext
  <2>1. ASSUME NEW t \in Turns, SendInDock(t) PROVE TalkInv'
    <3>1. "web" \in ChatSources
      BY DEF ChatSources
    <3>2. QED
      BY <2>1, <3>1, BeginningTurnsKeep, OpeningKeeps, AddedQuestionKeeps DEF SendInDock
  <2>2. ASSUME NEW t \in Turns, ReplyInDock(t) PROVE TalkInv'
    <3>1. "web" \in ChatSources
      BY DEF ChatSources
    <3>2. QED
      BY <2>2, <3>1, BeginningTurnsKeep, AskingKeeps, StoringKeeps DEF ReplyInDock
  <2>3. ASSUME NEW t \in Turns, AskInChat(t) PROVE TalkInv'
    <3>1. "telegram" \in ChatSources
      BY DEF ChatSources
    <3>2. QED
      BY <2>3, <3>1, BeginningTurnsKeep, OpeningKeeps, AddedQuestionKeeps, StoringKeeps DEF AskInChat
  <2>4. QED
    BY <1>1, <2>1, <2>2, <2>3, ClosingKeeps DEF TalkNext
<1>2. CASE UNCHANGED talkVars
  BY <1>2 DEF talkVars, TalkInv, TalkTypeOK, AnswersHaveQuestions, QuestionsAreInOrder, Later, HasAnswer,
              TurnsAreRight, CountsAreRight, OpenConversations, AnswersAreOwn
<1>3. QED
  BY <1>1, <1>2

\* A user has no more open conversations than the limit unless two were counted at once, and a
\* question has one answer, its own, where no other question crossed it.
THEOREM TalksStaySound == TalkSpec => [](TalkTypeOK /\ TalksAreSound)
<1>1. TalkInit => TalkInv
  BY TalkStart
<1>2. TalkInv /\ [TalkNext]_talkVars => TalkInv'
  BY TalkStep
<1>3. TalkInv => TalkTypeOK /\ TalksAreSound
  BY TalkIsSound
<1>4. QED
  BY <1>1, <1>2, <1>3, PTL DEF TalkSpec

\* Both together: what run "directory" checks of the messenger and the assistant.
THEOREM AssistantKept == BridgeSpec /\ TalkSpec => []AssistantIsSound
BY BridgeIsSound, TalksStaySound, PTL DEF AssistantIsSound

-----------------------------------------------------------------------------
(***************************************************************************)
(* The gateway.  What is spent, and what those that wait or run may still  *)
(* add, together stay within a limit and the slack of all requests: the    *)
(* limit is tested when one comes in, and it leaves when it adds its cost. *)
(***************************************************************************)
Paths == {"chat", "description"}

\* The requests of some paths, targets and sources that may still cost something.
Under(paths, targets, sources) ==
  {a \in Asks : /\ ask[a].pc \in {"waiting", "running"} /\ ask[a].path \in paths
                /\ ask[a].target \in targets /\ ask[a].source \in sources}

Within(spent, pending, cost, limit) ==
  spent + Cardinality(pending) * cost < limit + Cardinality(Asks) * cost

LineIsRight ==
  /\ line \in Seq(Asks)
  /\ \A i, j \in DOMAIN line : ask[line[i]].pc = "waiting" /\ (line[i] = line[j] => i = j)

TomorrowIsOpen ==
  /\ \A d \in Days, t \in Targets : d > today => calls[<<d, t>>] = 0
  /\ \A d \in Days, t \in Targets, s \in Sources : d > today => answers[<<d, t, s>>] = 0

DaysAreKept ==
  \A t \in Targets :
    LET pending == Under(Paths, {t}, Sources)
    IN  IF DailyBudget[t] > 0 THEN Within(calls[<<today, t>>], pending, MaxCost, DailyBudget[t])
        ELSE pending = {} /\ \A d \in Days : calls[<<d, t>>] = 0

MonthsAreKept ==
  LET pending == Under(Paths, Targets, Sources)
  IN  IF MonthlyBudget > 0 THEN Within(SpentInMonth(today), pending, MaxCost, MonthlyBudget)
      ELSE pending = {} /\ \A d \in Days : SpentInMonth(d) = 0

QuotasAreKept ==
  \A t \in Targets, s \in Sources :
    QuestionLimit[t] > 0 =>
      Within(answers[<<today, t, s>>], Under({"chat"}, {t}, {s}), 1, QuestionLimit[t])

SpendingIsCounted == \A d \in Days : SpentInMonth(d) \in Nat

GatewayInv ==
  GatewayTypeOK /\ LineIsRight /\ TomorrowIsOpen /\ SpendingIsCounted /\ DaysAreKept /\ MonthsAreKept
    /\ QuotasAreKept /\ QuestionsAreAnswers /\ RefusalsAreTrue /\ OvershootIsBounded

LEMMA AsksAreCounted ==
  ASSUME NEW U \in SUBSET Asks
  PROVE  /\ IsFiniteSet(U) /\ Cardinality(U) \in Nat /\ Cardinality(Asks) \in Nat
         /\ Cardinality(U) <= Cardinality(Asks)
BY GatewayAssumption, FS_Subset, FS_CardinalityType DEF GatewayAssumption

\* A limit is kept when less is pending, when a pending request adds what one costs at most,
\* and when what is spent is below the limit.
LEMMA LimitKept ==
  ASSUME NEW U \in SUBSET Asks, NEW V \in SUBSET Asks, NEW spent \in Nat, NEW spent2 \in Nat,
         NEW limit \in Int, NEW c \in Nat,
         \/ Within(spent, U, c, limit) /\ V \subseteq U /\ spent2 = spent
         \/ Within(spent, U, c, limit) /\ (\E a \in U : V = U \ {a}) /\ spent2 <= spent + c
         \/ spent2 < limit
  PROVE  Within(spent2, V, c, limit) /\ spent2 < limit + Cardinality(Asks) * c
<1>1. PICK u \in Nat, v \in Nat, n \in Nat : u = Cardinality(U) /\ v = Cardinality(V) /\ n = Cardinality(Asks)
  BY AsksAreCounted
<1>2. u <= n /\ v <= n
  BY <1>1, AsksAreCounted
<1>3. PICK uc \in Nat, vc \in Nat, nc \in Nat : uc = u * c /\ vc = v * c /\ nc = n * c
  BY ProductsGrow
<1>4. vc <= nc
  BY <1>1, <1>2, <1>3, ProductsGrow
<1>5. CASE Within(spent, U, c, limit) /\ V \subseteq U /\ spent2 = spent
  <2>1. v <= u
    BY <1>1, <1>5, AsksAreCounted, FS_Subset
  <2>2. vc <= uc
    BY <1>1, <1>3, <2>1, ProductsGrow
  <2>3. spent + uc < limit + nc
    BY <1>1, <1>3, <1>5 DEF Within
  <2>4. spent2 + vc < limit + nc
    BY <1>5, <2>2, <2>3
  <2>5. QED
    BY <1>1, <1>3, <2>4 DEF Within
<1>6. CASE Within(spent, U, c, limit) /\ (\E a \in U : V = U \ {a}) /\ spent2 <= spent + c
  <2>1. v = u - 1
    BY <1>1, <1>6, AsksAreCounted, FS_RemoveElement
  <2>2. vc = uc - c
    BY <1>1, <1>3, <2>1, OneLess
  <2>3. spent + uc < limit + nc
    BY <1>1, <1>3, <1>6 DEF Within
  <2>4. spent2 + vc < limit + nc
    BY <1>6, <2>2, <2>3
  <2>5. QED
    BY <1>1, <1>3, <2>4 DEF Within
<1>7. CASE spent2 < limit
  <2>1. spent2 + vc < limit + nc /\ spent2 < limit + nc
    BY <1>4, <1>7
  <2>2. QED
    BY <1>1, <1>3, <2>1 DEF Within
<1>8. QED
  BY <1>5, <1>6, <1>7

\* The month of a day, and what its cells of the ledger add up to.
MonthOf(d) == {p \in Days \X Targets : p[1] \div MonthLength = d \div MonthLength}

LEMMA MonthIsFinite ==
  ASSUME NEW d \in Days
  PROVE  /\ IsFiniteSet(MonthOf(d)) /\ MonthOf(d) \subseteq Days \X Targets
         /\ SpentInMonth(d) = SetSum(calls, MonthOf(d))
<1>1. IsFiniteSet(Days) /\ IsFiniteSet(Targets)
  BY GatewayAssumption, FS_Interval DEF Days, GatewayAssumption
<1>2. IsFiniteSet(Days \X Targets)
  BY <1>1, FS_Product
<1>3. IsFiniteSet(MonthOf(d)) /\ MonthOf(d) \subseteq Days \X Targets
  BY <1>2, FS_Subset DEF MonthOf
<1>4. QED
  BY <1>3 DEF SpentInMonth, SetSum, MonthOf

LEMMA NextMonthSums ==
  ASSUME NEW d \in Days
  PROVE  SpentInMonth(d)' = SetSum(calls', MonthOf(d))
BY DEF SpentInMonth, SetSum, MonthOf, MapThenSumSet, MapThenFoldSet

\* A cost is recorded today: the month of today has that much more, another one has not.
LEMMA RecordingAdds ==
  ASSUME GatewayTypeOK, NEW t \in Targets, NEW cost \in Nat,
         calls' = [calls EXCEPT ![<<today, t>>] = @ + cost],
         NEW d \in Days
  PROVE  /\ SpentInMonth(d) \in Int
         /\ SpentInMonth(d)' =
              SpentInMonth(d) + (IF today \div MonthLength = d \div MonthLength THEN cost ELSE 0)
<1>1. calls \in [Days \X Targets -> Nat] /\ today \in Days /\ calls' \in [Days \X Targets -> Nat]
  <2>1. calls \in [Days \X Targets -> Nat] /\ today \in Days
    BY DEF GatewayTypeOK
  <2>2. calls[<<today, t>>] + cost \in Nat
    BY <2>1
  <2>3. QED
    BY <2>1, <2>2
<1>2. PICK S : S = MonthOf(d)
  OBVIOUS
<1>3. IsFiniteSet(S) /\ S \subseteq Days \X Targets
  BY <1>2, MonthIsFinite
<1>4. PICK f, h : f = calls /\ h = calls'
  OBVIOUS
<1>5. PICK a : a = <<today, t>>
  OBVIOUS
<1>6. \A x \in S : f[x] \in Int /\ h[x] = f[x] + (IF x = a THEN cost ELSE 0)
  BY <1>1, <1>3, <1>4, <1>5
<1>7. SetSum(f, S) \in Int /\ SetSum(h, S) = SetSum(f, S) + (IF a \in S THEN cost ELSE 0)
  <2>1. cost \in Int
    OBVIOUS
  <2>2. Moves(f, h, S, a, cost)
    BY <1>6 DEF Moves
  <2>3. QED
    BY ONLY <1>3, <2>1, <2>2, SetSumMoves
<1>8. a \in S <=> today \div MonthLength = d \div MonthLength
  BY <1>1, <1>2, <1>5 DEF MonthOf
<1>9. SpentInMonth(d) = SetSum(f, S)
  BY <1>2, <1>4, MonthIsFinite
<1>10. SpentInMonth(d)' = SetSum(h, S)
  <2>1. SpentInMonth(d)' = SetSum(calls', MonthOf(d))
    BY NextMonthSums
  <2>2. QED
    BY <1>2, <1>4, <2>1
<1>11. QED
  BY <1>7, <1>8, <1>9, <1>10

\* A month that begins has spent nothing.
LEMMA NewMonthIsOpen ==
  ASSUME GatewayTypeOK, TomorrowIsOpen, NEW d \in Days, d = today + 1,
         today \div MonthLength # d \div MonthLength
  PROVE  SpentInMonth(d) = 0
<1>1. today \in Nat /\ d \in Nat /\ today \in Days /\ MonthLength \in Nat \ {0} /\ LastDay \in Nat
  BY GatewayAssumption DEF GatewayTypeOK, Days, GatewayAssumption
<1>2. PICK m \in Nat, n \in Nat : m = today \div MonthLength /\ n = d \div MonthLength
  BY <1>1, DivMonotone
<1>3. m < n
  <2>1. today <= d
    BY <1>1
  <2>2. today \div MonthLength <= d \div MonthLength
    BY <1>1, <2>1, DivMonotone
  <2>3. m <= n /\ m # n
    BY <1>2, <2>2, Zenon
  <2>4. QED
    BY ONLY m \in Nat, n \in Nat, <2>3
<1>4. ASSUME NEW p \in MonthOf(d) PROVE calls[p] = 0
  <2>1. p \in Days \X Targets /\ p[1] \div MonthLength = n
    BY <1>2 DEF MonthOf
  <2>5. p \in Days \X Targets
    BY <2>1
  <2>4. PICK e \in Days, t \in Targets : p = <<e, t>>
    BY ONLY <2>5
  <2>2. e \in Nat
    BY DEF Days
  <2>3. e > today
    <3> SUFFICES ASSUME e <= today PROVE FALSE
      BY <1>1, <2>2
    <3>1. n <= m
      BY <1>1, <1>2, <2>1, <2>2, <2>4, DivMonotone
    <3>2. QED
      BY <1>3, <3>1
  <2>6. QED
    BY <2>3, <2>4 DEF TomorrowIsOpen
<1>5. QED
  BY <1>4, MonthIsFinite, SetSumOfNothing

Pending(a) == ask[a].pc \in {"waiting", "running"}

SpendsAlike(a) ==
  ask'[a].path = ask[a].path /\ ask'[a].target = ask[a].target /\ ask'[a].source = ask[a].source

LEMMA SpentIsSpent ==
  ASSUME UNCHANGED calls, NEW d \in Days
  PROVE  SpentInMonth(d)' = SpentInMonth(d)
BY MonthIsFinite, NextMonthSums

\* Nothing is recorded on the day, and fewer requests are pending than before.
LEMMA FewerAsk ==
  ASSUME GatewayInv, UNCHANGED <<today, calls, answers>>,
         \A b \in Asks : ask'[b].pc \in {"waiting", "running"} => Pending(b) /\ SpendsAlike(b)
  PROVE  /\ DaysAreKept' /\ MonthsAreKept' /\ QuotasAreKept' /\ OvershootIsBounded'
         /\ SpendingIsCounted' /\ TomorrowIsOpen'
<1>1. /\ GatewayTypeOK /\ DaysAreKept /\ MonthsAreKept /\ QuotasAreKept /\ OvershootIsBounded
      /\ SpendingIsCounted /\ TomorrowIsOpen /\ today \in Days
      /\ calls \in [Days \X Targets -> Nat] /\ answers \in [Days \X Targets \X Sources -> Nat]
  BY DEF GatewayInv, GatewayTypeOK
<1>2. /\ DailyBudget \in [Targets -> Int] /\ QuestionLimit \in [Targets -> Int] /\ MonthlyBudget \in Int
      /\ MaxCost \in Nat
  BY GatewayAssumption DEF GatewayAssumption
<1>3. \A d \in Days : SpentInMonth(d)' = SpentInMonth(d)
  BY SpentIsSpent
<1>4. SpendingIsCounted' /\ TomorrowIsOpen'
  BY <1>1, <1>3 DEF SpendingIsCounted, TomorrowIsOpen
<1>5. OvershootIsBounded'
  BY <1>1, <1>3 DEF OvershootIsBounded
<1>6. DaysAreKept'
  <2>1. ASSUME NEW t \in Targets
        PROVE  IF DailyBudget[t] > 0
               THEN Within(calls'[<<today', t>>], Under(Paths, {t}, Sources)', MaxCost, DailyBudget[t])
               ELSE Under(Paths, {t}, Sources)' = {} /\ \A d \in Days : calls'[<<d, t>>] = 0
    <3>1. PICK U, V : U = Under(Paths, {t}, Sources) /\ V = Under(Paths, {t}, Sources)'
      OBVIOUS
    <3>2. V \subseteq U /\ U \subseteq Asks
      BY <3>1 DEF Under, Pending, SpendsAlike
    <3>3. CASE DailyBudget[t] > 0
      <4>1. Within(calls[<<today, t>>], U, MaxCost, DailyBudget[t])
        BY <1>1, <3>1, <3>3 DEF DaysAreKept
      <4>2. calls[<<today, t>>] \in Nat
        BY <1>1
      <4>3. Within(calls[<<today, t>>], V, MaxCost, DailyBudget[t])
        BY <1>2, <3>2, <4>1, <4>2, LimitKept
      <4>4. QED
        BY <3>1, <3>3, <4>3
    <3>4. CASE ~(DailyBudget[t] > 0)
      BY <1>1, <3>1, <3>2, <3>4 DEF DaysAreKept
    <3>5. QED
      BY <3>3, <3>4
  <2>2. QED
    BY <2>1 DEF DaysAreKept
<1>7. MonthsAreKept'
  <2>1. PICK U, V : U = Under(Paths, Targets, Sources) /\ V = Under(Paths, Targets, Sources)'
    OBVIOUS
  <2>2. V \subseteq U /\ U \subseteq Asks
    BY <2>1 DEF Under, Pending, SpendsAlike
  <2>3. CASE MonthlyBudget > 0
    <3>1. Within(SpentInMonth(today), U, MaxCost, MonthlyBudget)
      BY <1>1, <2>1, <2>3 DEF MonthsAreKept
    <3>2. SpentInMonth(today) \in Nat /\ SpentInMonth(today)' = SpentInMonth(today)
      BY <1>1, SpentIsSpent DEF SpendingIsCounted, SpentInMonth
    <3>3. Within(SpentInMonth(today), V, MaxCost, MonthlyBudget)
      BY <1>2, <2>2, <3>1, <3>2, LimitKept
    <3>4. QED
      BY <2>1, <2>3, <3>2, <3>3 DEF MonthsAreKept
  <2>4. CASE ~(MonthlyBudget > 0)
    <3>1. V = {} /\ \A d \in Days : SpentInMonth(d)' = 0
      BY <1>1, <1>3, <2>1, <2>2, <2>4 DEF MonthsAreKept
    <3>2. QED
      BY <2>1, <2>4, <3>1 DEF MonthsAreKept
  <2>5. QED
    BY <2>3, <2>4
<1>8. QuotasAreKept'
  <2>1. ASSUME NEW t \in Targets, NEW s \in Sources, QuestionLimit[t] > 0
        PROVE  Within(answers'[<<today', t, s>>], Under({"chat"}, {t}, {s})', 1, QuestionLimit[t])
    <3>1. PICK U, V : U = Under({"chat"}, {t}, {s}) /\ V = Under({"chat"}, {t}, {s})'
      OBVIOUS
    <3>2. V \subseteq U /\ U \subseteq Asks
      BY <3>1 DEF Under, Pending, SpendsAlike
    <3>3. Within(answers[<<today, t, s>>], U, 1, QuestionLimit[t])
      BY <1>1, <2>1, <3>1 DEF QuotasAreKept
    <3>4. answers[<<today, t, s>>] \in Nat
      BY <1>1
    <3>5. Within(answers[<<today, t, s>>], V, 1, QuestionLimit[t])
      BY <1>2, <3>2, <3>3, <3>4, LimitKept
    <3>6. QED
      BY <3>1, <3>5
  <2>2. QED
    BY <2>1 DEF QuotasAreKept
<1>9. QED
  BY <1>4, <1>5, <1>6, <1>7, <1>8

\* What is within a limit has not passed it by more than the slack.
LEMMA WithinIsBounded ==
  ASSUME NEW spent \in Nat, NEW U \in SUBSET Asks, NEW c \in Nat, NEW limit \in Int,
         Within(spent, U, c, limit)
  PROVE  spent < limit + Cardinality(Asks) * c
<1>1. PICK u \in Nat, n \in Nat : u = Cardinality(U) /\ n = Cardinality(Asks)
  BY AsksAreCounted
<1>2. PICK uc \in Nat, nc \in Nat : uc = u * c /\ nc = n * c
  BY ProductsGrow
<1>3. spent + uc < limit + nc
  BY <1>1, <1>2 DEF Within
<1>4. spent < limit + nc
  BY <1>3
<1>5. QED
  BY <1>1, <1>2, <1>4

\* A request comes in below every limit that is about it.
LEMMA ArrivalKeeps ==
  ASSUME GatewayInv, NEW a \in Asks, ~Pending(a), NEW q \in AskState, ask' = [ask EXCEPT ![a] = q],
         UNCHANGED <<today, calls, answers>>,
         SpentInMonth(today) < MonthlyBudget,
         calls[<<today, q.target>>] < DailyBudget[q.target],
         q.path = "chat" /\ QuestionLimit[q.target] > 0 =>
           answers[<<today, q.target, q.source>>] < QuestionLimit[q.target]
  PROVE  /\ DaysAreKept' /\ MonthsAreKept' /\ QuotasAreKept' /\ OvershootIsBounded'
         /\ SpendingIsCounted' /\ TomorrowIsOpen'
<1>1. /\ GatewayTypeOK /\ DaysAreKept /\ MonthsAreKept /\ QuotasAreKept /\ OvershootIsBounded
      /\ SpendingIsCounted /\ TomorrowIsOpen /\ today \in Days /\ ask \in [Asks -> AskState]
      /\ calls \in [Days \X Targets -> Nat] /\ answers \in [Days \X Targets \X Sources -> Nat]
  BY DEF GatewayInv, GatewayTypeOK
<1>2. /\ DailyBudget \in [Targets -> Int] /\ QuestionLimit \in [Targets -> Int] /\ MonthlyBudget \in Int
      /\ MaxCost \in Nat
  BY GatewayAssumption DEF GatewayAssumption
<1>3. \A d \in Days : SpentInMonth(d)' = SpentInMonth(d)
  BY SpentIsSpent
<1>4. SpendingIsCounted' /\ TomorrowIsOpen'
  BY <1>1, <1>3 DEF SpendingIsCounted, TomorrowIsOpen
<1>5. OvershootIsBounded'
  BY <1>1, <1>3 DEF OvershootIsBounded
<1>6. /\ q.target \in Targets /\ q.path \in Paths /\ q.source \in Sources
      /\ ask'[a] = q /\ \A b \in Asks \ {a} : ask'[b] = ask[b]
  BY <1>1 DEF AskState, Paths
<1>7. DaysAreKept'
  <2>1. ASSUME NEW t \in Targets
        PROVE  IF DailyBudget[t] > 0
               THEN Within(calls'[<<today', t>>], Under(Paths, {t}, Sources)', MaxCost, DailyBudget[t])
               ELSE Under(Paths, {t}, Sources)' = {} /\ \A d \in Days : calls'[<<d, t>>] = 0
    <3>1. PICK U, V : U = Under(Paths, {t}, Sources) /\ V = Under(Paths, {t}, Sources)'
      OBVIOUS
    <3>2. V \subseteq Asks /\ U \subseteq Asks
      BY <3>1 DEF Under
    <3>3. calls[<<today, t>>] \in Nat /\ DailyBudget[t] \in Int
      BY <1>1, <1>2
    <3>4. CASE t = q.target
      <4>1. calls[<<today, t>>] < DailyBudget[t] /\ DailyBudget[t] > 0
        BY <3>3, <3>4
      <4>2. Within(calls[<<today, t>>], V, MaxCost, DailyBudget[t])
        BY <1>2, <3>2, <3>3, <4>1, LimitKept
      <4>3. QED
        BY <3>1, <4>1, <4>2
    <3>5. CASE t # q.target
      <4>1. V \subseteq U
        BY <1>6, <3>1, <3>5 DEF Under
      <4>2. CASE DailyBudget[t] > 0
        <5>1. Within(calls[<<today, t>>], U, MaxCost, DailyBudget[t])
          BY <1>1, <3>1, <4>2 DEF DaysAreKept
        <5>2. Within(calls[<<today, t>>], V, MaxCost, DailyBudget[t])
          BY <1>2, <3>2, <3>3, <4>1, <5>1, LimitKept
        <5>3. QED
          BY <3>1, <4>2, <5>2
      <4>3. CASE ~(DailyBudget[t] > 0)
        BY <1>1, <3>1, <4>1, <4>3 DEF DaysAreKept
      <4>4. QED
        BY <4>2, <4>3
    <3>6. QED
      BY <3>4, <3>5
  <2>2. QED
    BY <2>1 DEF DaysAreKept
<1>8. MonthsAreKept'
  <2>1. PICK V : V = Under(Paths, Targets, Sources)'
    OBVIOUS
  <2>2. V \subseteq Asks
    BY <2>1 DEF Under
  <2>3. SpentInMonth(today) \in Nat /\ SpentInMonth(today)' = SpentInMonth(today) /\ MonthlyBudget > 0
    <3>1. SpentInMonth(today) \in Nat
      BY <1>1 DEF SpendingIsCounted
    <3>2. SpentInMonth(today)' = SpentInMonth(today)
      BY <1>1, SpentIsSpent DEF SpentInMonth
    <3>3. MonthlyBudget > 0
      BY <1>2, <3>1
    <3>4. QED
      BY <3>1, <3>2, <3>3
  <2>4. Within(SpentInMonth(today), V, MaxCost, MonthlyBudget)
    BY <1>2, <2>2, <2>3, LimitKept
  <2>5. QED
    BY <2>1, <2>3, <2>4 DEF MonthsAreKept
<1>9. QuotasAreKept'
  <2>1. ASSUME NEW t \in Targets, NEW s \in Sources, QuestionLimit[t] > 0
        PROVE  Within(answers'[<<today', t, s>>], Under({"chat"}, {t}, {s})', 1, QuestionLimit[t])
    <3>1. PICK U, V : U = Under({"chat"}, {t}, {s}) /\ V = Under({"chat"}, {t}, {s})'
      OBVIOUS
    <3>2. V \subseteq Asks /\ U \subseteq Asks
      BY <3>1 DEF Under
    <3>3. answers[<<today, t, s>>] \in Nat /\ QuestionLimit[t] \in Int
      BY <1>1, <1>2
    <3>4. CASE q.path = "chat" /\ t = q.target /\ s = q.source
      <4>1. answers[<<today, t, s>>] < QuestionLimit[t]
        BY <2>1, <3>4
      <4>2. Within(answers[<<today, t, s>>], V, 1, QuestionLimit[t])
        BY <3>2, <3>3, <4>1, LimitKept
      <4>3. QED
        BY <3>1, <4>2
    <3>5. CASE ~(q.path = "chat" /\ t = q.target /\ s = q.source)
      <4>1. V \subseteq U
        BY <1>6, <3>1, <3>5 DEF Under
      <4>2. Within(answers[<<today, t, s>>], U, 1, QuestionLimit[t])
        BY <1>1, <2>1, <3>1 DEF QuotasAreKept
      <4>3. Within(answers[<<today, t, s>>], V, 1, QuestionLimit[t])
        BY <3>2, <3>3, <4>1, <4>2, LimitKept
      <4>4. QED
        BY <3>1, <4>3
    <3>6. QED
      BY <3>4, <3>5
  <2>2. QED
    BY <2>1 DEF QuotasAreKept
<1>10. QED
  BY <1>4, <1>5, <1>7, <1>8, <1>9

\* A new day, and perhaps a new month: nothing is spent of it.
LEMMA MidnightKeeps ==
  ASSUME GatewayInv, Midnight
  PROVE  /\ DaysAreKept' /\ MonthsAreKept' /\ QuotasAreKept' /\ OvershootIsBounded'
         /\ SpendingIsCounted' /\ TomorrowIsOpen' /\ today' \in Days
<1>1. /\ GatewayTypeOK /\ DaysAreKept /\ MonthsAreKept /\ QuotasAreKept /\ OvershootIsBounded
      /\ SpendingIsCounted /\ TomorrowIsOpen /\ today \in Days
      /\ calls \in [Days \X Targets -> Nat] /\ answers \in [Days \X Targets \X Sources -> Nat]
  BY DEF GatewayInv, GatewayTypeOK
<1>2. /\ DailyBudget \in [Targets -> Int] /\ QuestionLimit \in [Targets -> Int] /\ MonthlyBudget \in Int
      /\ MaxCost \in Nat /\ LastDay \in Nat
  BY GatewayAssumption DEF GatewayAssumption
<1>3. PICK d \in Days : d = today + 1
  BY <1>1, <1>2 DEF Midnight, Days
<1>4. /\ today' = d /\ UNCHANGED <<calls, questions, ask, line, answers>>
      /\ today \in Nat /\ d > today /\ \A e \in Days : e \in Nat /\ (e > d => e > today)
  BY <1>1, <1>3 DEF Midnight, Days
<1>5. \A e \in Days : SpentInMonth(e)' = SpentInMonth(e)
  BY <1>4, SpentIsSpent
<1>6. SpendingIsCounted' /\ TomorrowIsOpen'
  BY <1>1, <1>4, <1>5 DEF SpendingIsCounted, TomorrowIsOpen
<1>7. OvershootIsBounded'
  BY <1>1, <1>4, <1>5 DEF OvershootIsBounded
<1>8. DaysAreKept'
  <2>1. ASSUME NEW t \in Targets
        PROVE  IF DailyBudget[t] > 0
               THEN Within(calls'[<<today', t>>], Under(Paths, {t}, Sources)', MaxCost, DailyBudget[t])
               ELSE Under(Paths, {t}, Sources)' = {} /\ \A e \in Days : calls'[<<e, t>>] = 0
    <3>1. PICK V : V = Under(Paths, {t}, Sources) /\ V = Under(Paths, {t}, Sources)'
      BY <1>4 DEF Under
    <3>2. V \subseteq Asks
      BY <3>1 DEF Under
    <3>3. calls[<<d, t>>] = 0 /\ 0 \in Nat /\ DailyBudget[t] \in Int
      BY <1>1, <1>2, <1>4 DEF TomorrowIsOpen
    <3>4. CASE DailyBudget[t] > 0
      <4>1. 0 < DailyBudget[t]
        BY <3>3, <3>4
      <4>2. Within(0, V, MaxCost, DailyBudget[t])
        BY <1>2, <3>2, <3>3, <4>1, LimitKept
      <4>3. QED
        BY <1>4, <3>1, <3>3, <3>4, <4>2
    <3>5. CASE ~(DailyBudget[t] > 0)
      BY <1>1, <1>4, <3>1, <3>5 DEF DaysAreKept
    <3>6. QED
      BY <3>4, <3>5
  <2>2. QED
    BY <2>1 DEF DaysAreKept
<1>9. MonthsAreKept'
  <2>1. PICK V : V = Under(Paths, Targets, Sources) /\ V = Under(Paths, Targets, Sources)'
    BY <1>4 DEF Under
  <2>2. V \subseteq Asks
    BY <2>1 DEF Under
  <2>3. CASE MonthlyBudget > 0
    <3>1. Within(SpentInMonth(d), V, MaxCost, MonthlyBudget)
      <4>1. CASE today \div MonthLength = d \div MonthLength
        <5>1. MonthOf(d) = MonthOf(today)
          BY <4>1 DEF MonthOf
        <5>2. SpentInMonth(d) = SpentInMonth(today)
          BY <1>1, <5>1, MonthIsFinite
        <5>3. Within(SpentInMonth(today), V, MaxCost, MonthlyBudget)
          BY <1>1, <2>1, <2>3 DEF MonthsAreKept
        <5>4. QED
          BY <5>2, <5>3
      <4>2. CASE today \div MonthLength # d \div MonthLength
        <5>1. SpentInMonth(d) = 0
          BY <1>1, <1>3, <4>2, NewMonthIsOpen
        <5>2. 0 < MonthlyBudget /\ 0 \in Nat
          BY <1>2, <2>3
        <5>3. Within(0, V, MaxCost, MonthlyBudget)
          BY <1>2, <2>2, <5>2, LimitKept
        <5>4. QED
          BY <5>1, <5>3
      <4>3. QED
        BY <4>1, <4>2
    <3>2. SpentInMonth(today)' = SpentInMonth(d)
      <4>1. SpentInMonth(today)' = SetSum(calls', MonthOf(today)')
        BY DEF SpentInMonth, SetSum, MonthOf, MapThenSumSet, MapThenFoldSet
      <4>2. MonthOf(today)' = MonthOf(d)
        BY <1>4 DEF MonthOf
      <4>3. QED
        BY <1>4, <4>1, <4>2, MonthIsFinite
    <3>3. QED
      BY <2>1, <2>3, <3>1, <3>2 DEF MonthsAreKept
  <2>4. CASE ~(MonthlyBudget > 0)
    BY <1>1, <1>5, <2>1, <2>4 DEF MonthsAreKept
  <2>5. QED
    BY <2>3, <2>4
<1>10. QuotasAreKept'
  <2>1. ASSUME NEW t \in Targets, NEW s \in Sources, QuestionLimit[t] > 0
        PROVE  Within(answers'[<<today', t, s>>], Under({"chat"}, {t}, {s})', 1, QuestionLimit[t])
    <3>1. PICK V : V = Under({"chat"}, {t}, {s})'
      OBVIOUS
    <3>2. V \subseteq Asks
      BY <3>1 DEF Under
    <3>3. answers[<<d, t, s>>] = 0 /\ 0 \in Nat /\ QuestionLimit[t] \in Int
      BY <1>1, <1>2, <1>4 DEF TomorrowIsOpen
    <3>4. 0 < QuestionLimit[t]
      BY <2>1, <3>3
    <3>5. Within(0, V, 1, QuestionLimit[t])
      BY <3>2, <3>3, <3>4, LimitKept
    <3>6. QED
      BY <1>4, <3>1, <3>3, <3>5
  <2>2. QED
    BY <2>1 DEF QuotasAreKept
<1>11. QED
  BY <1>4, <1>6, <1>7, <1>8, <1>9, <1>10

\* A request ends and its cost is recorded: what it may still have added is gone.
LEMMA RecordKeeps ==
  ASSUME GatewayInv, NEW a \in Asks, ask[a].pc = "running", NEW cost \in 0..MaxCost,
         Record(a, cost), ask' = [ask EXCEPT ![a] = NoAsk], UNCHANGED today,
         \/ UNCHANGED answers
         \/ /\ ask[a].path = "chat"
            /\ answers' = [answers EXCEPT ![<<today, ask[a].target, ask[a].source>>] = @ + 1]
  PROVE  /\ DaysAreKept' /\ MonthsAreKept' /\ QuotasAreKept' /\ OvershootIsBounded'
         /\ SpendingIsCounted' /\ TomorrowIsOpen'
         /\ calls' \in [Days \X Targets -> Nat] /\ answers' \in [Days \X Targets \X Sources -> Nat]
         /\ \A p \in Days \X Targets : calls[p] <= calls'[p]
         /\ \A p \in Days \X Targets \X Sources : answers[p] <= answers'[p]
         /\ \A d \in Days : SpentInMonth(d) <= SpentInMonth(d)'
<1>1. /\ GatewayTypeOK /\ DaysAreKept /\ MonthsAreKept /\ QuotasAreKept /\ OvershootIsBounded
      /\ SpendingIsCounted /\ TomorrowIsOpen /\ today \in Days /\ ask \in [Asks -> AskState]
      /\ calls \in [Days \X Targets -> Nat] /\ answers \in [Days \X Targets \X Sources -> Nat]
  BY DEF GatewayInv, GatewayTypeOK
<1>2. /\ DailyBudget \in [Targets -> Int] /\ QuestionLimit \in [Targets -> Int] /\ MonthlyBudget \in Int
      /\ MaxCost \in Nat /\ cost \in Nat /\ cost <= MaxCost
  BY GatewayAssumption DEF GatewayAssumption
<1>3. PICK u \in Targets, r \in Sources : u = ask[a].target /\ r = ask[a].source /\ ask[a].path \in Paths
  BY <1>1 DEF AskState, Paths
<1>4. /\ NoAsk.pc = "idle" /\ ask'[a] = NoAsk
      /\ \A b \in Asks \ {a} : ask'[b] = ask[b]
  BY <1>1 DEF NoAsk
<1>5. calls' = [calls EXCEPT ![<<today, u>>] = @ + cost]
  BY <1>3 DEF Record
<1>6. /\ calls' \in [Days \X Targets -> Nat]
      /\ \A d \in Days, t \in Targets :
           calls'[<<d, t>>] = IF d = today /\ t = u THEN calls[<<d, t>>] + cost ELSE calls[<<d, t>>]
  <2>1. <<today, u>> \in Days \X Targets /\ calls[<<today, u>>] \in Nat
    BY <1>1
  <2>2. calls[<<today, u>>] + cost \in Nat
    BY <1>2, <2>1
  <2>3. QED
    BY <1>1, <1>5, <2>1, <2>2
<1>7. PICK more \in BOOLEAN :
        /\ more => ask[a].path = "chat" /\ answers' = [answers EXCEPT ![<<today, u, r>>] = @ + 1]
        /\ ~more => answers' = answers
  BY <1>3
<1>8. /\ answers' \in [Days \X Targets \X Sources -> Nat]
      /\ \A d \in Days, t \in Targets, s \in Sources :
           answers'[<<d, t, s>>] = IF more /\ d = today /\ t = u /\ s = r
                                   THEN answers[<<d, t, s>>] + 1 ELSE answers[<<d, t, s>>]
  <2>1. <<today, u, r>> \in Days \X Targets \X Sources /\ answers[<<today, u, r>>] \in Nat
    BY <1>1
  <2>2. answers[<<today, u, r>>] + 1 \in Nat
    BY <2>1
  <2>3. CASE more
    BY <1>1, <1>7, <2>1, <2>2, <2>3
  <2>4. CASE ~more
    BY <1>1, <1>7, <2>4
  <2>5. QED
    BY <2>3, <2>4
<1>9. /\ \A p \in Days \X Targets : calls[p] <= calls'[p]
      /\ \A p \in Days \X Targets \X Sources : answers[p] <= answers'[p]
  <2>1. ASSUME NEW d \in Days, NEW t \in Targets PROVE calls[<<d, t>>] <= calls'[<<d, t>>]
    <3>1. calls[<<d, t>>] \in Nat
      BY <1>1
    <3>2. QED
      BY <1>2, <1>6, <3>1
  <2>2. ASSUME NEW d \in Days, NEW t \in Targets, NEW s \in Sources
        PROVE  answers[<<d, t, s>>] <= answers'[<<d, t, s>>]
    <3>1. answers[<<d, t, s>>] \in Nat
      BY <1>1
    <3>2. QED
      BY <1>8, <3>1
  <2>3. QED
    BY <2>1, <2>2
<1>10. \A d \in Days :
         /\ SpentInMonth(d) \in Nat /\ SpentInMonth(d)' \in Nat
         /\ SpentInMonth(d)' =
              SpentInMonth(d) + (IF today \div MonthLength = d \div MonthLength THEN cost ELSE 0)
  <2>1. ASSUME NEW d \in Days
        PROVE  /\ SpentInMonth(d) \in Nat
               /\ SpentInMonth(d)' =
                    SpentInMonth(d) + (IF today \div MonthLength = d \div MonthLength THEN cost ELSE 0)
    BY <1>1, <1>2, <1>5, RecordingAdds DEF SpendingIsCounted
  <2>2. QED
    BY <1>2, <2>1
<1>11. SpendingIsCounted'
  BY <1>10 DEF SpendingIsCounted
<1>12. TomorrowIsOpen'
  <2>1. \A d \in Days : d > today => d # today
    BY <1>1 DEF Days
  <2>2. QED
    BY <1>1, <1>6, <1>8, <2>1 DEF TomorrowIsOpen
<1>13. ASSUME NEW paths, NEW targets, NEW sources, NEW U, NEW V,
              U = Under(paths, targets, sources), V = Under(paths, targets, sources)'
       PROVE  /\ U \subseteq Asks /\ V = U \ {a} /\ V \subseteq U
              /\ a \in U <=> ask[a].path \in paths /\ u \in targets /\ r \in sources
  BY <1>3, <1>4, <1>13 DEF Under
<1>14. DaysAreKept'
  <2>1. ASSUME NEW t \in Targets
        PROVE  IF DailyBudget[t] > 0
               THEN Within(calls'[<<today', t>>], Under(Paths, {t}, Sources)', MaxCost, DailyBudget[t])
               ELSE Under(Paths, {t}, Sources)' = {} /\ \A d \in Days : calls'[<<d, t>>] = 0
    <3>1. PICK U, V : U = Under(Paths, {t}, Sources) /\ V = Under(Paths, {t}, Sources)'
      OBVIOUS
    <3>2. U \subseteq Asks /\ V = U \ {a} /\ V \subseteq U /\ (a \in U <=> t = u)
      <4>1. /\ U \subseteq Asks /\ V = U \ {a} /\ V \subseteq U
            /\ a \in U <=> ask[a].path \in Paths /\ u \in {t} /\ r \in Sources
        BY <1>13, <3>1
      <4>2. QED
        BY <1>3, <4>1
    <3>3. calls[<<today, t>>] \in Nat /\ calls'[<<today, t>>] \in Nat /\ DailyBudget[t] \in Int
      BY <1>1, <1>2, <1>6
    <3>4. CASE DailyBudget[t] > 0
      <4>1. Within(calls[<<today, t>>], U, MaxCost, DailyBudget[t])
        BY <1>1, <3>1, <3>4 DEF DaysAreKept
      <4>2. CASE t = u
        <5>1. calls'[<<today, t>>] <= calls[<<today, t>>] + MaxCost
          BY <1>1, <1>2, <1>6, <3>3, <4>2
        <5>2. Within(calls'[<<today, t>>], V, MaxCost, DailyBudget[t])
          BY <1>2, <3>2, <3>3, <4>1, <4>2, <5>1, LimitKept
        <5>3. QED
          BY <3>1, <3>4, <5>2
      <4>3. CASE t # u
        <5>1. calls'[<<today, t>>] = calls[<<today, t>>]
          BY <1>1, <1>6, <4>3
        <5>2. Within(calls'[<<today, t>>], V, MaxCost, DailyBudget[t])
          BY <1>2, <3>2, <3>3, <4>1, <5>1, LimitKept
        <5>3. QED
          BY <3>1, <3>4, <5>2
      <4>4. QED
        BY <4>2, <4>3
    <3>5. CASE ~(DailyBudget[t] > 0)
      <4>1. U = {} /\ \A d \in Days : calls[<<d, t>>] = 0
        BY <1>1, <3>1, <3>5 DEF DaysAreKept
      <4>2. V = {} /\ t # u
        BY <3>2, <4>1
      <4>3. \A d \in Days : calls'[<<d, t>>] = 0
        BY <1>6, <4>1, <4>2
      <4>4. QED
        BY <3>1, <3>5, <4>2, <4>3
    <3>6. QED
      BY <3>4, <3>5
  <2>2. QED
    BY <2>1 DEF DaysAreKept
<1>15. MonthsAreKept' /\ MonthlyBudget > 0
  <2>1. PICK U, V : U = Under(Paths, Targets, Sources) /\ V = Under(Paths, Targets, Sources)'
    OBVIOUS
  <2>2. U \subseteq Asks /\ V = U \ {a} /\ a \in U
    <3>1. /\ U \subseteq Asks /\ V = U \ {a} /\ V \subseteq U
          /\ a \in U <=> ask[a].path \in Paths /\ u \in Targets /\ r \in Sources
      BY <1>13, <2>1
    <3>2. QED
      BY <1>3, <3>1
  <2>3. MonthlyBudget > 0 /\ Within(SpentInMonth(today), U, MaxCost, MonthlyBudget)
    BY <1>1, <2>1, <2>2 DEF MonthsAreKept
  <2>4. PICK m, n : m = SpentInMonth(today) /\ n = SpentInMonth(today)'
    OBVIOUS
  <2>5. m \in Nat /\ n \in Nat /\ n = m + cost
    <3>1. PICK d \in Days : d = today /\ d = today'
      BY <1>1
    <3>2. m = SpentInMonth(d) /\ n = SpentInMonth(d)'
      <4>1. SpentInMonth(today)' = SpentInMonth(d)'
        BY <3>1 DEF SpentInMonth
      <4>2. QED
        BY <2>4, <3>1, <4>1
    <3>3. QED
      BY <1>10, <3>1, <3>2
  <2>6. n <= m + MaxCost
    BY <1>2, <2>5
  <2>7. Within(n, V, MaxCost, MonthlyBudget)
    BY <1>2, <2>2, <2>3, <2>4, <2>5, <2>6, LimitKept
  <2>8. QED
    BY <2>1, <2>3, <2>4, <2>7 DEF MonthsAreKept
<1>16. QuotasAreKept'
  <2>1. ASSUME NEW t \in Targets, NEW s \in Sources, QuestionLimit[t] > 0
        PROVE  Within(answers'[<<today', t, s>>], Under({"chat"}, {t}, {s})', 1, QuestionLimit[t])
    <3>1. PICK U, V : U = Under({"chat"}, {t}, {s}) /\ V = Under({"chat"}, {t}, {s})'
      OBVIOUS
    <3>2. U \subseteq Asks /\ V = U \ {a} /\ V \subseteq U /\ (a \in U <=> ask[a].path = "chat" /\ t = u /\ s = r)
      <4>1. /\ U \subseteq Asks /\ V = U \ {a} /\ V \subseteq U
            /\ a \in U <=> ask[a].path \in {"chat"} /\ u \in {t} /\ r \in {s}
        BY <1>13, <3>1
      <4>2. QED
        BY <4>1
    <3>3. PICK m \in Nat, n \in Nat : m = answers[<<today, t, s>>] /\ n = answers'[<<today, t, s>>]
      BY <1>1, <1>8
    <3>4. QuestionLimit[t] \in Int /\ Within(m, U, 1, QuestionLimit[t])
      BY <1>1, <1>2, <2>1, <3>1, <3>3 DEF QuotasAreKept
    <3>5. Within(n, V, 1, QuestionLimit[t])
      <4>1. CASE more /\ t = u /\ s = r
        <5>1. a \in U
          BY <1>7, <3>2, <4>1
        <5>2. n <= m + 1
          BY <1>1, <1>8, <3>3, <4>1
        <5>3. QED
          BY <3>2, <3>4, <5>1, <5>2, LimitKept
      <4>2. CASE ~(more /\ t = u /\ s = r)
        <5>1. n = m
          BY <1>1, <1>8, <3>3, <4>2
        <5>2. QED
          BY <3>2, <3>4, <5>1, LimitKept
      <4>3. QED
        BY <4>1, <4>2
    <3>6. QED
      BY <3>1, <3>3, <3>5
  <2>2. QED
    BY <2>1 DEF QuotasAreKept
<1>17. OvershootIsBounded'
  <2> DEFINE slack == Cardinality(Asks) * MaxCost
  <2>1. ASSUME NEW d \in Days, NEW t \in Targets
        PROVE  calls'[<<d, t>>] < DailyBudget[t] + slack \/ (DailyBudget[t] <= 0 /\ calls'[<<d, t>>] = 0)
    <3>1. CASE d = today /\ DailyBudget[t] > 0
      <4>1. PICK V : V = Under(Paths, {t}, Sources)'
        OBVIOUS
      <4>2. Within(calls'[<<today, t>>], V, MaxCost, DailyBudget[t])
        BY <1>14, <3>1, <4>1 DEF DaysAreKept
      <4>3. V \subseteq Asks /\ calls'[<<today, t>>] \in Nat /\ DailyBudget[t] \in Int
        BY <1>1, <1>2, <1>6, <4>1 DEF Under
      <4>4. QED
        BY <1>2, <3>1, <4>2, <4>3, WithinIsBounded
    <3>2. CASE d = today /\ ~(DailyBudget[t] > 0)
      <4>1. calls'[<<d, t>>] = 0
        BY <1>14, <3>2 DEF DaysAreKept
      <4>2. DailyBudget[t] <= 0
        BY <1>2, <3>2
      <4>3. QED
        BY <4>1, <4>2
    <3>3. CASE d # today
      <4>1. calls'[<<d, t>>] = calls[<<d, t>>]
        BY <1>6, <3>3
      <4>2. calls[<<d, t>>] < DailyBudget[t] + slack \/ (DailyBudget[t] <= 0 /\ calls[<<d, t>>] = 0)
        BY <1>1 DEF OvershootIsBounded
      <4>3. QED
        BY <4>1, <4>2
    <3>4. QED
      BY <3>1, <3>2, <3>3
  <2>2. ASSUME NEW d \in Days
        PROVE  SpentInMonth(d)' < MonthlyBudget + slack \/ (MonthlyBudget <= 0 /\ SpentInMonth(d)' = 0)
    <3>1. CASE today \div MonthLength = d \div MonthLength
      <4>1. PICK V, n : V = Under(Paths, Targets, Sources)' /\ n = SpentInMonth(today)'
        OBVIOUS
      <4>2. Within(n, V, MaxCost, MonthlyBudget)
        BY <1>15, <4>1 DEF MonthsAreKept
      <4>3. V \subseteq Asks
        BY <4>1 DEF Under
      <4>4. n = SpentInMonth(d)'
        <5>1. MonthOf(today)' = MonthOf(d)
          BY <3>1 DEF MonthOf
        <5>2. SpentInMonth(today)' = SetSum(calls', MonthOf(today)')
          BY DEF SpentInMonth, SetSum, MonthOf, MapThenSumSet, MapThenFoldSet
        <5>3. QED
          BY <4>1, <5>1, <5>2, NextMonthSums
      <4>5. n \in Nat
        BY <1>10, <4>4
      <4>6. n < MonthlyBudget + slack
        BY <1>2, <4>2, <4>3, <4>5, WithinIsBounded
      <4>7. QED
        BY <4>4, <4>6
    <3>2. CASE today \div MonthLength # d \div MonthLength
      <4>1. SpentInMonth(d)' = SpentInMonth(d)
        BY <1>10, <3>2
      <4>2. SpentInMonth(d) < MonthlyBudget + slack \/ (MonthlyBudget <= 0 /\ SpentInMonth(d) = 0)
        BY <1>1 DEF OvershootIsBounded
      <4>3. QED
        BY <4>1, <4>2
    <3>3. QED
      BY <3>1, <3>2
  <2>3. ASSUME NEW d \in Days, NEW t \in Targets, NEW s \in Sources, QuestionLimit[t] > 0
        PROVE  answers'[<<d, t, s>>] < QuestionLimit[t] + Cardinality(Asks)
    <3>1. CASE d = today
      <4>1. PICK V, n : V = Under({"chat"}, {t}, {s})' /\ n = answers'[<<today, t, s>>]
        OBVIOUS
      <4>2. Within(n, V, 1, QuestionLimit[t])
        BY <1>16, <2>3, <4>1 DEF QuotasAreKept
      <4>3. V \subseteq Asks /\ n \in Nat /\ QuestionLimit[t] \in Int
        BY <1>1, <1>2, <1>8, <4>1 DEF Under
      <4>4. n < QuestionLimit[t] + Cardinality(Asks) * 1
        BY <4>2, <4>3, WithinIsBounded
      <4>5. Cardinality(Asks) * 1 = Cardinality(Asks)
        BY AsksAreCounted
      <4>6. QED
        BY <3>1, <4>1, <4>4, <4>5
    <3>2. CASE d # today
      <4>1. answers'[<<d, t, s>>] = answers[<<d, t, s>>]
        BY <1>8, <3>2
      <4>2. answers[<<d, t, s>>] < QuestionLimit[t] + Cardinality(Asks)
        BY <1>1, <2>3 DEF OvershootIsBounded
      <4>3. QED
        BY <4>1, <4>2
    <3>3. QED
      BY <3>1, <3>2
  <2> HIDE DEF slack
  <2>4. \A p \in Days \X Targets :
          calls'[p] < DailyBudget[p[2]] + slack \/ (DailyBudget[p[2]] <= 0 /\ calls'[p] = 0)
    BY <2>1
  <2>5. \A p \in Days \X Targets \X Sources :
          QuestionLimit[p[2]] > 0 => answers'[p] < QuestionLimit[p[2]] + Cardinality(Asks)
    BY <2>3
  <2>6. QED
    BY <2>2, <2>4, <2>5 DEF OvershootIsBounded, slack
<1>18. \A d \in Days : SpentInMonth(d) <= SpentInMonth(d)'
  BY <1>2, <1>10
<1>19. QED
  BY <1>6, <1>8, <1>9, <1>11, <1>12, <1>14, <1>15, <1>16, <1>17, <1>18

LEMMA NoAskIsAsk == NoAsk \in AskState /\ NoAsk.pc = "idle"
<1>1. (CHOOSE s \in Sources : TRUE) \in Sources /\ CmmsTarget \in Targets /\ 0 \in Days
  BY GatewayAssumption DEF GatewayAssumption, Days
<1>2. QED
  BY <1>1 DEF NoAsk, AskState

LEMMA GatewayStart == GatewayInit => GatewayInv
<1> SUFFICES ASSUME GatewayInit PROVE GatewayInv
  OBVIOUS
<1>1. /\ DailyBudget \in [Targets -> Int] /\ QuestionLimit \in [Targets -> Int] /\ MonthlyBudget \in Int
      /\ MaxCost \in Nat /\ 0 \in Days
  BY GatewayAssumption DEF GatewayAssumption, Days
<1>2. /\ today = 0 /\ ask = [a \in Asks |-> NoAsk] /\ line = <<>>
      /\ calls = [p \in Days \X Targets |-> 0]
      /\ questions = [p \in Days \X Targets \X Sources |-> 0]
      /\ answers = [p \in Days \X Targets \X Sources |-> 0]
  BY DEF GatewayInit
<1>3. GatewayTypeOK
  BY <1>1, <1>2, NoAskIsAsk DEF GatewayTypeOK
<1>4. LineIsRight /\ TomorrowIsOpen
  BY <1>2 DEF LineIsRight, TomorrowIsOpen
<1>5. \A d \in Days : SpentInMonth(d) = 0
  <2>1. ASSUME NEW d \in Days PROVE SpentInMonth(d) = 0
    <3>1. \A p \in MonthOf(d) : calls[p] = 0
      BY <1>2 DEF MonthOf
    <3>2. QED
      BY <3>1, MonthIsFinite, SetSumOfNothing
  <2>2. QED
    BY <2>1
<1>6. SpendingIsCounted
  BY <1>5 DEF SpendingIsCounted
<1>7. \A paths, targets, sources : Under(paths, targets, sources) = {}
  BY <1>2, NoAskIsAsk DEF Under
<1>8. /\ \A t \in Targets : DailyBudget[t] > 0 => Within(0, {}, MaxCost, DailyBudget[t])
      /\ \A t \in Targets : QuestionLimit[t] > 0 => Within(0, {}, 1, QuestionLimit[t])
      /\ MonthlyBudget > 0 => Within(0, {}, MaxCost, MonthlyBudget)
  <2>1. ASSUME NEW l \in Int, l > 0, NEW c \in Nat PROVE Within(0, {}, c, l)
    <3>1. {} \in SUBSET Asks /\ 0 \in Nat /\ 0 < l
      BY <2>1
    <3>2. QED
      BY <3>1, LimitKept
  <2>2. QED
    BY <1>1, <2>1
<1>9. DaysAreKept
  BY <1>1, <1>2, <1>7, <1>8 DEF DaysAreKept
<1>10. MonthsAreKept
  BY <1>1, <1>2, <1>5, <1>7, <1>8 DEF MonthsAreKept
<1>11. QuotasAreKept
  BY <1>1, <1>2, <1>7, <1>8 DEF QuotasAreKept
<1>12. QuestionsAreAnswers
  <2>1. ASSUME NEW t \in Targets PROVE 0 = IF QuestionLimit[t] <= 0 THEN 0 ELSE Min({0, QuestionLimit[t]})
    <3>1. QuestionLimit[t] \in Int
      BY <1>1
    <3>2. CASE QuestionLimit[t] > 0
      BY <3>1, <3>2, MinOfTwo
    <3>3. QED
      BY <3>1, <3>2
  <2>2. QED
    BY <1>2, <2>1 DEF QuestionsAreAnswers
<1>13. RefusalsAreTrue
  BY <1>2, NoAskIsAsk DEF RefusalsAreTrue
<1>14. OvershootIsBounded
  <2>1. ASSUME NEW l \in Int, NEW c \in Nat PROVE 0 < l + Cardinality(Asks) * c \/ l <= 0
    <3>1. CASE l > 0
      <4>1. {} \in SUBSET Asks /\ 0 \in Nat /\ 0 < l
        BY <3>1
      <4>2. QED
        BY <4>1, LimitKept
    <3>2. QED
      BY <3>1
  <2>2. \A t \in Targets : 0 < DailyBudget[t] + Cardinality(Asks) * MaxCost \/ DailyBudget[t] <= 0
    BY <1>1, <2>1
  <2>3. 0 < MonthlyBudget + Cardinality(Asks) * MaxCost \/ MonthlyBudget <= 0
    BY <1>1, <2>1
  <2>4. \A t \in Targets : QuestionLimit[t] > 0 => 0 < QuestionLimit[t] + Cardinality(Asks)
    <3>1. Cardinality(Asks) \in Nat
      BY AsksAreCounted
    <3>2. QED
      BY <1>1, <3>1
  <2>5. QED
    BY <1>2, <1>5, <2>2, <2>3, <2>4 DEF OvershootIsBounded
<1>15. QED
  BY <1>3, <1>4, <1>6, <1>9, <1>10, <1>11, <1>12, <1>13, <1>14 DEF GatewayInv

\* What a refusal says stays true: spending and answers only grow.
LEMMA RefusalsKeep ==
  ASSUME GatewayInv, UNCHANGED today,
         \A b \in Asks : ask'[b] = ask[b] \/ ask'[b].pc \notin {"quota", "daily", "monthly"},
         calls' \in [Days \X Targets -> Nat], answers' \in [Days \X Targets \X Sources -> Nat],
         \A p \in Days \X Targets : calls[p] <= calls'[p],
         \A p \in Days \X Targets \X Sources : answers[p] <= answers'[p],
         SpendingIsCounted', \A d \in Days : SpentInMonth(d) <= SpentInMonth(d)'
  PROVE  RefusalsAreTrue'
<1>1. /\ ask \in [Asks -> AskState] /\ RefusalsAreTrue /\ SpendingIsCounted
      /\ calls \in [Days \X Targets -> Nat] /\ answers \in [Days \X Targets \X Sources -> Nat]
  BY DEF GatewayInv, GatewayTypeOK
<1>2. /\ DailyBudget \in [Targets -> Int] /\ QuestionLimit \in [Targets -> Int] /\ MonthlyBudget \in Int
  BY GatewayAssumption DEF GatewayAssumption
<1>3. ASSUME NEW a \in Asks, ask'[a] = ask[a]
      PROVE  (/\ ask[a].pc = "quota" => answers[<<ask[a].day, ask[a].target, ask[a].source>>] >= QuestionLimit[ask[a].target]
              /\ ask[a].pc = "daily" => calls[<<ask[a].day, ask[a].target>>] >= DailyBudget[ask[a].target]
              /\ ask[a].pc = "monthly" => SpentInMonth(ask[a].day) >= MonthlyBudget)'
  <2>1. PICK d \in Days, t \in Targets, s \in Sources :
          d = ask[a].day /\ t = ask[a].target /\ s = ask[a].source
    BY <1>1 DEF AskState
  <2>2. /\ ask[a].pc = "quota" => answers[<<d, t, s>>] >= QuestionLimit[t]
        /\ ask[a].pc = "daily" => calls[<<d, t>>] >= DailyBudget[t]
        /\ ask[a].pc = "monthly" => SpentInMonth(d) >= MonthlyBudget
    BY <1>1, <2>1 DEF RefusalsAreTrue
  <2>3. /\ answers[<<d, t, s>>] \in Nat /\ answers'[<<d, t, s>>] \in Nat
        /\ answers[<<d, t, s>>] <= answers'[<<d, t, s>>] /\ QuestionLimit[t] \in Int
    BY <1>1, <1>2
  <2>4. /\ calls[<<d, t>>] \in Nat /\ calls'[<<d, t>>] \in Nat
        /\ calls[<<d, t>>] <= calls'[<<d, t>>] /\ DailyBudget[t] \in Int
    BY <1>1, <1>2
  <2>5. PICK m \in Nat, n \in Nat : m = SpentInMonth(d) /\ n = SpentInMonth(d)' /\ m <= n
    BY <1>1 DEF SpendingIsCounted
  <2>6. SpentInMonth(ask[a].day)' = n
    BY <1>3, <2>1, <2>5 DEF SpentInMonth
  <2>7. ask[a].pc = "quota" => answers'[<<d, t, s>>] >= QuestionLimit[t]
    BY <2>2, <2>3
  <2>8. ask[a].pc = "daily" => calls'[<<d, t>>] >= DailyBudget[t]
    BY <2>2, <2>4
  <2>9. ask[a].pc = "monthly" => n >= MonthlyBudget
    BY <1>2, <2>2, <2>5
  <2>10. QED
    BY <1>3, <2>1, <2>6, <2>7, <2>8, <2>9
<1>4. QED
  BY <1>3 DEF RefusalsAreTrue

\* What the gates let through and what they refuse.
LEMMA VerdictIsTrue ==
  ASSUME GatewayInv, NEW path \in Paths, NEW t \in Targets, NEW s \in Sources
  PROVE  /\ Verdict(path, t, s) \in {"waiting", "running", "monthly", "daily", "quota"}
         /\ Verdict(path, t, s) = "monthly" => SpentInMonth(today) >= MonthlyBudget
         /\ Verdict(path, t, s) = "daily" => calls[<<today, t>>] >= DailyBudget[t]
         /\ Verdict(path, t, s) = "quota" => answers[<<today, t, s>>] >= QuestionLimit[t]
         /\ Verdict(path, t, s) \in {"waiting", "running"} =>
              /\ SpentInMonth(today) < MonthlyBudget
              /\ calls[<<today, t>>] < DailyBudget[t]
              /\ path = "chat" /\ QuestionLimit[t] > 0 => answers[<<today, t, s>>] < QuestionLimit[t]
<1>1. /\ SpendingIsCounted /\ QuestionsAreAnswers /\ today \in Days
      /\ calls \in [Days \X Targets -> Nat]
      /\ questions \in [Days \X Targets \X Sources -> Nat]
      /\ answers \in [Days \X Targets \X Sources -> Nat]
  BY DEF GatewayInv, GatewayTypeOK
<1>2. PICK month \in Nat : month = SpentInMonth(today)
  BY <1>1 DEF SpendingIsCounted
<1>3. PICK spent \in Nat, asked \in Nat, given \in Nat :
        /\ spent = calls[<<today, t>>]
        /\ asked = questions[<<today, t, s>>]
        /\ given = answers[<<today, t, s>>]
  BY <1>1
<1>4. PICK budget \in Int, limit \in Int :
        budget = DailyBudget[t] /\ limit = QuestionLimit[t] /\ MonthlyBudget \in Int
  BY GatewayAssumption DEF GatewayAssumption
<1>5. limit > 0 => (asked >= limit <=> given >= limit)
  <2>1. asked = IF limit <= 0 THEN 0 ELSE Min({given, limit})
    <3>1. PICK p : p = <<today, t, s>>
      OBVIOUS
    <3>2. p \in Days \X Targets \X Sources /\ p[2] = t
      BY <1>1, <3>1
    <3>3. questions[p] = IF QuestionLimit[p[2]] <= 0 THEN 0 ELSE Min({answers[p], QuestionLimit[p[2]]})
      BY <1>1, <3>2 DEF QuestionsAreAnswers
    <3>4. QED
      BY <1>3, <1>4, <3>1, <3>2, <3>3
  <2>2. CASE limit > 0
    <3>1. asked = Min({given, limit}) /\ limit \in Nat
      BY <1>4, <2>1, <2>2
    <3>2. asked <= given /\ asked <= limit /\ (asked = given \/ asked = limit)
      BY <3>1, MinOfTwo
    <3>3. QED
      BY <3>1, <3>2
  <2>3. QED
    BY <1>4, <2>2
<1>6. PICK verdict : verdict = Verdict(path, t, s)
  OBVIOUS
<1>7. verdict = IF MonthlyBudget <= 0 \/ month >= MonthlyBudget THEN "monthly"
                ELSE IF budget <= 0 \/ spent >= budget THEN "daily"
                ELSE IF path = "description" THEN "running"
                ELSE IF limit <= 0 \/ asked < limit THEN "waiting" ELSE "quota"
  BY <1>2, <1>3, <1>4, <1>6 DEF Verdict, Exhausted, QuotaLeft, SpentOn
<1>8. /\ verdict \in {"waiting", "running", "monthly", "daily", "quota"}
      /\ verdict = "monthly" => month >= MonthlyBudget
      /\ verdict = "daily" => spent >= budget
      /\ verdict = "quota" => given >= limit
      /\ verdict \in {"waiting", "running"} =>
           /\ month < MonthlyBudget
           /\ spent < budget
           /\ path = "chat" /\ limit > 0 => given < limit
  BY <1>4, <1>5, <1>7
<1>9. QED
  BY <1>2, <1>3, <1>4, <1>6, <1>8

LEMMA ArriveKeeps ==
  ASSUME GatewayInv, NEW a \in Asks, NEW path \in Paths, NEW t \in Targets, NEW s \in Sources,
         Arrive(a, path, t, s)
  PROVE  GatewayInv'
<1>1. /\ GatewayTypeOK /\ LineIsRight /\ QuestionsAreAnswers /\ RefusalsAreTrue
      /\ today \in Days /\ ask \in [Asks -> AskState] /\ line \in Seq(Asks)
  BY DEF GatewayInv, GatewayTypeOK
<1>2. PICK verdict, q :
        /\ verdict = Verdict(path, t, s)
        /\ q = [pc |-> verdict, path |-> path, target |-> t, source |-> s, day |-> today]
        /\ ask' = [ask EXCEPT ![a] = q]
        /\ line' = IF verdict = "waiting" THEN Append(line, a) ELSE line
        /\ UNCHANGED <<today, calls, questions, answers>>
        /\ ~Pending(a)
  BY DEF Arrive, Pending
<1>3. verdict \in {"waiting", "running", "monthly", "daily", "quota"}
  BY <1>2, VerdictIsTrue
<1>4. /\ q \in AskState /\ q.pc = verdict /\ q.target = t /\ q.source = s /\ q.day = today
      /\ q.path = path
  BY <1>1, <1>2, <1>3 DEF AskState, Paths
<1>5. ask'[a] = q /\ \A b \in Asks \ {a} : ask'[b] = ask[b]
  BY <1>1, <1>2
<1>6. GatewayTypeOK'
  <2>1. ask' \in [Asks -> AskState]
    BY <1>1, <1>2, <1>4
  <2>2. line' \in Seq(Asks)
    BY <1>1, <1>2
  <2>3. QED
    BY <1>1, <1>2, <2>1, <2>2 DEF GatewayTypeOK
<1>7. LineIsRight'
  <2>1. \A i \in DOMAIN line : line[i] \in Asks \ {a} /\ ask'[line[i]].pc = "waiting"
    <3>1. \A i \in DOMAIN line : line[i] \in Asks /\ ask[line[i]].pc = "waiting"
      BY <1>1 DEF LineIsRight
    <3>2. QED
      BY <1>2, <1>5, <3>1 DEF Pending
  <2>2. CASE verdict = "waiting"
    <3>1. /\ line' = Append(line, a) /\ Len(line) \in Nat /\ DOMAIN line = 1..Len(line)
          /\ DOMAIN line' = 1..(Len(line) + 1)
          /\ line'[Len(line) + 1] = a
          /\ \A i \in DOMAIN line : line'[i] = line[i]
      BY <1>1, <1>2, <2>2
    <3>2. \A i \in DOMAIN line' : i \in DOMAIN line \/ i = Len(line) + 1
      BY <3>1
    <3>3. \A i \in DOMAIN line' : ask'[line'[i]].pc = "waiting"
      BY <1>4, <1>5, <2>1, <2>2, <3>1, <3>2
    <3>4. \A i, j \in DOMAIN line' : line'[i] = line'[j] => i = j
      BY <1>1, <2>1, <3>1, <3>2 DEF LineIsRight
    <3>5. QED
      BY <1>6, <3>3, <3>4 DEF LineIsRight, GatewayTypeOK
  <2>3. CASE verdict # "waiting"
    BY <1>1, <1>2, <2>1, <2>3 DEF LineIsRight
  <2>4. QED
    BY <2>2, <2>3
<1>8. QuestionsAreAnswers'
  BY <1>1, <1>2 DEF QuestionsAreAnswers
<1>9. RefusalsAreTrue'
  <2>1. ASSUME NEW b \in Asks
        PROVE  (/\ ask[b].pc = "quota" => answers[<<ask[b].day, ask[b].target, ask[b].source>>] >= QuestionLimit[ask[b].target]
                /\ ask[b].pc = "daily" => calls[<<ask[b].day, ask[b].target>>] >= DailyBudget[ask[b].target]
                /\ ask[b].pc = "monthly" => SpentInMonth(ask[b].day) >= MonthlyBudget)'
    <3>1. PICK d \in Days : d = ask'[b].day
      BY <1>6 DEF GatewayTypeOK, AskState
    <3>2. SpentInMonth(ask[b].day)' = SpentInMonth(d)
      <4>1. SpentInMonth(ask[b].day)' = SpentInMonth(d)'
        BY <3>1 DEF SpentInMonth
      <4>2. QED
        BY <1>2, <4>1, SpentIsSpent
    <3>3. CASE b = a
      BY <1>2, <1>4, <1>5, <3>1, <3>2, <3>3, VerdictIsTrue
    <3>4. CASE b # a
      BY <1>1, <1>2, <1>5, <3>1, <3>2, <3>4 DEF RefusalsAreTrue
    <3>5. QED
      BY <3>3, <3>4
  <2>2. QED
    BY <2>1 DEF RefusalsAreTrue
<1>10. /\ DaysAreKept' /\ MonthsAreKept' /\ QuotasAreKept' /\ OvershootIsBounded'
       /\ SpendingIsCounted' /\ TomorrowIsOpen'
  <2>1. CASE verdict \in {"waiting", "running"}
    <3>1. /\ SpentInMonth(today) < MonthlyBudget
          /\ calls[<<today, q.target>>] < DailyBudget[q.target]
          /\ q.path = "chat" /\ QuestionLimit[q.target] > 0 =>
               answers[<<today, q.target, q.source>>] < QuestionLimit[q.target]
      BY <1>2, <1>4, <2>1, VerdictIsTrue
    <3>2. QED
      BY <1>2, <1>4, <3>1, ArrivalKeeps
  <2>2. CASE verdict \notin {"waiting", "running"}
    <3>1. \A b \in Asks : ask'[b].pc \in {"waiting", "running"} => Pending(b) /\ SpendsAlike(b)
      BY <1>4, <1>5, <2>2 DEF Pending, SpendsAlike
    <3>2. QED
      BY <1>2, <3>1, FewerAsk
  <2>3. QED
    BY <2>1, <2>2
<1>11. QED
  BY <1>6, <1>7, <1>8, <1>9, <1>10 DEF GatewayInv

\* Spending stands still on the day: what has been refused stays refused rightly.
LEMMA NothingSpent ==
  ASSUME GatewayInv, UNCHANGED <<today, calls, answers>>,
         \A b \in Asks : ask'[b] = ask[b] \/ ask'[b].pc \notin {"quota", "daily", "monthly"}
  PROVE  RefusalsAreTrue'
<1>1. /\ calls \in [Days \X Targets -> Nat] /\ answers \in [Days \X Targets \X Sources -> Nat]
      /\ SpendingIsCounted
  BY DEF GatewayInv, GatewayTypeOK
<1>2. \A d \in Days : SpentInMonth(d)' = SpentInMonth(d)
  BY SpentIsSpent
<1>3. SpendingIsCounted'
  BY <1>1, <1>2 DEF SpendingIsCounted
<1>4. \A p \in Days \X Targets : calls[p] <= calls'[p]
  BY <1>1
<1>5. \A p \in Days \X Targets \X Sources : answers[p] <= answers'[p]
  BY <1>1
<1>6. \A d \in Days : SpentInMonth(d) <= SpentInMonth(d)'
  <2>1. ASSUME NEW d \in Days PROVE SpentInMonth(d) <= SpentInMonth(d)'
    <3>1. PICK m \in Nat : m = SpentInMonth(d)
      BY <1>1 DEF SpendingIsCounted
    <3>2. QED
      BY <1>2, <3>1
  <2>2. QED
    BY <2>1
<1>7. QED
  BY <1>1, <1>3, <1>4, <1>5, <1>6, RefusalsKeep

LEMMA StartChatKeeps ==
  ASSUME GatewayInv, StartChat
  PROVE  GatewayInv'
<1>1. /\ GatewayTypeOK /\ LineIsRight /\ QuestionsAreAnswers
      /\ ask \in [Asks -> AskState] /\ line \in Seq(Asks)
  BY DEF GatewayInv, GatewayTypeOK
<1>2. /\ line # <<>> /\ ask' = [ask EXCEPT ![Head(line)].pc = "running"] /\ line' = Tail(line)
      /\ UNCHANGED <<today, calls, questions, answers>>
  BY DEF StartChat
<1>3. PICK a \in Asks : a = Head(line) /\ a = line[1] /\ 1 \in DOMAIN line /\ ask[a].pc = "waiting"
  <2>1. 1 \in DOMAIN line /\ Head(line) = line[1]
    BY <1>1, <1>2
  <2>2. line[1] \in Asks
    BY <1>1, <2>1
  <2>3. QED
    BY <1>1, <2>1, <2>2 DEF LineIsRight
<1>4. PICK q \in AskState :
        /\ q = [ask[a] EXCEPT !.pc = "running"] /\ q.pc = "running"
        /\ q.path = ask[a].path /\ q.target = ask[a].target /\ q.source = ask[a].source
  <2>1. PICK r \in AskState : r = ask[a]
    BY <1>1
  <2>2. /\ [r EXCEPT !.pc = "running"] \in AskState
        /\ [r EXCEPT !.pc = "running"].pc = "running" /\ [r EXCEPT !.pc = "running"].path = r.path
        /\ [r EXCEPT !.pc = "running"].target = r.target
        /\ [r EXCEPT !.pc = "running"].source = r.source
    BY ONLY r \in AskState DEF AskState
  <2>3. QED
    BY <2>1, <2>2
<1>5. ask' = [ask EXCEPT ![a] = q]
  BY <1>2, <1>3, <1>4
<1>6. ask' \in [Asks -> AskState] /\ ask'[a] = q /\ \A b \in Asks \ {a} : ask'[b] = ask[b]
  BY <1>1, <1>5
<1>7. LineIsRight'
  <2>1. CASE Len(line) = 1
    <3>1. line' = <<>>
      BY <1>1, <1>2, <2>1
    <3>2. QED
      BY <3>1 DEF LineIsRight
  <2>2. CASE Len(line) # 1
    <3>1. /\ line' \in Seq(Asks)
          /\ \A i \in DOMAIN line' : i + 1 \in DOMAIN line /\ line'[i] = line[i + 1]
          /\ DOMAIN line' = 1..(Len(line) - 1) /\ Len(line) \in Nat
      BY <1>1, <1>2, <2>2, TailShifts
    <3>2. ASSUME NEW i \in DOMAIN line' PROVE ask'[line'[i]].pc = "waiting" /\ i \in Nat /\ i >= 1
      <4>1. i \in Nat /\ i >= 1
        BY <3>1
      <4>2. i + 1 \in DOMAIN line /\ line'[i] = line[i + 1] /\ i + 1 # 1
        BY <3>1, <4>1
      <4>3. line[i + 1] # a
        BY <1>1, <1>3, <4>2 DEF LineIsRight
      <4>4. line[i + 1] \in Asks
        BY <1>1, <4>2
      <4>5. ask[line[i + 1]].pc = "waiting"
        BY <1>1, <4>2 DEF LineIsRight
      <4>6. QED
        BY <1>6, <4>1, <4>2, <4>3, <4>4, <4>5
    <3>3. ASSUME NEW i \in DOMAIN line', NEW j \in DOMAIN line', line'[i] = line'[j] PROVE i = j
      <4>1. i + 1 = j + 1
        BY <1>1, <3>1, <3>3 DEF LineIsRight
      <4>2. QED
        BY <3>2, <4>1
    <3>4. QED
      BY <3>1, <3>2, <3>3 DEF LineIsRight
  <2>3. QED
    BY <2>1, <2>2
<1>8. GatewayTypeOK'
  BY <1>1, <1>2, <1>6, <1>7 DEF GatewayTypeOK, LineIsRight
<1>9. QuestionsAreAnswers'
  BY <1>1, <1>2 DEF QuestionsAreAnswers
<1>10. RefusalsAreTrue'
  BY <1>2, <1>4, <1>6, NothingSpent
<1>11. \A b \in Asks : ask'[b].pc \in {"waiting", "running"} => Pending(b) /\ SpendsAlike(b)
  BY <1>3, <1>4, <1>6 DEF Pending, SpendsAlike
<1>12. /\ DaysAreKept' /\ MonthsAreKept' /\ QuotasAreKept' /\ OvershootIsBounded'
       /\ SpendingIsCounted' /\ TomorrowIsOpen'
  BY <1>2, <1>11, FewerAsk
<1>13. QED
  BY <1>7, <1>8, <1>9, <1>10, <1>12 DEF GatewayInv

\* Requests that end without a record: the time limit, and the end of the process.
LEMMA EndsUnrecorded ==
  ASSUME GatewayInv, UNCHANGED <<today, calls, questions, answers>>,
         ask' \in [Asks -> AskState],
         \A b \in Asks : ask'[b] = ask[b] \/ ask'[b].pc = "idle",
         \/ line' = <<>>
         \/ line' = line /\ \A b \in Asks : ask[b].pc = "waiting" => ask'[b] = ask[b]
  PROVE  GatewayInv'
<1>1. /\ GatewayTypeOK /\ LineIsRight /\ QuestionsAreAnswers /\ line \in Seq(Asks)
  BY DEF GatewayInv, GatewayTypeOK
<1>2. LineIsRight'
  <2>1. CASE line' = <<>>
    BY <2>1 DEF LineIsRight
  <2>2. CASE line' = line /\ \A b \in Asks : ask[b].pc = "waiting" => ask'[b] = ask[b]
    <3>1. \A i \in DOMAIN line : line[i] \in Asks /\ ask[line[i]].pc = "waiting"
      BY <1>1 DEF LineIsRight
    <3>2. QED
      BY <1>1, <2>2, <3>1 DEF LineIsRight
  <2>3. QED
    BY <2>1, <2>2
<1>3. GatewayTypeOK'
  BY <1>1, <1>2 DEF GatewayTypeOK, LineIsRight
<1>4. QuestionsAreAnswers'
  BY <1>1 DEF QuestionsAreAnswers
<1>5. RefusalsAreTrue'
  <2>1. \A b \in Asks : ask'[b] = ask[b] \/ ask'[b].pc \notin {"quota", "daily", "monthly"}
    OBVIOUS
  <2>2. QED
    BY <2>1, NothingSpent
<1>6. \A b \in Asks : ask'[b].pc \in {"waiting", "running"} => Pending(b) /\ SpendsAlike(b)
  BY DEF Pending, SpendsAlike
<1>7. /\ DaysAreKept' /\ MonthsAreKept' /\ QuotasAreKept' /\ OvershootIsBounded'
      /\ SpendingIsCounted' /\ TomorrowIsOpen'
  BY <1>6, FewerAsk
<1>8. QED
  BY <1>2, <1>3, <1>4, <1>5, <1>7 DEF GatewayInv

LEMMA GiveUpKeeps ==
  ASSUME GatewayInv, NEW a \in Asks, GiveUp(a)
  PROVE  GatewayInv'
<1>1. ask \in [Asks -> AskState]
  BY DEF GatewayInv, GatewayTypeOK
<1>2. /\ ask[a].pc = "running" /\ ask' = [ask EXCEPT ![a] = NoAsk]
      /\ UNCHANGED <<today, calls, questions, line, answers>>
  BY DEF GiveUp, EndAsk
<1>3. /\ ask' \in [Asks -> AskState] /\ ask'[a].pc = "idle"
      /\ \A b \in Asks \ {a} : ask'[b] = ask[b]
  BY <1>1, <1>2, NoAskIsAsk
<1>4. \A b \in Asks : ask'[b] = ask[b] \/ ask'[b].pc = "idle"
  BY <1>3
<1>5. \A b \in Asks : ask[b].pc = "waiting" => ask'[b] = ask[b]
  BY <1>2, <1>3
<1>6. QED
  BY <1>2, <1>3, <1>4, <1>5, EndsUnrecorded

LEMMA RestartKeeps ==
  ASSUME GatewayInv, Restart
  PROVE  GatewayInv'
<1>1. ask \in [Asks -> AskState]
  BY DEF GatewayInv, GatewayTypeOK
<1>2. /\ line' = <<>> /\ UNCHANGED <<today, calls, questions, answers>>
      /\ ask' = [b \in Asks |-> IF ask[b].pc \in {"waiting", "running"} THEN NoAsk ELSE ask[b]]
  BY DEF Restart
<1>3. /\ ask' \in [Asks -> AskState]
      /\ \A b \in Asks : ask'[b] = ask[b] \/ ask'[b].pc = "idle"
  BY <1>1, <1>2, NoAskIsAsk
<1>4. QED
  BY <1>2, <1>3, EndsUnrecorded

\* A request that ends with a record: the answer of a chat counts as a question, a failure
\* and a summary do not.
LEMMA EndsRecorded ==
  ASSUME GatewayInv, NEW a \in Asks, NEW cost \in 0..MaxCost,
         ask[a].pc = "running", EndAsk(a), Record(a, cost),
         \/ UNCHANGED <<questions, answers>>
         \/ /\ ask[a].path = "chat"
            /\ questions' = [questions EXCEPT ![<<today, ask[a].target, ask[a].source>>] =
                               QuestionsAfter(@, QuestionLimit[ask[a].target])]
            /\ answers' = [answers EXCEPT ![<<today, ask[a].target, ask[a].source>>] = @ + 1]
  PROVE  GatewayInv'
<1>1. /\ GatewayTypeOK /\ LineIsRight /\ QuestionsAreAnswers /\ today \in Days
      /\ ask \in [Asks -> AskState] /\ line \in Seq(Asks)
      /\ questions \in [Days \X Targets \X Sources -> Nat]
      /\ answers \in [Days \X Targets \X Sources -> Nat]
  BY DEF GatewayInv, GatewayTypeOK
<1>2. ask' = [ask EXCEPT ![a] = NoAsk] /\ UNCHANGED <<today, line>>
  BY DEF EndAsk
<1>3. /\ ask' \in [Asks -> AskState] /\ ask'[a].pc = "idle"
      /\ \A b \in Asks \ {a} : ask'[b] = ask[b]
  BY <1>1, <1>2, NoAskIsAsk
<1>4. /\ DaysAreKept' /\ MonthsAreKept' /\ QuotasAreKept' /\ OvershootIsBounded'
      /\ SpendingIsCounted' /\ TomorrowIsOpen'
      /\ calls' \in [Days \X Targets -> Nat] /\ answers' \in [Days \X Targets \X Sources -> Nat]
      /\ \A p \in Days \X Targets : calls[p] <= calls'[p]
      /\ \A p \in Days \X Targets \X Sources : answers[p] <= answers'[p]
      /\ \A d \in Days : SpentInMonth(d) <= SpentInMonth(d)'
  BY <1>2, RecordKeeps
<1>5. RefusalsAreTrue'
  <2>1. \A b \in Asks : ask'[b] = ask[b] \/ ask'[b].pc \notin {"quota", "daily", "monthly"}
    BY <1>3
  <2>2. QED
    BY <1>2, <1>4, <2>1, RefusalsKeep
<1>6. LineIsRight'
  <2>1. \A i \in DOMAIN line : line[i] \in Asks /\ ask[line[i]].pc = "waiting"
    BY <1>1 DEF LineIsRight
  <2>2. QED
    BY <1>1, <1>2, <1>3, <2>1 DEF LineIsRight
<1>7. questions' \in [Days \X Targets \X Sources -> Nat] /\ QuestionsAreAnswers'
  <2>1. CASE UNCHANGED <<questions, answers>>
    BY <1>1, <2>1 DEF QuestionsAreAnswers
  <2>2. CASE /\ questions' = [questions EXCEPT ![<<today, ask[a].target, ask[a].source>>] =
                                QuestionsAfter(@, QuestionLimit[ask[a].target])]
             /\ answers' = [answers EXCEPT ![<<today, ask[a].target, ask[a].source>>] = @ + 1]
    <3>1. PICK t \in Targets, s \in Sources : t = ask[a].target /\ s = ask[a].source
      BY <1>1 DEF AskState
    <3>2. PICK p : p = <<today, t, s>>
      OBVIOUS
    <3>3. p \in Days \X Targets \X Sources /\ p[2] = t
      BY <1>1, <3>2
    <3>4. PICK asked \in Nat, given \in Nat, limit \in Int :
            asked = questions[p] /\ given = answers[p] /\ limit = QuestionLimit[t]
      BY <1>1, <3>3, GatewayAssumption DEF GatewayAssumption
    <3>5. /\ questions' = [questions EXCEPT ![p] = QuestionsAfter(asked, limit)]
          /\ answers' = [answers EXCEPT ![p] = given + 1]
      BY <2>2, <3>1, <3>2, <3>4
    <3>6. asked = IF limit <= 0 THEN 0 ELSE Min({given, limit})
      BY <1>1, <3>3, <3>4 DEF QuestionsAreAnswers
    <3>7. /\ QuestionsAfter(asked, limit) \in Nat
          /\ QuestionsAfter(asked, limit) = IF limit <= 0 THEN 0 ELSE Min({given + 1, limit})
      <4>1. CASE limit <= 0
        BY <3>6, <4>1 DEF QuestionsAfter
      <4>2. CASE limit > 0
        <5>1. limit \in Nat /\ given + 1 \in Nat /\ asked = Min({given, limit})
          BY <3>6, <4>2
        <5>2. asked <= given /\ asked <= limit /\ (asked = given \/ asked = limit)
          BY <5>1, MinOfTwo
        <5>3. PICK more \in Nat : more = Min({given + 1, limit})
          BY <5>1, MinOfTwo
        <5>4. more <= given + 1 /\ more <= limit /\ (more = given + 1 \/ more = limit)
          BY <5>1, <5>3, MinOfTwo
        <5>5. more = IF asked < limit THEN asked + 1 ELSE asked
          BY <5>2, <5>4
        <5>6. QED
          BY <4>2, <5>3, <5>5 DEF QuestionsAfter
      <4>3. QED
        BY <4>1, <4>2
    <3>8. questions' \in [Days \X Targets \X Sources -> Nat]
      BY <1>1, <3>5, <3>7
    <3>9. /\ questions'[p] = QuestionsAfter(asked, limit) /\ answers'[p] = given + 1
          /\ \A r \in Days \X Targets \X Sources :
               r # p => questions'[r] = questions[r] /\ answers'[r] = answers[r]
      BY <1>1, <3>3, <3>5
    <3>10. ASSUME NEW r \in Days \X Targets \X Sources
          PROVE  questions'[r] = IF QuestionLimit[r[2]] <= 0 THEN 0 ELSE Min({answers'[r], QuestionLimit[r[2]]})
      <4>1. CASE r = p
        BY <3>3, <3>4, <3>7, <3>9, <4>1
      <4>2. CASE r # p
        BY <1>1, <3>9, <4>2 DEF QuestionsAreAnswers
      <4>3. QED
        BY <4>1, <4>2
    <3>11. QED
      BY <3>8, <3>10 DEF QuestionsAreAnswers
  <2>3. QED
    BY <2>1, <2>2
<1>8. GatewayTypeOK'
  BY <1>1, <1>2, <1>3, <1>4, <1>7 DEF GatewayTypeOK
<1>9. QED
  BY <1>4, <1>5, <1>6, <1>7, <1>8 DEF GatewayInv

LEMMA MidnightKeepsAll ==
  ASSUME GatewayInv, Midnight
  PROVE  GatewayInv'
<1>1. /\ GatewayTypeOK /\ LineIsRight /\ QuestionsAreAnswers /\ RefusalsAreTrue
  BY DEF GatewayInv
<1>2. UNCHANGED <<calls, questions, ask, line, answers>>
  BY DEF Midnight
<1>3. /\ DaysAreKept' /\ MonthsAreKept' /\ QuotasAreKept' /\ OvershootIsBounded'
      /\ SpendingIsCounted' /\ TomorrowIsOpen' /\ today' \in Days
  BY MidnightKeeps
<1>4. GatewayTypeOK' /\ LineIsRight' /\ QuestionsAreAnswers'
  BY <1>1, <1>2, <1>3 DEF GatewayTypeOK, LineIsRight, QuestionsAreAnswers
<1>5. RefusalsAreTrue'
  <2>1. ASSUME NEW b \in Asks
        PROVE  (/\ ask[b].pc = "quota" => answers[<<ask[b].day, ask[b].target, ask[b].source>>] >= QuestionLimit[ask[b].target]
                /\ ask[b].pc = "daily" => calls[<<ask[b].day, ask[b].target>>] >= DailyBudget[ask[b].target]
                /\ ask[b].pc = "monthly" => SpentInMonth(ask[b].day) >= MonthlyBudget)'
    <3>1. PICK d \in Days : d = ask[b].day
      BY <1>1 DEF GatewayTypeOK, AskState
    <3>2. SpentInMonth(ask[b].day)' = SpentInMonth(d)'
      BY <1>2, <3>1 DEF SpentInMonth
    <3>3. SpentInMonth(ask[b].day)' = SpentInMonth(ask[b].day)
      BY <1>2, <3>1, <3>2, SpentIsSpent
    <3>4. QED
      BY <1>1, <1>2, <3>3 DEF RefusalsAreTrue
  <2>2. QED
    BY <2>1 DEF RefusalsAreTrue
<1>6. QED
  BY <1>3, <1>4, <1>5 DEF GatewayInv

LEMMA GatewayStep == GatewayInv /\ [GatewayNext]_gatewayVars => GatewayInv'
<1> SUFFICES ASSUME GatewayInv, [GatewayNext]_gatewayVars PROVE GatewayInv'
  OBVIOUS
<1>1. ASSUME NEW a \in Asks, NEW path \in {"chat", "description"}, NEW t \in Targets, NEW s \in Sources,
             Arrive(a, path, t, s)
      PROVE  GatewayInv'
  BY <1>1, ArriveKeeps DEF Paths
<1>2. CASE StartChat
  BY <1>2, StartChatKeeps
<1>3. ASSUME NEW a \in Asks, NEW cost \in 1..MaxCost, Answer(a, cost)
      PROVE  GatewayInv'
  <2>1. cost \in 0..MaxCost
    BY GatewayAssumption DEF GatewayAssumption
  <2>2. QED
    BY <1>3, <2>1, EndsRecorded DEF Answer
<1>4. ASSUME NEW a \in Asks, NEW cost \in 0..MaxCost, Fail(a, cost)
      PROVE  GatewayInv'
  BY <1>4, EndsRecorded DEF Fail
<1>5. ASSUME NEW a \in Asks, GiveUp(a)
      PROVE  GatewayInv'
  BY <1>5, GiveUpKeeps
<1>6. CASE Restart
  BY <1>6, RestartKeeps
<1>7. CASE Midnight
  BY <1>7, MidnightKeepsAll
<1>8. CASE UNCHANGED gatewayVars
  <2>1. GatewayTypeOK /\ LineIsRight
    BY DEF GatewayInv
  <2>2. /\ ask' \in [Asks -> AskState] /\ line' = line
        /\ UNCHANGED <<today, calls, questions, answers>> /\ ask' = ask
    BY <1>8, <2>1 DEF gatewayVars, GatewayTypeOK
  <2>3. QED
    BY <2>2, EndsUnrecorded
<1>9. QED
  BY <1>1, <1>2, <1>3, <1>4, <1>5, <1>6, <1>7, <1>8 DEF GatewayNext

\* At every step of the gateway, for any budgets, limits and number of requests at once: a
\* question counts when it is answered and only then, whoever is turned away has had the
\* answers of the day or the money is spent, and what passes a limit because the gates are
\* not looked at again after the wait is bounded by the requests that can be under way.
THEOREM LimitsKept == GatewaySpec => []GatewayKeepsLimits
<1>1. GatewayInv => GatewayKeepsLimits
  BY DEF GatewayInv, GatewayKeepsLimits
<1>2. QED
  BY <1>1, GatewayStart, GatewayStep, PTL DEF GatewaySpec

-----------------------------------------------------------------------------
(***************************************************************************)
(* The photographs.  What is about to get a row has its object, and what   *)
(* is hidden was deleted by somebody.                                      *)
(***************************************************************************)
ObjectsComeFirst ==
  /\ \A u \in Uploads : upload[u].pc = "insert" => upload[u].key \in objects
  /\ \A n \in DOMAIN photo : photo[n].deleted => n \in removed

MediaInv ==
  MediaTypeOK /\ Len(photo) <= MaxPhotos /\ ObjectsComeFirst /\ PhotosAreStored /\ UploadsAreListed

LEMMA NoUploadIsUpload == NoUpload \in UploadState /\ NoUpload.pc = "idle"
<1>1. PICK h \in Holders, c \in Contents : <<h, c>> \in Keys
  BY MediaAssumption DEF MediaAssumption, Keys
<1>2. (CHOOSE k \in Keys : TRUE) \in Keys
  BY <1>1
<1>3. QED
  BY <1>2, MediaAssumption DEF MediaAssumption, NoUpload, UploadState

LEMMA MediaStart == MediaInit => MediaInv
<1> SUFFICES ASSUME MediaInit PROVE MediaInv
  OBVIOUS
<1>1. /\ photo = <<>> /\ Len(photo) = 0 /\ DOMAIN photo = {}
      /\ photo \in Seq([key : Keys, deleted : BOOLEAN])
  BY DEF MediaInit
<1>2. upload = [u \in Uploads |-> NoUpload] /\ objects = {} /\ removed = {}
  BY DEF MediaInit
<1>3. MediaTypeOK
  BY <1>1, <1>2, NoUploadIsUpload DEF MediaTypeOK
<1>4. ObjectsComeFirst /\ PhotosAreStored /\ UploadsAreListed
  BY <1>1, <1>2, NoUploadIsUpload DEF ObjectsComeFirst, PhotosAreStored, UploadsAreListed
<1>5. QED
  BY <1>1, <1>3, <1>4, MediaAssumption DEF MediaInv, MediaAssumption

\* An upload takes a new place in its course; the rows and the objects stay or grow.
LEMMA UploadKeeps ==
  ASSUME MediaInv, NEW u \in Uploads, NEW w \in UploadState, upload' = [upload EXCEPT ![u] = w],
         UNCHANGED <<photo, removed>>, objects \subseteq objects', objects' \subseteq Keys,
         w.pc = "insert" => w.key \in objects',
         w.pc # "created",
         w.pc = "existing" => w.row \in DOMAIN photo /\ photo[w.row].key = w.key
  PROVE  MediaInv'
<1>1. /\ MediaTypeOK /\ ObjectsComeFirst /\ PhotosAreStored /\ UploadsAreListed
      /\ upload \in [Uploads -> UploadState]
  BY DEF MediaInv, MediaTypeOK
<1>2. /\ upload' \in [Uploads -> UploadState] /\ upload'[u] = w
      /\ \A v \in Uploads \ {u} : upload'[v] = upload[v]
  BY <1>1
<1>3. MediaTypeOK'
  BY <1>1, <1>2 DEF MediaTypeOK
<1>4. ObjectsComeFirst' /\ PhotosAreStored'
  BY <1>1, <1>2 DEF ObjectsComeFirst, PhotosAreStored
<1>5. UploadsAreListed'
  <2>1. \A v \in Uploads :
          upload'[v].pc \in {"created", "existing"} =>
            /\ upload'[v].row \in DOMAIN photo /\ photo[upload'[v].row].key = upload'[v].key
            /\ photo[upload'[v].row].deleted => upload'[v].row \in removed
    BY <1>1, <1>2 DEF UploadsAreListed, ObjectsComeFirst
  <2>2. \A v, x \in Uploads :
          upload'[v].pc = "created" /\ upload'[x].pc = "created" /\ upload'[v].key = upload'[x].key => v = x
    BY <1>1, <1>2 DEF UploadsAreListed
  <2>3. QED
    BY <1>1, <2>1, <2>2 DEF UploadsAreListed
<1>6. QED
  BY <1>3, <1>4, <1>5 DEF MediaInv

LEMMA BeginUploadKeeps ==
  ASSUME MediaInv, NEW u \in Uploads, NEW key \in Keys, BeginUpload(u, key)
  PROVE  MediaInv'
<1> DEFINE w == IF RowOf(key) # {}
                THEN [pc |-> "existing", key |-> key, row |-> CHOOSE n \in RowOf(key) : TRUE]
                ELSE [pc |-> "put", key |-> key, row |-> 0]
<1>1. photo \in Seq([key : Keys, deleted : BOOLEAN]) /\ Len(photo) \in Nat /\ Len(photo) <= MaxPhotos
      /\ DOMAIN photo = 1..Len(photo) /\ objects \subseteq Keys /\ MaxPhotos \in Nat
  BY MediaAssumption DEF MediaInv, MediaTypeOK, MediaAssumption
<1>2. upload' = [upload EXCEPT ![u] = w] /\ UNCHANGED <<photo, objects, removed>>
  BY DEF BeginUpload
<1>3. CASE RowOf(key) # {}
  <2>1. PICK n : n = CHOOSE m \in RowOf(key) : TRUE
    OBVIOUS
  <2>2. n \in RowOf(key)
    BY <1>3, <2>1
  <2>3. n \in DOMAIN photo /\ photo[n].key = key /\ n \in 0..MaxPhotos
    BY <1>1, <2>2 DEF RowOf
  <2>4. w = [pc |-> "existing", key |-> key, row |-> n]
    BY <1>3, <2>1
  <2> HIDE DEF w
  <2>5. w \in UploadState /\ w.pc = "existing" /\ w.row = n /\ w.key = key
    BY <2>3, <2>4 DEF UploadState
  <2>6. QED
    BY <1>1, <1>2, <2>3, <2>5, UploadKeeps
<1>4. CASE RowOf(key) = {}
  <2>1. w = [pc |-> "put", key |-> key, row |-> 0]
    BY <1>4
  <2> HIDE DEF w
  <2>2. w \in UploadState /\ w.pc = "put"
    BY <1>1, <2>1 DEF UploadState
  <2>3. QED
    BY <1>1, <1>2, <2>2, UploadKeeps
<1>5. QED
  BY <1>3, <1>4

LEMMA InsertPhotoKeeps ==
  ASSUME MediaInv, NEW u \in Uploads, InsertPhoto(u)
  PROVE  MediaInv'
<1>1. /\ MediaTypeOK /\ ObjectsComeFirst /\ PhotosAreStored /\ UploadsAreListed
      /\ upload \in [Uploads -> UploadState] /\ MaxPhotos \in Nat /\ removed \subseteq DOMAIN photo
      /\ photo \in Seq([key : Keys, deleted : BOOLEAN]) /\ Len(photo) \in Nat /\ Len(photo) <= MaxPhotos
      /\ DOMAIN photo = 1..Len(photo) /\ objects \subseteq Keys
  BY MediaAssumption DEF MediaInv, MediaTypeOK, MediaAssumption
<1>2. PICK k \in Keys, old \in UploadState : old = upload[u] /\ k = old.key /\ old.pc = "insert" /\ k \in objects
  BY <1>1 DEF InsertPhoto, ObjectsComeFirst, UploadState
<1>3. UNCHANGED <<objects, removed>>
  BY DEF InsertPhoto
<1>4. CASE RowOf(k) # {}
  <2>1. PICK n : n = CHOOSE m \in RowOf(k) : TRUE
    OBVIOUS
  <2>2. n \in DOMAIN photo /\ photo[n].key = k /\ n \in 0..MaxPhotos
    <3>1. n \in RowOf(k)
      BY <1>4, <2>1
    <3>2. QED
      BY <1>1, <3>1 DEF RowOf
  <2>3. UNCHANGED photo /\ upload' = [upload EXCEPT ![u].pc = "existing", ![u].row = n]
    BY <1>2, <1>4, <2>1 DEF InsertPhoto
  <2>4. PICK w \in UploadState :
          w = [old EXCEPT !.pc = "existing", !.row = n] /\ w.pc = "existing" /\ w.row = n /\ w.key = k
    <3>1. n \in 0..MaxPhotos
      BY <2>2
    <3>2. PICK w : w = [old EXCEPT !.pc = "existing", !.row = n]
      OBVIOUS
    <3>3. w \in UploadState /\ w.pc = "existing" /\ w.row = n /\ w.key = old.key
      BY ONLY <3>1, <3>2, old \in UploadState DEF UploadState
    <3>4. QED
      BY <1>2, <3>2, <3>3
  <2>5. upload' = [upload EXCEPT ![u] = w]
    BY <1>1, <1>2, <2>3, <2>4
  <2>6. objects \subseteq objects' /\ objects' \subseteq Keys
    BY <1>1, <1>3
  <2>7. w.pc # "created" /\ w.pc # "insert" /\ w.row \in DOMAIN photo /\ photo[w.row].key = w.key
    BY <2>2, <2>4
  <2>8. QED
    BY <1>3, <2>3, <2>5, <2>6, <2>7, UploadKeeps
<1>5. CASE RowOf(k) = {}
  <2>1. PICK n \in Nat : n = Len(photo) + 1 /\ n \in 0..MaxPhotos /\ n \notin DOMAIN photo
    <3>1. Len(photo) < MaxPhotos
      BY <1>2, <1>5 DEF InsertPhoto
    <3>2. QED
      BY <1>1, <3>1
  <2>2. photo' = Append(photo, [key |-> k, deleted |-> FALSE])
        /\ upload' = [upload EXCEPT ![u].pc = "created", ![u].row = n]
    BY <1>2, <1>5, <2>1 DEF InsertPhoto
  <2>3. PICK w \in UploadState :
          w = [old EXCEPT !.pc = "created", !.row = n] /\ w.pc = "created" /\ w.row = n /\ w.key = k
    <3>1. n \in 0..MaxPhotos
      BY <2>1
    <3>2. PICK w : w = [old EXCEPT !.pc = "created", !.row = n]
      OBVIOUS
    <3>3. w \in UploadState /\ w.pc = "created" /\ w.row = n /\ w.key = old.key
      BY ONLY <3>1, <3>2, old \in UploadState DEF UploadState
    <3>4. QED
      BY <1>2, <3>2, <3>3
  <2>4. /\ upload' \in [Uploads -> UploadState] /\ upload'[u] = w
        /\ \A v \in Uploads \ {u} : upload'[v] = upload[v]
    BY <1>1, <1>2, <2>2, <2>3
  <2>5. PICK r \in [key : Keys, deleted : BOOLEAN] :
          r = [key |-> k, deleted |-> FALSE] /\ r.key = k /\ ~r.deleted
    <3>1. [key |-> k, deleted |-> FALSE] \in [key : Keys, deleted : BOOLEAN]
      BY ONLY k \in Keys
    <3>2. QED
      BY ONLY <3>1
  <2>6. /\ photo' \in Seq([key : Keys, deleted : BOOLEAN]) /\ Len(photo') = n
        /\ DOMAIN photo' = 1..n /\ photo'[n] = r
        /\ \A m \in DOMAIN photo : photo'[m] = photo[m]
    BY <1>1, <2>1, <2>2, <2>5
  <2>7. \A m \in DOMAIN photo' : m \in DOMAIN photo \/ m = n
    BY <1>1, <2>1, <2>6
  <2>8. \A m \in DOMAIN photo : photo[m].key # k /\ m # n /\ m \in DOMAIN photo'
    BY <1>1, <1>5, <2>1, <2>6 DEF RowOf
  <2>9. MediaTypeOK'
    BY <1>1, <1>3, <2>4, <2>6, <2>8 DEF MediaTypeOK
  <2>10. ObjectsComeFirst' /\ PhotosAreStored'
    <3>1. \A m \in DOMAIN photo : photo[m].key \in objects /\ (photo[m].deleted => m \in removed)
      BY <1>1 DEF ObjectsComeFirst, PhotosAreStored
    <3>2. \A m \in DOMAIN photo' : photo'[m].key \in objects' /\ (photo'[m].deleted => m \in removed')
      BY <1>2, <1>3, <2>5, <2>6, <2>7, <3>1
    <3>3. \A v \in Uploads : upload'[v].pc = "insert" => upload'[v].key \in objects'
      BY <1>1, <1>3, <2>3, <2>4 DEF ObjectsComeFirst
    <3>4. QED
      BY <3>2, <3>3 DEF ObjectsComeFirst, PhotosAreStored
  <2>11. UploadsAreListed'
    <3>1. \A l, m \in DOMAIN photo' : photo'[l].key = photo'[m].key => l = m
      BY <1>1, <2>5, <2>6, <2>7, <2>8 DEF UploadsAreListed
    <3>2. \A v \in Uploads :
            upload'[v].pc \in {"created", "existing"} =>
              /\ upload'[v].row \in DOMAIN photo' /\ photo'[upload'[v].row].key = upload'[v].key
              /\ photo'[upload'[v].row].deleted => upload'[v].row \in removed'
      <4>1. ASSUME NEW v \in Uploads \ {u}, upload[v].pc \in {"created", "existing"}
            PROVE  /\ upload[v].row \in DOMAIN photo' /\ photo'[upload[v].row].key = upload[v].key
                   /\ photo'[upload[v].row].deleted => upload[v].row \in removed'
        BY <1>1, <1>3, <2>6, <2>8, <4>1 DEF UploadsAreListed
      <4>2. /\ n \in DOMAIN photo' /\ photo'[n].key = k /\ ~photo'[n].deleted
        BY <2>1, <2>5, <2>6
      <4>3. QED
        BY <2>3, <2>4, <4>1, <4>2
    <3>3. \A v \in Uploads \ {u} : upload[v].pc = "created" => upload[v].key # k
      BY <1>1, <2>8 DEF UploadsAreListed
    <3>4. \A v, x \in Uploads :
            upload'[v].pc = "created" /\ upload'[x].pc = "created" /\ upload'[v].key = upload'[x].key => v = x
      <4>1. ASSUME NEW v \in Uploads, NEW x \in Uploads, upload'[v].pc = "created",
                   upload'[x].pc = "created", upload'[v].key = upload'[x].key
            PROVE  v = x
        <5>1. CASE v = u \/ x = u
          BY <2>3, <2>4, <3>3, <4>1, <5>1
        <5>2. CASE v # u /\ x # u
          BY <1>1, <2>4, <4>1, <5>2 DEF UploadsAreListed
        <5>3. QED
          BY <5>1, <5>2
      <4>2. QED
        BY <4>1
    <3>5. QED
      BY <3>1, <3>2, <3>4 DEF UploadsAreListed
  <2>12. Len(photo') <= MaxPhotos
    BY <1>1, <2>1, <2>6
  <2>13. QED
    BY <2>9, <2>10, <2>11, <2>12 DEF MediaInv
<1>6. QED
  BY <1>4, <1>5

\* A row is hidden, and whose it was is on record; or it is shown again.
LEMMA HidingKeeps ==
  ASSUME MediaInv, NEW n \in DOMAIN photo, NEW hidden \in BOOLEAN,
         photo' = [photo EXCEPT ![n].deleted = hidden],
         removed' = removed \cup (IF hidden THEN {n} ELSE {}), UNCHANGED <<objects, upload>>
  PROVE  MediaInv'
<1>1. /\ MediaTypeOK /\ ObjectsComeFirst /\ PhotosAreStored /\ UploadsAreListed
      /\ photo \in Seq([key : Keys, deleted : BOOLEAN]) /\ Len(photo) <= MaxPhotos
      /\ removed \subseteq DOMAIN photo
  BY DEF MediaInv, MediaTypeOK
<1>2. PICK old \in [key : Keys, deleted : BOOLEAN] : old = photo[n]
  <2>1. PICK S : S = [key : Keys, deleted : BOOLEAN]
    OBVIOUS
  <2>2. photo \in Seq(S)
    BY <1>1, <2>1
  <2>3. photo[n] \in S
    BY ONLY <2>2, n \in DOMAIN photo
  <2>4. QED
    BY <2>1, <2>3
<1>3. PICK r \in [key : Keys, deleted : BOOLEAN] :
        r = [photo[n] EXCEPT !.deleted = hidden] /\ r.key = photo[n].key /\ (r.deleted <=> hidden)
  <2>1. PICK r : r = [old EXCEPT !.deleted = hidden]
    OBVIOUS
  <2>2. r \in [key : Keys, deleted : BOOLEAN] /\ r.key = old.key /\ (r.deleted <=> hidden)
    BY ONLY <2>1, old \in [key : Keys, deleted : BOOLEAN], hidden \in BOOLEAN
  <2>3. QED
    BY <1>2, <2>1, <2>2
<1>4. photo' = [photo EXCEPT ![n] = r]
  BY <1>3
<1>5. /\ photo' \in Seq([key : Keys, deleted : BOOLEAN]) /\ Len(photo') = Len(photo)
      /\ DOMAIN photo' = DOMAIN photo /\ photo'[n] = r
      /\ \A m \in DOMAIN photo : m # n => photo'[m] = photo[m]
  <2>1. PICK S : S = [key : Keys, deleted : BOOLEAN]
    OBVIOUS
  <2>2. photo \in Seq(S) /\ r \in S
    BY <1>1, <2>1
  <2>3. /\ photo' \in Seq(S) /\ Len(photo') = Len(photo)
        /\ DOMAIN photo' = DOMAIN photo /\ photo'[n] = r
        /\ \A m \in DOMAIN photo : m # n => photo'[m] = photo[m]
    BY ONLY <1>4, <2>2, n \in DOMAIN photo
  <2>4. QED
    BY <2>1, <2>3
<1>6. \A m \in DOMAIN photo : photo'[m].key = photo[m].key
  BY <1>3, <1>5
<1>7. \A m \in DOMAIN photo : photo'[m].deleted => m \in removed'
  BY <1>1, <1>3, <1>5 DEF ObjectsComeFirst
<1>8. MediaTypeOK'
  BY <1>1, <1>5 DEF MediaTypeOK
<1>9. ObjectsComeFirst' /\ PhotosAreStored'
  BY <1>1, <1>5, <1>6, <1>7 DEF ObjectsComeFirst, PhotosAreStored
<1>10. UploadsAreListed'
  BY <1>1, <1>5, <1>6, <1>7 DEF UploadsAreListed
<1>11. QED
  BY <1>1, <1>5, <1>8, <1>9, <1>10 DEF MediaInv

LEMMA MediaStep == MediaInv /\ [MediaNext]_mediaVars => MediaInv'
<1> SUFFICES ASSUME MediaInv, [MediaNext]_mediaVars PROVE MediaInv'
  OBVIOUS
<1>1. upload \in [Uploads -> UploadState] /\ objects \subseteq Keys
  BY DEF MediaInv, MediaTypeOK
<1>2. ASSUME NEW u \in Uploads, NEW key \in Keys, BeginUpload(u, key) PROVE MediaInv'
  BY <1>2, BeginUploadKeeps
<1>3. ASSUME NEW u \in Uploads, PutObject(u) PROVE MediaInv'
  <2>1. PICK old \in UploadState : old = upload[u] /\ old.key \in Keys
    BY <1>1 DEF UploadState
  <2>2. PICK w \in UploadState : w = [old EXCEPT !.pc = "insert"] /\ w.pc = "insert" /\ w.key = old.key
    <3>1. PICK w : w = [old EXCEPT !.pc = "insert"]
      OBVIOUS
    <3>2. w \in UploadState /\ w.pc = "insert" /\ w.key = old.key
      BY ONLY <3>1, old \in UploadState DEF UploadState
    <3>3. QED
      BY <3>1, <3>2
  <2>3. /\ upload' = [upload EXCEPT ![u] = w] /\ objects' = objects \cup {old.key}
        /\ UNCHANGED <<photo, removed>>
    BY <1>1, <1>3, <2>1, <2>2 DEF PutObject
  <2>4. objects \subseteq objects' /\ objects' \subseteq Keys /\ w.key \in objects'
    BY <1>1, <2>1, <2>2, <2>3
  <2>5. w.pc # "created" /\ w.pc # "existing"
    BY <2>2
  <2>6. QED
    BY <2>3, <2>4, <2>5, UploadKeeps
<1>4. ASSUME NEW u \in Uploads, InsertPhoto(u) PROVE MediaInv'
  BY <1>4, InsertPhotoKeeps
<1>5. ASSUME NEW u \in Uploads, StopUpload(u) PROVE MediaInv'
  <2>1. upload' = [upload EXCEPT ![u] = NoUpload] /\ UNCHANGED <<photo, objects, removed>>
    BY <1>5 DEF StopUpload
  <2>2. QED
    BY <1>1, <2>1, NoUploadIsUpload, UploadKeeps
<1>6. ASSUME NEW n \in DOMAIN photo, SoftDelete(n) PROVE MediaInv'
  BY <1>6, HidingKeeps DEF SoftDelete
<1>7. ASSUME NEW n \in DOMAIN photo, Restore(n) PROVE MediaInv'
  BY <1>7, HidingKeeps DEF Restore
<1>8. CASE UNCHANGED mediaVars
  BY <1>8 DEF mediaVars, MediaInv, MediaTypeOK, ObjectsComeFirst, PhotosAreStored, UploadsAreListed
<1>9. QED
  BY <1>2, <1>3, <1>4, <1>5, <1>6, <1>7, <1>8 DEF MediaNext

\* However uploads overlap and wherever one is cut short: every row of a photograph leads to
\* an object, that of a deleted one too; of uploads of one file one makes the row, and all
\* are answered with it.
THEOREM PhotosHold == MediaSpec => []MediaIsSound
<1>1. MediaInv => MediaIsSound
  BY DEF MediaInv, MediaIsSound
<1>2. QED
  BY <1>1, MediaStart, MediaStep, PTL DEF MediaSpec

-----------------------------------------------------------------------------
(***************************************************************************)
(* Requests for quotation.  A request that has written its row holds the   *)
(* key until it commits or is lost, and the mails for a key are accounted  *)
(* for by the row, or by the request that holds it.                        *)
(***************************************************************************)
Holds(w) == w.pc \in {"sending", "sent"}

\* What the mails for a key may be while a request holds it.
WellHeld(w, row, sent, excused) ==
  /\ row = "none"
  /\ w.pc = "sending" /\ ~excused => sent = 0
  /\ w.pc = "sent" => /\ w.status = "sent" => sent > 0
                      /\ ~excused => sent = (IF w.status = "sent" THEN 1 ELSE 0)

\* What they may be whoever holds it, and when nobody does.
Told(row, sent, excused) ==
  /\ ~excused => sent <= 1
  /\ row = "sent" => sent > 0
  /\ row \in {"drafted", "failed"} /\ ~excused => sent = 0

KeysAreHeld ==
  /\ \A b \in Buyers : Holds(buy[b]) =>
       WellHeld(buy[b], rfq[buy[b].key], mails[buy[b].key], buy[b].key \in upset)
  /\ \A b, c \in Buyers : Holds(buy[b]) /\ Holds(buy[c]) /\ buy[b].key = buy[c].key => b = c
  /\ \A k \in Inquiries : /\ Told(rfq[k], mails[k], k \in upset)
                          /\ rfq[k] = "none" /\ ~KeyHeld(k) /\ k \notin upset => mails[k] = 0

\* An edit that nobody overlapped has seen the contacts that are marked.
ChangeState ==
  [person : Contacts \cup {NoContact}, gains : BOOLEAN, loses : BOOLEAN, cleared : SUBSET Contacts]

EditsAreSeen ==
  /\ change \in [Editors -> ChangeState]
  /\ \A e \in Editors : change[e] # NoChange => change[e].person \in Contacts
  /\ ~overlap => /\ \A e, f \in Editors : change[e] # NoChange /\ change[f] # NoChange => e = f
                 /\ \A e \in Editors : change[e].gains => change[e].cleared = mainContacts
                 /\ \A p, q \in mainContacts : p = q

BuyingInv == BuyingTypeOK /\ KeysAreHeld /\ EditsAreSeen

LEMMA BuyingIsKept == BuyingInv => BuyingIsSound
<1> SUFFICES ASSUME BuyingInv PROVE BuyingIsSound
  OBVIOUS
<1>1. BuyingTypeOK /\ KeysAreHeld /\ EditsAreSeen /\ mails \in [Inquiries -> Nat]
  BY DEF BuyingInv, BuyingTypeOK
<1>2. ASSUME NEW k \in Inquiries PROVE Told(rfq[k], mails[k], k \in upset) /\ mails[k] \in Nat
  BY <1>1 DEF KeysAreHeld
<1>3. AskedOnce
  BY <1>2 DEF AskedOnce, Told
<1>4. RfqTellsTruth
  <2>1. ASSUME NEW k \in Inquiries
        PROVE  /\ rfq[k] = "sent" => mails[k] > 0
               /\ rfq[k] \in {"drafted", "failed"} /\ mails[k] > 0 => k \in upset
    <3>1. PICK n \in Nat : n = mails[k]
      BY <1>2
    <3>2. ~(n = 0 /\ n > 0)
      OBVIOUS
    <3>3. QED
      BY <1>2, <3>1, <3>2 DEF Told
  <2>2. QED
    BY <2>1 DEF RfqTellsTruth
<1>5. OneMainContact
  <2>1. CASE mainContacts = {}
    BY <2>1, FS_EmptySet DEF OneMainContact
  <2>2. CASE mainContacts # {}
    <3>1. PICK p : p \in mainContacts
      BY <2>2
    <3>2. ~overlap => mainContacts = {p}
      BY <1>1, <3>1 DEF EditsAreSeen
    <3>3. Cardinality({p}) = 1
      BY FS_Singleton
    <3>4. QED
      BY <3>2, <3>3 DEF OneMainContact
  <2>3. QED
    BY <2>1, <2>2
<1>6. QED
  BY <1>1, <1>3, <1>4, <1>5 DEF BuyingIsSound

LEMMA BuyStates ==
  /\ NoBuy \in BuyState /\ NoBuy.pc = "idle"
  /\ NoChange \in ChangeState /\ ~NoChange.gains /\ NoChange.person = NoContact
<1>1. (CHOOSE k \in Inquiries : TRUE) \in Inquiries
  BY PurchasingAssumption DEF PurchasingAssumption
<1>2. NoBuy \in BuyState /\ NoBuy.pc = "idle"
  BY <1>1 DEF NoBuy, BuyState
<1>3. NoChange \in ChangeState /\ ~NoChange.gains /\ NoChange.person = NoContact
  BY DEF NoChange, ChangeState
<1>4. QED
  BY <1>2, <1>3

LEMMA BuyingStart == BuyingInit => BuyingInv
<1> SUFFICES ASSUME BuyingInit PROVE BuyingInv
  OBVIOUS
<1>1. BuyingTypeOK
  BY BuyStates DEF BuyingInit, BuyingTypeOK
<1>2. EditsAreSeen
  BY BuyStates DEF BuyingInit, EditsAreSeen
<1>3. /\ buy = [b \in Buyers |-> NoBuy] /\ rfq = [k \in Inquiries |-> "none"]
      /\ mails = [k \in Inquiries |-> 0]
  BY DEF BuyingInit
<1>4. KeysAreHeld
  BY <1>3, BuyStates DEF KeysAreHeld, Told, Holds
<1>5. QED
  BY <1>1, <1>2, <1>4 DEF BuyingInv

\* The recipient is one of the contacts, or nobody.
LEMMA RecipientsAreContacts == BuyingInv => Recipients \subseteq Contacts \cup {NoContact}
<1> SUFFICES ASSUME BuyingInv PROVE Recipients \subseteq Contacts \cup {NoContact}
  OBVIOUS
<1>1. mailable \subseteq Contacts /\ Contacts \subseteq Nat
  BY PurchasingAssumption DEF BuyingInv, BuyingTypeOK, PurchasingAssumption
<1>2. CASE mailable = {}
  BY <1>2 DEF Recipients
<1>3. CASE mailable # {}
  <2>1. PICK x \in mailable : \A y \in mailable : x <= y
    BY <1>1, <1>3, LeastOf
  <2>2. Min(mailable) \in mailable
    BY <2>1 DEF Min
  <2>3. QED
    BY <1>1, <2>2 DEF Recipients
<1>4. QED
  BY <1>2, <1>3

\* One request takes its next step, about one key.
LEMMA BuyerKeeps ==
  ASSUME BuyingInv, NEW b \in Buyers, NEW w \in BuyState, NEW k \in Inquiries,
         buy' = [buy EXCEPT ![b] = w],
         Holds(buy[b]) => buy[b].key = k,
         Holds(w) => w.key = k /\ (Holds(buy[b]) \/ ~KeyHeld(k))
                       /\ WellHeld(w, rfq'[k], mails'[k], k \in upset'),
         rfq' \in [Inquiries -> {"none", "drafted", "sent", "failed"}],
         mails' \in [Inquiries -> Nat], upset' \subseteq Inquiries,
         \A l \in Inquiries \ {k} : rfq'[l] = rfq[l] /\ mails'[l] = mails[l] /\ (l \in upset' <=> l \in upset),
         Holds(buy[b]) \/ (rfq' = rfq /\ mails' = mails /\ upset' = upset),
         Told(rfq'[k], mails'[k], k \in upset'),
         Holds(buy[b]) /\ ~Holds(w) /\ rfq'[k] = "none" /\ k \notin upset' => mails'[k] = 0,
         UNCHANGED <<listed, mainContacts, mailable, change, overlap>>
  PROVE  BuyingInv'
<1>1. /\ BuyingTypeOK /\ KeysAreHeld /\ EditsAreSeen /\ buy \in [Buyers -> BuyState]
      /\ \A c \in Buyers : buy[c].key \in Inquiries
  BY DEF BuyingInv, BuyingTypeOK, BuyState
<1>2. /\ buy' \in [Buyers -> BuyState] /\ buy'[b] = w
      /\ \A c \in Buyers \ {b} : buy'[c] = buy[c]
  BY <1>1
<1>3. BuyingTypeOK'
  BY <1>1, <1>2 DEF BuyingTypeOK
<1>4. EditsAreSeen'
  BY <1>1 DEF EditsAreSeen
<1>5. \A c \in Buyers \ {b} : Holds(buy[c]) => (~Holds(buy[b]) \/ buy[c].key # k)
  BY <1>1 DEF KeysAreHeld
<1>6. ASSUME NEW c \in Buyers, Holds(buy'[c])
      PROVE  WellHeld(buy'[c], rfq'[buy'[c].key], mails'[buy'[c].key], buy'[c].key \in upset')
  <2>1. CASE c = b
    BY <1>2, <1>6, <2>1
  <2>2. CASE c # b
    <3>1. buy'[c] = buy[c] /\ WellHeld(buy[c], rfq[buy[c].key], mails[buy[c].key], buy[c].key \in upset)
      BY <1>1, <1>2, <1>6, <2>2 DEF KeysAreHeld
    <3>2. PICK l \in Inquiries : l = buy[c].key
      BY <1>1
    <3>3. rfq'[l] = rfq[l] /\ mails'[l] = mails[l] /\ (l \in upset' <=> l \in upset)
      BY <1>5, <1>6, <2>2, <3>1, <3>2
    <3>4. QED
      BY <3>1, <3>2, <3>3 DEF WellHeld
  <2>3. QED
    BY <2>1, <2>2
<1>7. ASSUME NEW c \in Buyers, NEW d \in Buyers, Holds(buy'[c]), Holds(buy'[d]), buy'[c].key = buy'[d].key
      PROVE  c = d
  <2>1. CASE c # b /\ d # b
    BY <1>1, <1>2, <1>7, <2>1 DEF KeysAreHeld
  <2>2. \A e \in Buyers \ {b} : ~(Holds(w) /\ Holds(buy[e]) /\ buy[e].key = w.key)
    BY <1>5 DEF KeyHeld, Holds
  <2>3. QED
    BY <1>2, <1>7, <2>1, <2>2
<1>8. ASSUME NEW l \in Inquiries
      PROVE  /\ Told(rfq'[l], mails'[l], l \in upset')
             /\ rfq'[l] = "none" /\ ~KeyHeld(l)' /\ l \notin upset' => mails'[l] = 0
  <2>1. CASE l # k
    <3>1. rfq'[l] = rfq[l] /\ mails'[l] = mails[l] /\ (l \in upset' <=> l \in upset)
      BY <2>1
    <3>2. KeyHeld(l) => KeyHeld(l)'
      BY <1>2, <2>1 DEF KeyHeld, Holds
    <3>3. Told(rfq[l], mails[l], l \in upset) /\ (rfq[l] = "none" /\ ~KeyHeld(l) /\ l \notin upset => mails[l] = 0)
      BY <1>1 DEF KeysAreHeld
    <3>4. QED
      BY <3>1, <3>2, <3>3 DEF Told
  <2>2. CASE l = k /\ Holds(buy[b])
    <3>1. Holds(w) => KeyHeld(k)'
      BY <1>2 DEF KeyHeld, Holds
    <3>2. QED
      BY <2>2, <3>1
  <2>3. CASE l = k /\ ~Holds(buy[b])
    <3>1. rfq' = rfq /\ mails' = mails /\ upset' = upset
      BY <2>3
    <3>2. KeyHeld(k) => KeyHeld(k)'
      BY <1>2, <2>3 DEF KeyHeld, Holds
    <3>3. rfq[k] = "none" /\ ~KeyHeld(k) /\ k \notin upset => mails[k] = 0
      BY <1>1 DEF KeysAreHeld
    <3>4. QED
      BY <2>3, <3>1, <3>2, <3>3
  <2>4. QED
    BY <2>1, <2>2, <2>3
<1>9. KeysAreHeld'
  BY <1>6, <1>7, <1>8 DEF KeysAreHeld
<1>10. QED
  BY <1>3, <1>4, <1>9 DEF BuyingInv

\* A request that holds its key goes on to what its row will say.
LEMMA SendingKeeps ==
  ASSUME BuyingInv, NEW b \in Buyers, buy[b].pc = "sending", NEW status \in {"drafted", "sent", "failed"},
         Recorded(b, status), NEW n \in {0, 1},
         mails' = [mails EXCEPT ![buy[b].key] = @ + n],
         status = "sent" => n = 1,
         \/ upset' = upset /\ (status # "sent" => n = 0)
         \/ upset' = upset \cup {buy[b].key},
         UNCHANGED <<listed, mainContacts, mailable, rfq, change, overlap>>
  PROVE  BuyingInv'
<1>1. /\ BuyingTypeOK /\ KeysAreHeld /\ buy \in [Buyers -> BuyState] /\ buy[b] \in BuyState
      /\ mails \in [Inquiries -> Nat] /\ upset \subseteq Inquiries
      /\ rfq \in [Inquiries -> {"none", "drafted", "sent", "failed"}]
  BY DEF BuyingInv, BuyingTypeOK
<1>2. PICK k \in Inquiries : k = buy[b].key
  BY <1>1 DEF BuyState
<1>3. PICK w : w = [buy[b] EXCEPT !.pc = "sent", !.status = status]
  OBVIOUS
<1>4. w \in BuyState /\ w.pc = "sent" /\ w.status = status /\ w.key = k
  BY <1>1, <1>2, <1>3 DEF BuyState
<1>5. buy' = [buy EXCEPT ![b] = w]
  BY <1>1, <1>3 DEF Recorded
<1>6. Holds(buy[b]) /\ Holds(w)
  BY <1>4 DEF Holds
<1>7. /\ rfq[k] = "none" /\ (k \notin upset => mails[k] = 0)
  BY <1>1, <1>2, <1>6 DEF KeysAreHeld, WellHeld
<1>8. PICK m \in Nat : m = mails[k]
  BY <1>1
<1>9. /\ mails' \in [Inquiries -> Nat] /\ mails'[k] = m + n
      /\ \A l \in Inquiries \ {k} : mails'[l] = mails[l]
  BY <1>1, <1>2, <1>8
<1>10. /\ upset' \subseteq Inquiries /\ (k \in upset => k \in upset')
       /\ \A l \in Inquiries \ {k} : (l \in upset' <=> l \in upset)
  BY <1>1, <1>2
<1>11. k \notin upset' => m = 0 /\ n = (IF status = "sent" THEN 1 ELSE 0)
  BY <1>2, <1>7, <1>8, <1>10
<1>12. status = "sent" => m + n > 0
  BY <1>8
<1>13. k \notin upset' => m + n = (IF status = "sent" THEN 1 ELSE 0) /\ m + n <= 1
  BY <1>8, <1>11
<1>14. WellHeld(w, rfq'[k], mails'[k], k \in upset') /\ Told(rfq'[k], mails'[k], k \in upset')
  BY <1>4, <1>7, <1>9, <1>12, <1>13 DEF WellHeld, Told
<1>15. QED
  BY <1>1, <1>2, <1>4, <1>5, <1>6, <1>9, <1>10, <1>14, BuyerKeeps

LEMMA RequestsKeep ==
  ASSUME BuyingInv, NEW b \in Buyers,
         \/ \E k \in Inquiries, dry \in BOOLEAN : Prepare(b, k, dry)
         \/ InsertRfq(b) \/ SendNothing(b) \/ SendMail(b) \/ RefuseMail(b)
         \/ CommitRfq(b) \/ LoseRfq(b)
  PROVE  BuyingInv'
<1>1. /\ BuyingTypeOK /\ KeysAreHeld /\ buy \in [Buyers -> BuyState] /\ buy[b] \in BuyState
      /\ mails \in [Inquiries -> Nat] /\ upset \subseteq Inquiries
      /\ rfq \in [Inquiries -> {"none", "drafted", "sent", "failed"}]
  BY DEF BuyingInv, BuyingTypeOK
<1>2. PICK q \in Inquiries : q = buy[b].key
  BY <1>1 DEF BuyState
<1>3. \A k \in Inquiries : Told(rfq[k], mails[k], k \in upset)
  BY <1>1 DEF KeysAreHeld
<1>4. ~Holds(NoBuy)
  BY BuyStates DEF Holds
<1>5. ASSUME NEW k \in Inquiries, NEW dry \in BOOLEAN, Prepare(b, k, dry) PROVE BuyingInv'
  <2>1. PICK p \in Contacts \cup {NoContact} :
          buy' = [buy EXCEPT ![b] = [pc |-> "prepared", key |-> k, dry |-> dry, to |-> p, status |-> "drafted"]]
    BY <1>5, RecipientsAreContacts DEF Prepare
  <2>2. PICK w : w = [pc |-> "prepared", key |-> k, dry |-> dry, to |-> p, status |-> "drafted"]
    OBVIOUS
  <2>3. w \in BuyState /\ ~Holds(w)
    BY <2>2 DEF BuyState, Holds
  <2>4. ~Holds(buy[b]) /\ UNCHANGED <<listed, mainContacts, mailable, rfq, change, mails, upset, overlap>>
    BY <1>5 DEF Prepare, Holds
  <2>5. QED
    BY <1>1, <1>3, <2>1, <2>2, <2>3, <2>4, BuyerKeeps
<1>6. CASE InsertRfq(b)
  <2>1. /\ buy[b].pc = "prepared" /\ ~KeyHeld(q)
        /\ buy' = [buy EXCEPT ![b] = IF rfq[q] = "none" THEN [@ EXCEPT !.pc = "sending"] ELSE NoBuy]
        /\ UNCHANGED <<listed, mainContacts, mailable, rfq, change, mails, upset, overlap>>
    BY <1>2, <1>6 DEF InsertRfq
  <2>2. ~Holds(buy[b])
    BY <2>1 DEF Holds
  <2>3. CASE rfq[q] = "none"
    <3>1. PICK w : w = [buy[b] EXCEPT !.pc = "sending"]
      OBVIOUS
    <3>2. w \in BuyState /\ w.pc = "sending" /\ w.key = q
      BY <1>1, <1>2, <3>1 DEF BuyState
    <3>3. buy' = [buy EXCEPT ![b] = w]
      BY <1>1, <2>1, <2>3, <3>1
    <3>4. q \notin upset => mails[q] = 0
      BY <1>1, <2>1, <2>3 DEF KeysAreHeld
    <3>5. WellHeld(w, rfq'[q], mails'[q], q \in upset')
      BY <2>1, <2>3, <3>2, <3>4 DEF WellHeld
    <3>6. QED
      BY <1>1, <1>3, <2>1, <2>2, <3>2, <3>3, <3>5, BuyerKeeps
  <2>4. CASE rfq[q] # "none"
    <3>1. buy' = [buy EXCEPT ![b] = NoBuy]
      BY <1>1, <2>1, <2>4
    <3>2. QED
      BY <1>1, <1>3, <1>4, <2>1, <2>2, <3>1, BuyStates, BuyerKeeps
  <2>5. QED
    BY <2>3, <2>4
<1>7. CASE SendNothing(b)
  <2>1. PICK status \in {"drafted", "failed"} : Recorded(b, status) /\ status # "sent"
    BY <1>7 DEF SendNothing
  <2>2. /\ buy[b].pc = "sending" /\ UNCHANGED <<listed, mainContacts, mailable, rfq, change, mails, upset, overlap>>
    BY <1>7 DEF SendNothing
  <2>3. mails' = [mails EXCEPT ![buy[b].key] = @ + 0]
    BY <1>1, <1>2, <2>2
  <2>4. QED
    BY <2>1, <2>2, <2>3, SendingKeeps
<1>8. CASE SendMail(b)
  <2>1. /\ buy[b].pc = "sending" /\ mails' = [mails EXCEPT ![buy[b].key] = @ + 1]
        /\ UNCHANGED <<listed, mainContacts, mailable, rfq, change, overlap>>
    BY <1>8 DEF SendMail, MaySend
  <2>2. CASE Recorded(b, "sent") /\ UNCHANGED upset
    BY <2>1, <2>2, SendingKeeps
  <2>3. CASE Recorded(b, "failed") /\ upset' = upset \cup {buy[b].key}
    BY <2>1, <2>3, SendingKeeps
  <2>4. QED
    BY <1>8, <2>2, <2>3 DEF SendMail
<1>9. CASE RefuseMail(b)
  <2>1. /\ buy[b].pc = "sending" /\ Recorded(b, "failed")
        /\ UNCHANGED <<listed, mainContacts, mailable, rfq, change, mails, upset, overlap>>
    BY <1>9 DEF RefuseMail, MaySend
  <2>2. mails' = [mails EXCEPT ![buy[b].key] = @ + 0]
    BY <1>1, <1>2, <2>1
  <2>3. QED
    BY <2>1, <2>2, SendingKeeps
<1>10. CASE CommitRfq(b)
  <2>1. /\ buy[b].pc = "sent" /\ rfq' = [rfq EXCEPT ![q] = buy[b].status]
        /\ buy' = [buy EXCEPT ![b] = NoBuy]
        /\ UNCHANGED <<listed, mainContacts, mailable, change, mails, upset, overlap>>
    BY <1>2, <1>10 DEF CommitRfq
  <2>2. Holds(buy[b])
    BY <2>1 DEF Holds
  <2>3. PICK status \in {"drafted", "sent", "failed"} : status = buy[b].status
    BY <1>1 DEF BuyState
  <2>4. /\ rfq' \in [Inquiries -> {"none", "drafted", "sent", "failed"}] /\ rfq'[q] = status
        /\ \A l \in Inquiries \ {q} : rfq'[l] = rfq[l]
    BY <1>1, <2>1, <2>3
  <2>5. /\ status = "sent" => mails[q] > 0
        /\ q \notin upset => mails[q] = (IF status = "sent" THEN 1 ELSE 0)
    BY <1>1, <1>2, <2>1, <2>2, <2>3 DEF KeysAreHeld, WellHeld
  <2>6. Told(rfq'[q], mails'[q], q \in upset')
    BY <2>1, <2>4, <2>5 DEF Told
  <2>7. QED
    BY <1>1, <1>2, <1>4, <2>1, <2>2, <2>4, <2>6, BuyStates, BuyerKeeps
<1>11. CASE LoseRfq(b)
  <2>1. /\ Holds(buy[b]) /\ upset' = upset \cup {q} /\ buy' = [buy EXCEPT ![b] = NoBuy]
        /\ UNCHANGED <<listed, mainContacts, mailable, rfq, change, mails, overlap>>
    BY <1>2, <1>11 DEF LoseRfq, Holds
  <2>2. rfq[q] = "none"
    BY <1>1, <1>2, <2>1 DEF KeysAreHeld, WellHeld
  <2>3. q \in upset' /\ upset' \subseteq Inquiries /\ \A l \in Inquiries \ {q} : (l \in upset' <=> l \in upset)
    BY <1>1, <2>1
  <2>4. Told(rfq'[q], mails'[q], q \in upset')
    BY <2>1, <2>2, <2>3 DEF Told
  <2>5. QED
    BY <1>1, <1>2, <1>4, <2>1, <2>3, <2>4, BuyStates, BuyerKeeps
<1>12. QED
  BY <1>5, <1>6, <1>7, <1>8, <1>9, <1>10, <1>11

LEMMA EditBegins ==
  ASSUME BuyingInv, NEW e \in Editors, NEW p \in Contacts, NEW gains \in BOOLEAN, NEW loses \in BOOLEAN,
         EditContact(e, p, gains, loses)
  PROVE  BuyingInv'
<1>1. /\ BuyingTypeOK /\ KeysAreHeld /\ EditsAreSeen /\ change \in [Editors -> ChangeState]
      /\ mainContacts \subseteq Contacts
  BY DEF BuyingInv, BuyingTypeOK, EditsAreSeen
<1>2. PICK w : w = [person |-> p, gains |-> gains, loses |-> loses, cleared |-> IF gains THEN Cleared(p) ELSE {}]
  OBVIOUS
<1>3. w \in ChangeState /\ w.person = p /\ (w.gains => w.cleared = mainContacts)
  BY <1>1, <1>2 DEF ChangeState, Cleared
<1>4. /\ change[e] = NoChange /\ change' = [change EXCEPT ![e] = w]
      /\ overlap' = (overlap \/ \E f \in Editors \ {e} : change[f] # NoChange)
      /\ UNCHANGED <<listed, mainContacts, mailable, rfq, buy, mails, upset>>
  BY <1>2 DEF EditContact
<1>5. /\ change' \in [Editors -> ChangeState] /\ change'[e] = w
      /\ \A f \in Editors \ {e} : change'[f] = change[f]
  BY <1>1, <1>3, <1>4
<1>6. overlap' \in BOOLEAN /\ (~overlap' => ~overlap /\ \A f \in Editors \ {e} : change[f] = NoChange)
  BY <1>1, <1>4
<1>7. BuyingTypeOK'
  BY <1>1, <1>4, <1>6 DEF BuyingTypeOK
<1>8. KeysAreHeld'
  BY <1>1, <1>4 DEF KeysAreHeld, KeyHeld
<1>9. \A f \in Editors : change'[f] # NoChange => change'[f].person \in Contacts
  BY <1>1, <1>3, <1>5 DEF EditsAreSeen
<1>10. ASSUME ~overlap'
       PROVE  /\ \A f, g \in Editors : change'[f] # NoChange /\ change'[g] # NoChange => f = g
              /\ \A f \in Editors : change'[f].gains => change'[f].cleared = mainContacts
              /\ \A x, y \in mainContacts : x = y
  <2>1. ~overlap /\ \A f \in Editors \ {e} : change'[f] = NoChange
    BY <1>5, <1>6, <1>10
  <2>2. \A f, g \in Editors : change'[f] # NoChange /\ change'[g] # NoChange => f = g
    BY <2>1
  <2>3. \A f \in Editors : change'[f].gains => change'[f].cleared = mainContacts
    BY <1>3, <1>5, <2>1, BuyStates
  <2>4. \A x, y \in mainContacts : x = y
    BY <1>1, <2>1 DEF EditsAreSeen
  <2>5. QED
    BY <2>2, <2>3, <2>4
<1>11. EditsAreSeen'
  BY <1>4, <1>5, <1>9, <1>10 DEF EditsAreSeen
<1>12. QED
  BY <1>7, <1>8, <1>11 DEF BuyingInv

LEMMA EditCommits ==
  ASSUME BuyingInv, NEW e \in Editors, NEW mailed \in BOOLEAN, CommitChange(e, mailed)
  PROVE  BuyingInv'
<1>1. /\ BuyingTypeOK /\ KeysAreHeld /\ EditsAreSeen /\ change \in [Editors -> ChangeState]
      /\ mainContacts \subseteq listed /\ mailable \subseteq listed /\ listed \subseteq Contacts
  BY DEF BuyingInv, BuyingTypeOK, EditsAreSeen
<1>2. PICK w \in ChangeState : w = change[e]
  BY <1>1
<1>3. PICK p \in Contacts : p = w.person
  BY <1>1, <1>2 DEF CommitChange, EditsAreSeen
<1>4. PICK less, more :
        /\ less = w.cleared \cup {x \in {p} : w.loses} /\ more = {x \in {p} : w.gains}
        /\ mainContacts' = (mainContacts \ less) \cup more
  BY <1>2, <1>3 DEF CommitChange
<1>5. /\ more \subseteq {p} /\ w.cleared \subseteq less /\ (~w.gains => more = {})
  BY <1>4
<1>6. /\ change[e] # NoChange /\ listed' = listed \cup {p}
      /\ mailable' = IF mailed THEN mailable \cup {p} ELSE mailable \ {p}
      /\ change' = [change EXCEPT ![e] = NoChange]
      /\ UNCHANGED <<rfq, buy, mails, upset, overlap>>
  BY <1>2, <1>3 DEF CommitChange
<1>7. /\ change' \in [Editors -> ChangeState] /\ change'[e] = NoChange
      /\ \A f \in Editors \ {e} : change'[f] = change[f]
  BY <1>1, <1>6, BuyStates
<1>8. /\ listed' \subseteq Contacts /\ mainContacts' \subseteq listed' /\ mailable' \subseteq listed'
  BY <1>1, <1>4, <1>5, <1>6
<1>9. BuyingTypeOK'
  BY <1>1, <1>6, <1>8 DEF BuyingTypeOK
<1>10. KeysAreHeld'
  BY <1>1, <1>6 DEF KeysAreHeld, KeyHeld
<1>11. \A f \in Editors : change'[f] # NoChange => change'[f].person \in Contacts
  BY <1>1, <1>7 DEF EditsAreSeen
<1>12. ASSUME ~overlap
       PROVE  /\ \A f \in Editors : change'[f] = NoChange
              /\ \A x, y \in mainContacts' : x = y
  <2>1. /\ \A f \in Editors : change[f] # NoChange => f = e
        /\ w.gains => w.cleared = mainContacts
        /\ \A x, y \in mainContacts : x = y
    BY <1>1, <1>2, <1>6, <1>12 DEF EditsAreSeen
  <2>2. \A f \in Editors : change'[f] = NoChange
    BY <1>7, <2>1
  <2>3. w.gains => mainContacts' \subseteq {p}
    BY <1>4, <1>5, <2>1
  <2>4. ~w.gains => mainContacts' \subseteq mainContacts
    BY <1>4, <1>5
  <2>5. QED
    BY <2>1, <2>2, <2>3, <2>4
<1>13. EditsAreSeen'
  BY <1>6, <1>7, <1>11, <1>12, BuyStates DEF EditsAreSeen
<1>14. QED
  BY <1>9, <1>10, <1>13 DEF BuyingInv

LEMMA BuyingStep == BuyingInv /\ [BuyingNext]_buyingVars => BuyingInv'
<1> SUFFICES ASSUME BuyingInv, [BuyingNext]_buyingVars PROVE BuyingInv'
  OBVIOUS
<1>1. ASSUME NEW b \in Buyers,
             \/ \E k \in Inquiries, dry \in BOOLEAN : Prepare(b, k, dry)
             \/ InsertRfq(b) \/ SendNothing(b) \/ SendMail(b) \/ RefuseMail(b)
             \/ CommitRfq(b) \/ LoseRfq(b)
      PROVE  BuyingInv'
  BY <1>1, RequestsKeep
<1>2. ASSUME NEW e \in Editors, NEW p \in Contacts, NEW main \in BOOLEAN,
             BeginChange(e, p, main) \/ BeginCreate(e, p, main)
      PROVE  BuyingInv'
  <2>1. CASE BeginChange(e, p, main)
    <3>1. PICK gains \in BOOLEAN, loses \in BOOLEAN : EditContact(e, p, gains, loses)
      BY <2>1 DEF BeginChange
    <3>2. QED
      BY <3>1, EditBegins
  <2>2. CASE BeginCreate(e, p, main)
    BY <2>2, EditBegins DEF BeginCreate
  <2>3. QED
    BY <1>2, <2>1, <2>2
<1>3. ASSUME NEW e \in Editors, NEW mailed \in BOOLEAN, CommitChange(e, mailed) PROVE BuyingInv'
  BY <1>3, EditCommits
<1>4. CASE UNCHANGED buyingVars
  BY <1>4 DEF buyingVars, BuyingInv, BuyingTypeOK, KeysAreHeld, KeyHeld, EditsAreSeen
<1>5. QED
  BY <1>1, <1>2, <1>3, <1>4 DEF BuyingNext

\* For every number of keys, requests and contacts: a form that is sent twice asks the
\* supplier once and its row says what came of it, unless an answer was lost or a process
\* ended; and a supplier has one main contact as long as edits do not overlap.
THEOREM SupplierAskedOnce == BuyingSpec => []BuyingIsSound
<1>1. BuyingInit => BuyingInv
  BY BuyingStart
<1>2. BuyingInv /\ [BuyingNext]_buyingVars => BuyingInv'
  BY BuyingStep
<1>3. BuyingInv => BuyingIsSound
  BY BuyingIsKept
<1>4. QED
  BY <1>1, <1>2, <1>3, PTL DEF BuyingSpec

-----------------------------------------------------------------------------
(***************************************************************************)
(* The reports of a box.  A request about to change an order that no other *)
(* one is about to change finds it in the status it has read.              *)
(***************************************************************************)
OrdersAreThere ==
  /\ reported \in [ReportKeys -> Seq(Status)]
  /\ \A k \in ReportKeys : Len(reported[k]) <= 1
  /\ \A k \in withdrawn \cup takenOver : reported[k] # <<>>

ChangesArePossible ==
  /\ \A p \in Posts : post[p].op = "cancel" =>
       LET k == post[p].key IN
         reported[k] # <<>> /\ (k \notin raced => "CANCELLED" \in Allowed[StatusOf(k)])
  /\ \A h \in Hands : hand[h] # NoHand =>
       LET k == hand[h].key IN
         reported[k] # <<>> /\ (k \notin raced => hand[h].to \in Allowed[StatusOf(k)])

\* Two requests about to change one order are on record.
RacesAreSeen ==
  /\ \A p, q \in Posts :
       post[p].op = "cancel" /\ post[q].op = "cancel" /\ p # q /\ post[p].key = post[q].key =>
         post[p].key \in raced
  /\ \A g, h \in Hands :
       hand[g] # NoHand /\ hand[h] # NoHand /\ g # h /\ hand[g].key = hand[h].key => hand[g].key \in raced
  /\ \A p \in Posts, h \in Hands :
       post[p].op = "cancel" /\ hand[h] # NoHand /\ post[p].key = hand[h].key => hand[h].key \in raced

BegunAreNotOpen == \A k \in takenOver \ raced : StatusOf(k) # "OPEN"

OnBoxInv ==
  OnBoxTypeOK /\ OrdersAreThere /\ ChangesArePossible /\ RacesAreSeen /\ BegunAreNotOpen
    /\ ReportsAreKept

\* What the table of transitions says of openings and cancellations.
LEMMA TableOfMoves ==
  /\ Allowed \in [Status -> SUBSET Status]
  /\ Allowed["CANCELLED"] = {} /\ "OPEN" \in Status /\ "CANCELLED" \in Status
  /\ \A s \in Status : "OPEN" \notin Allowed[s] /\ ("CANCELLED" \in Allowed[s] => s = "OPEN")
BY DEF Allowed, Status

LEMMA BoxStates ==
  /\ NoPost \in PostState /\ NoPost.op = "idle" /\ NoHand \in HandState
  /\ \A p \in PostState : p.op \in {"open", "cancel"} => p.key \in ReportKeys
  /\ \A h \in HandState : h # NoHand => h.key \in ReportKeys /\ h.to \in Status
  /\ \A k \in ReportKeys, op \in {"open", "cancel"} : [op |-> op, key |-> k] \in PostState
  /\ \A k \in ReportKeys, to \in Status :
       [to |-> to, key |-> k] \in HandState /\ [to |-> to, key |-> k] # NoHand
<1>1. \A k \in ReportKeys, to \in Status : [to |-> to, key |-> k] # NoHand
  <2>1. NoHand.to = "idle" /\ "idle" \notin Status
    BY DEF NoHand, Status
  <2>2. QED
    BY <2>1
<1>2. QED
  BY <1>1 DEF NoPost, NoHand, PostState, HandState

LEMMA OnBoxStart == OnBoxInit => OnBoxInv
<1> SUFFICES ASSUME OnBoxInit PROVE OnBoxInv
  OBVIOUS
<1>1. /\ machine \in {"active", "retired", "missing"}
      /\ reported = [k \in ReportKeys |-> <<>>]
      /\ post = [p \in Posts |-> NoPost] /\ hand = [h \in Hands |-> NoHand]
      /\ withdrawn = {} /\ takenOver = {} /\ raced = {}
  BY DEF OnBoxInit
<1>2. <<>> \in Seq(Status) /\ Len(<<>>) = 0 /\ DOMAIN <<>> = {}
  OBVIOUS
<1>3. OnBoxTypeOK /\ OrdersAreThere
  BY <1>1, <1>2, BoxStates DEF OnBoxTypeOK, OrdersAreThere
<1>4. ChangesArePossible /\ RacesAreSeen /\ BegunAreNotOpen /\ ReportsAreKept
  BY <1>1, <1>2, BoxStates DEF ChangesArePossible, RacesAreSeen, BegunAreNotOpen, ReportsAreKept
<1>5. QED
  BY <1>3, <1>4 DEF OnBoxInv

\* Types say nothing more than that the statuses are statuses.
LEMMA StatusesAreStatuses ==
  ASSUME OrdersAreThere, NEW k \in ReportKeys
  PROVE  /\ \A n \in DOMAIN reported[k] : reported[k][n] \in Status
         /\ reported[k] # <<>> => StatusOf(k) \in Status /\ 1 \in DOMAIN reported[k]
<1>1. PICK s \in Seq(Status) : s = reported[k]
  BY DEF OrdersAreThere
<1>2. (\A n \in DOMAIN s : s[n] \in Status) /\ (s # <<>> => s[1] \in Status /\ 1 \in DOMAIN s)
  BY ONLY s \in Seq(Status)
<1>3. QED
  BY <1>1, <1>2 DEF StatusOf

\* An order gets another status.
LEMMA OrderMoves ==
  ASSUME OrdersAreThere, NEW k \in ReportKeys, reported[k] # <<>>, NEW to \in Status,
         reported' = [reported EXCEPT ![k][1] = to]
  PROVE  /\ reported' \in [ReportKeys -> Seq(Status)]
         /\ reported'[k] # <<>> /\ Len(reported'[k]) <= 1 /\ reported'[k][1] = to
         /\ \A l \in ReportKeys \ {k} : reported'[l] = reported[l]
         /\ \A l \in ReportKeys : \A n \in DOMAIN reported'[l] : reported'[l][n] \in Status
<1>1. PICK s \in Seq(Status) : s = reported[k] /\ Len(s) <= 1 /\ s # <<>>
  BY DEF OrdersAreThere
<1>2. PICK r : r = [s EXCEPT ![1] = to]
  OBVIOUS
<1>3. r \in Seq(Status) /\ Len(r) = Len(s) /\ r # <<>> /\ r[1] = to
  <2>1. Len(s) \in Nat /\ DOMAIN s = 1..Len(s) /\ Len(s) # 0
    <3>1. Len(s) \in Nat /\ DOMAIN s = 1..Len(s)
      BY ONLY s \in Seq(Status)
    <3>2. Len(s) # 0
      BY <1>1, EmptySeq
    <3>3. QED
      BY <3>1, <3>2
  <2>2. r \in Seq(Status) /\ Len(r) = Len(s) /\ r[1] = to
    BY ONLY s \in Seq(Status), to \in Status, <1>2, <2>1
  <2>3. QED
    BY <2>1, <2>2
<1>4. reported' = [reported EXCEPT ![k] = r]
  BY <1>1, <1>2
<1>5. /\ reported' \in [ReportKeys -> Seq(Status)] /\ reported'[k] = r
      /\ \A l \in ReportKeys \ {k} : reported'[l] = reported[l]
  BY <1>3, <1>4 DEF OrdersAreThere
<1>6. ASSUME NEW l \in ReportKeys PROVE \A n \in DOMAIN reported'[l] : reported'[l][n] \in Status
  <2>1. PICK t \in Seq(Status) : t = reported'[l]
    BY <1>5
  <2>2. \A n \in DOMAIN t : t[n] \in Status
    BY ONLY t \in Seq(Status)
  <2>3. QED
    BY <2>1, <2>2
<1>7. QED
  BY <1>1, <1>3, <1>5, <1>6

LEMMA ReportKeeps ==
  ASSUME OnBoxInv, NEW p \in Posts, CommitReport(p)
  PROVE  OnBoxInv'
<1>1. /\ OnBoxTypeOK /\ OrdersAreThere /\ ChangesArePossible /\ RacesAreSeen /\ BegunAreNotOpen
      /\ ReportsAreKept /\ post \in [Posts -> PostState] /\ hand \in [Hands -> HandState]
      /\ reported \in [ReportKeys -> Seq(Status)] /\ withdrawn \cup takenOver \subseteq ReportKeys
  BY DEF OnBoxInv, OnBoxTypeOK, OrdersAreThere
<1>2. PICK k \in ReportKeys : k = post[p].key
  BY <1>1, BoxStates DEF CommitReport
<1>3. /\ reported' = IF reported[k] = <<>> THEN [reported EXCEPT ![k] = Append(@, "OPEN")] ELSE reported
      /\ post' = [post EXCEPT ![p] = NoPost]
      /\ UNCHANGED <<machine, hand, withdrawn, takenOver, raced>>
  BY <1>2 DEF CommitReport, KeyIsFree
<1>4. /\ post' \in [Posts -> PostState] /\ post'[p].op = "idle"
      /\ \A q \in Posts \ {p} : post'[q] = post[q]
  BY <1>1, <1>3, BoxStates
<1>5. /\ \A q \in Posts : post'[q].op = "cancel" => post'[q] = post[q]
  BY <1>4
<1>6. /\ reported' \in [ReportKeys -> Seq(Status)]
      /\ \A l \in ReportKeys : reported[l] # <<>> => reported'[l] = reported[l]
      /\ \A l \in ReportKeys : Len(reported'[l]) <= 1
      /\ \A l \in ReportKeys : \A n \in DOMAIN reported'[l] : reported'[l][n] \in Status
  <2>1. CASE reported[k] # <<>>
    BY <1>1, <1>3, <2>1 DEF OrdersAreThere, OnBoxTypeOK
  <2>2. CASE reported[k] = <<>>
    <3>1. PICK r : r = Append(<<>>, "OPEN")
      OBVIOUS
    <3>2. r \in Seq(Status) /\ Len(r) = 1 /\ DOMAIN r = {1} /\ r[1] = "OPEN"
      <4>1. r = <<"OPEN">>
        BY <3>1
      <4>2. QED
        BY <4>1, TableOfMoves
    <3>3. /\ reported' = [reported EXCEPT ![k] = r]
      BY <1>3, <2>2, <3>1
    <3>4. /\ reported' \in [ReportKeys -> Seq(Status)] /\ reported'[k] = r
          /\ \A l \in ReportKeys \ {k} : reported'[l] = reported[l]
      BY <1>1, <3>2, <3>3
    <3>5. ASSUME NEW l \in ReportKeys
          PROVE  /\ reported[l] # <<>> => reported'[l] = reported[l]
                 /\ Len(reported'[l]) <= 1
                 /\ \A n \in DOMAIN reported'[l] : reported'[l][n] \in Status
      <4>1. CASE l = k
        <5>1. reported[l] = <<>> /\ reported'[l] = r
          BY <2>2, <3>4, <4>1
        <5>2. Len(r) <= 1
          BY <3>2
        <5>3. \A n \in DOMAIN r : r[n] \in Status
          BY <3>2, TableOfMoves
        <5>4. QED
          BY <5>1, <5>2, <5>3
      <4>2. CASE l # k
        <5>1. reported'[l] = reported[l]
          BY <3>4, <4>2
        <5>2. QED
          BY <1>1, <5>1 DEF OrdersAreThere, OnBoxTypeOK
      <4>3. QED
        BY <4>1, <4>2
    <3>6. QED
      BY <3>4, <3>5
  <2>3. QED
    BY <2>1, <2>2
<1>7. OnBoxTypeOK' /\ OrdersAreThere'
  BY <1>1, <1>3, <1>4, <1>6 DEF OnBoxTypeOK, OrdersAreThere
<1>8. ChangesArePossible'
  <2>1. \A q \in Posts : post[q].op = "cancel" => post[q].key \in ReportKeys
    BY <1>1, BoxStates
  <2>2. \A h \in Hands : hand[h] # NoHand => hand[h].key \in ReportKeys
    BY <1>1, BoxStates
  <2>3. QED
    BY <1>1, <1>3, <1>5, <1>6, <2>1, <2>2 DEF ChangesArePossible, StatusOf
<1>9. RacesAreSeen'
  BY <1>1, <1>3, <1>5 DEF RacesAreSeen
<1>10. BegunAreNotOpen' /\ ReportsAreKept'
  <2>1. \A l \in withdrawn \cup takenOver : reported'[l] = reported[l]
    BY <1>1, <1>6 DEF OrdersAreThere
  <2>2. QED
    BY <1>1, <1>3, <1>6, <2>1 DEF BegunAreNotOpen, ReportsAreKept, StatusOf
<1>11. QED
  BY <1>7, <1>8, <1>9, <1>10 DEF OnBoxInv

\* One that was about to change the order changes it: nobody else was, or it is on record.
LEMMA OneMoves ==
  ASSUME OnBoxInv, NEW k \in ReportKeys, NEW to \in Status, reported[k] # <<>>,
         reported' = [reported EXCEPT ![k][1] = to],
         k \notin raced => to \in Allowed[StatusOf(k)],
         post' \in [Posts -> PostState], hand' \in [Hands -> HandState],
         \A p \in Posts : post'[p].op = "cancel" => post'[p] = post[p],
         \A h \in Hands : hand'[h] # NoHand => hand'[h] = hand[h],
         \A p \in Posts : post'[p].op = "cancel" /\ post'[p].key = k => k \in raced,
         \A h \in Hands : hand'[h] # NoHand /\ hand'[h].key = k => k \in raced,
         withdrawn' \subseteq withdrawn \cup (IF to = "CANCELLED" THEN {k} ELSE {}),
         takenOver' \subseteq takenOver \cup (IF to = "IN_PROGRESS" THEN {k} ELSE {}),
         UNCHANGED <<machine, raced>>
  PROVE  OnBoxInv'
<1>1. /\ OnBoxTypeOK /\ OrdersAreThere /\ ChangesArePossible /\ RacesAreSeen /\ BegunAreNotOpen
      /\ ReportsAreKept /\ withdrawn \cup takenOver \cup raced \subseteq ReportKeys
  BY DEF OnBoxInv, OnBoxTypeOK
<1>2. /\ reported' \in [ReportKeys -> Seq(Status)]
      /\ reported'[k] # <<>> /\ Len(reported'[k]) <= 1 /\ reported'[k][1] = to
      /\ \A l \in ReportKeys \ {k} : reported'[l] = reported[l]
      /\ \A l \in ReportKeys : \A n \in DOMAIN reported'[l] : reported'[l][n] \in Status
  BY <1>1, OrderMoves
<1>3. withdrawn' \subseteq withdrawn \cup {k} /\ takenOver' \subseteq takenOver \cup {k}
  OBVIOUS
<1>4. OnBoxTypeOK'
  BY <1>1, <1>2, <1>3 DEF OnBoxTypeOK
<1>5. OrdersAreThere'
  BY <1>1, <1>2, <1>3 DEF OrdersAreThere
<1>6. RacesAreSeen'
  BY <1>1 DEF RacesAreSeen
<1>7. ChangesArePossible'
  <2>1. ASSUME NEW p \in Posts, post'[p].op = "cancel", NEW l \in ReportKeys, l = post[p].key
        PROVE  reported'[l] # <<>> /\ (l \notin raced => "CANCELLED" \in Allowed[reported'[l][1]])
    <3>1. post'[p] = post[p]
      BY <2>1
    <3>2. CASE l = k
      BY <1>2, <2>1, <3>1, <3>2
    <3>3. CASE l # k
      BY <1>1, <1>2, <2>1, <3>1, <3>3 DEF ChangesArePossible, StatusOf
    <3>4. QED
      BY <3>2, <3>3
  <2>2. ASSUME NEW h \in Hands, hand'[h] # NoHand, NEW l \in ReportKeys, l = hand[h].key
        PROVE  reported'[l] # <<>> /\ (l \notin raced => hand[h].to \in Allowed[reported'[l][1]])
    <3>1. hand'[h] = hand[h]
      BY <2>2
    <3>2. CASE l = k
      BY <1>2, <2>2, <3>1, <3>2
    <3>3. CASE l # k
      BY <1>1, <1>2, <2>2, <3>1, <3>3 DEF ChangesArePossible, StatusOf
    <3>4. QED
      BY <3>2, <3>3
  <2>3. \A p \in Posts : post'[p].op = "cancel" => post'[p] = post[p] /\ post[p].key \in ReportKeys
    BY BoxStates
  <2>4. \A h \in Hands : hand'[h] # NoHand => hand'[h] = hand[h] /\ hand[h].key \in ReportKeys
    BY BoxStates
  <2>5. QED
    BY <2>1, <2>2, <2>3, <2>4 DEF ChangesArePossible, StatusOf
<1>8. PICK s \in Status : s = StatusOf(k)
  BY <1>1, StatusesAreStatuses
<1>9. ASSUME NEW l \in takenOver' \ raced PROVE reported'[l][1] # "OPEN" /\ reported'[l][1] # "CANCELLED"
  <2>1. CASE l # k
    <3>1. l \in takenOver /\ l \in ReportKeys
      BY <1>1, <1>3, <2>1
    <3>2. QED
      BY <1>1, <1>2, <1>9, <2>1, <3>1 DEF BegunAreNotOpen, ReportsAreKept, StatusOf
  <2>2. CASE l = k
    <3>1. to \in Allowed[s]
      BY <1>8, <1>9, <2>2
    <3>2. to # "OPEN"
      BY <1>8, <3>1, TableOfMoves
    <3>3. CASE k \in takenOver
      <4>1. s # "OPEN"
        BY <1>1, <1>8, <1>9, <2>2, <3>3 DEF BegunAreNotOpen
      <4>2. to # "CANCELLED"
        BY <3>1, <4>1, TableOfMoves
      <4>3. QED
        BY <1>2, <2>2, <3>2, <4>2
    <3>4. CASE k \notin takenOver
      <4>1. to = "IN_PROGRESS"
        BY <1>9, <2>2, <3>4
      <4>2. QED
        BY <1>2, <2>2, <4>1
    <3>5. QED
      BY <3>3, <3>4
  <2>3. QED
    BY <2>1, <2>2
<1>10. ASSUME NEW l \in withdrawn' \ raced PROVE reported'[l][1] = "CANCELLED"
  <2>1. CASE l # k
    <3>1. l \in withdrawn /\ l \in ReportKeys
      BY <1>1, <1>3, <2>1
    <3>2. QED
      BY <1>1, <1>2, <1>10, <2>1, <3>1 DEF ReportsAreKept, StatusOf
  <2>2. CASE l = k
    <3>1. to \in Allowed[s]
      BY <1>8, <1>10, <2>2
    <3>2. CASE k \in withdrawn
      <4>1. s = "CANCELLED"
        BY <1>1, <1>8, <1>10, <2>2, <3>2 DEF ReportsAreKept
      <4>2. QED
        BY <3>1, <4>1, TableOfMoves
    <3>3. CASE k \notin withdrawn
      BY <1>2, <1>10, <2>2, <3>3
    <3>4. QED
      BY <3>2, <3>3
  <2>3. QED
    BY <2>1, <2>2
<1>11. BegunAreNotOpen' /\ ReportsAreKept'
  <2>1. \A l \in ReportKeys : Len(reported'[l]) <= 1
    BY <1>5 DEF OrdersAreThere
  <2>2. raced' = raced
    OBVIOUS
  <2>3. QED
    BY <1>9, <1>10, <2>1, <2>2 DEF BegunAreNotOpen, ReportsAreKept, StatusOf
<1>12. QED
  BY <1>4, <1>5, <1>6, <1>7, <1>11 DEF OnBoxInv

\* A request that has looked at the order is about to change it.
LEMMA OneBegins ==
  ASSUME OnBoxInv, NEW k \in ReportKeys, reported[k] # <<>>, Races(k),
         post' \in [Posts -> PostState], hand' \in [Hands -> HandState],
         \/ /\ hand' = hand /\ "CANCELLED" \in Allowed[StatusOf(k)]
            /\ \E p \in Posts : /\ post'[p].op = "cancel" /\ post'[p].key = k
                                /\ \A q \in Posts \ {p} : post'[q] = post[q]
         \/ /\ post' = post
            /\ \E h \in Hands : /\ hand'[h].key = k /\ hand'[h].to \in Allowed[StatusOf(k)]
                                /\ \A g \in Hands \ {h} : hand'[g] = hand[g],
         UNCHANGED <<machine, reported, withdrawn, takenOver>>
  PROVE  OnBoxInv'
<1>1. /\ OnBoxTypeOK /\ OrdersAreThere /\ ChangesArePossible /\ RacesAreSeen /\ BegunAreNotOpen
      /\ ReportsAreKept /\ withdrawn \cup takenOver \cup raced \subseteq ReportKeys
  BY DEF OnBoxInv, OnBoxTypeOK
<1>2. raced \subseteq raced' /\ raced' \subseteq raced \cup {k} /\ (Busy(k) => k \in raced')
  BY DEF Races
<1>3. OnBoxTypeOK'
  BY <1>1, <1>2 DEF OnBoxTypeOK
<1>4. OrdersAreThere' /\ BegunAreNotOpen' /\ ReportsAreKept'
  BY <1>1, <1>2 DEF OrdersAreThere, BegunAreNotOpen, ReportsAreKept, StatusOf
<1>5. CASE /\ hand' = hand /\ "CANCELLED" \in Allowed[StatusOf(k)]
           /\ \E p \in Posts : /\ post'[p].op = "cancel" /\ post'[p].key = k
                               /\ \A q \in Posts \ {p} : post'[q] = post[q]
  <2>1. PICK p \in Posts : /\ post'[p].op = "cancel" /\ post'[p].key = k
                           /\ \A q \in Posts \ {p} : post'[q] = post[q]
    BY <1>5
  <2>2. ChangesArePossible'
    <3>1. \A q \in Posts : post'[q].op = "cancel" =>
            reported[post'[q].key] # <<>> /\ (post'[q].key \notin raced' => "CANCELLED" \in Allowed[reported[post'[q].key][1]])
      BY <1>1, <1>2, <1>5, <2>1 DEF ChangesArePossible, StatusOf
    <3>2. \A h \in Hands : hand'[h] # NoHand =>
            reported[hand'[h].key] # <<>> /\ (hand'[h].key \notin raced' => hand'[h].to \in Allowed[reported[hand'[h].key][1]])
      BY <1>1, <1>2, <1>5 DEF ChangesArePossible, StatusOf
    <3>3. QED
      BY <3>1, <3>2 DEF ChangesArePossible, StatusOf
  <2>3. RacesAreSeen'
    <3>1. \A q \in Posts \ {p} : post'[q].op = "cancel" /\ post'[q].key = k => k \in raced'
      BY <1>2, <2>1 DEF Busy
    <3>2. \A h \in Hands : hand[h] # NoHand /\ hand[h].key = k => k \in raced'
      BY <1>2 DEF Busy
    <3>3. \A q, r \in Posts :
            post'[q].op = "cancel" /\ post'[r].op = "cancel" /\ q # r /\ post'[q].key = post'[r].key =>
              post'[q].key \in raced'
      BY <1>1, <1>2, <2>1, <3>1 DEF RacesAreSeen
    <3>4. \A q \in Posts, h \in Hands :
            post'[q].op = "cancel" /\ hand'[h] # NoHand /\ post'[q].key = hand'[h].key => hand'[h].key \in raced'
      BY <1>1, <1>2, <1>5, <2>1, <3>2 DEF RacesAreSeen
    <3>5. QED
      BY <1>1, <1>2, <1>5, <3>3, <3>4 DEF RacesAreSeen
  <2>4. QED
    BY <1>3, <1>4, <2>2, <2>3 DEF OnBoxInv
<1>6. CASE /\ post' = post
           /\ \E h \in Hands : /\ hand'[h].key = k /\ hand'[h].to \in Allowed[StatusOf(k)]
                               /\ \A g \in Hands \ {h} : hand'[g] = hand[g]
  <2>1. PICK h \in Hands : /\ hand'[h].key = k /\ hand'[h].to \in Allowed[StatusOf(k)]
                           /\ \A g \in Hands \ {h} : hand'[g] = hand[g]
    BY <1>6
  <2>2. ChangesArePossible'
    <3>1. \A q \in Posts : post'[q].op = "cancel" =>
            reported[post'[q].key] # <<>> /\ (post'[q].key \notin raced' => "CANCELLED" \in Allowed[reported[post'[q].key][1]])
      BY <1>1, <1>2, <1>6 DEF ChangesArePossible, StatusOf
    <3>2. \A g \in Hands : hand'[g] # NoHand =>
            reported[hand'[g].key] # <<>> /\ (hand'[g].key \notin raced' => hand'[g].to \in Allowed[reported[hand'[g].key][1]])
      BY <1>1, <1>2, <2>1 DEF ChangesArePossible, StatusOf
    <3>3. QED
      BY <3>1, <3>2 DEF ChangesArePossible, StatusOf
  <2>3. RacesAreSeen'
    <3>1. \A g \in Hands \ {h} : hand'[g] # NoHand /\ hand'[g].key = k => k \in raced'
      BY <1>2, <2>1 DEF Busy
    <3>2. \A q \in Posts : post[q].op = "cancel" /\ post[q].key = k => k \in raced'
      BY <1>2 DEF Busy
    <3>3. \A g, i \in Hands :
            hand'[g] # NoHand /\ hand'[i] # NoHand /\ g # i /\ hand'[g].key = hand'[i].key =>
              hand'[g].key \in raced'
      BY <1>1, <1>2, <2>1, <3>1 DEF RacesAreSeen
    <3>4. \A q \in Posts, g \in Hands :
            post'[q].op = "cancel" /\ hand'[g] # NoHand /\ post'[q].key = hand'[g].key => hand'[g].key \in raced'
      BY <1>1, <1>2, <1>6, <2>1, <3>2 DEF RacesAreSeen
    <3>5. QED
      BY <1>1, <1>2, <1>6, <3>3, <3>4 DEF RacesAreSeen
  <2>4. QED
    BY <1>3, <1>4, <2>2, <2>3 DEF OnBoxInv
<1>7. QED
  BY <1>5, <1>6

LEMMA OnBoxStep == OnBoxInv /\ [OnBoxNext]_onBoxVars => OnBoxInv'
<1> SUFFICES ASSUME OnBoxInv, [OnBoxNext]_onBoxVars PROVE OnBoxInv'
  OBVIOUS
<1>1. /\ OnBoxTypeOK /\ OrdersAreThere /\ ChangesArePossible /\ RacesAreSeen /\ BegunAreNotOpen
      /\ ReportsAreKept /\ post \in [Posts -> PostState] /\ hand \in [Hands -> HandState]
      /\ withdrawn \cup takenOver \cup raced \subseteq ReportKeys
  BY DEF OnBoxInv, OnBoxTypeOK
<1>2. ASSUME NEW p \in Posts, NEW k \in ReportKeys, BeginReport(p, k) PROVE OnBoxInv'
  <2>1. /\ post' = [post EXCEPT ![p] = [op |-> "open", key |-> k]]
        /\ UNCHANGED <<machine, reported, hand, withdrawn, takenOver, raced>>
    BY <1>2 DEF BeginReport
  <2>2. post' \in [Posts -> PostState]
    BY <1>1, <2>1, BoxStates
  <2>3. \A q \in Posts : post'[q].op = "cancel" => post'[q] = post[q]
    BY <1>1, <2>1
  <2>4. OnBoxTypeOK' /\ OrdersAreThere' /\ BegunAreNotOpen' /\ ReportsAreKept'
    BY <1>1, <2>1, <2>2 DEF OnBoxTypeOK, OrdersAreThere, BegunAreNotOpen, ReportsAreKept, StatusOf
  <2>5. ChangesArePossible' /\ RacesAreSeen'
    BY <1>1, <2>1, <2>3 DEF ChangesArePossible, RacesAreSeen, StatusOf
  <2>6. QED
    BY <2>4, <2>5 DEF OnBoxInv
<1>3. ASSUME NEW p \in Posts, NEW k \in ReportKeys, BeginWithdraw(p, k) PROVE OnBoxInv'
  <2>1. /\ post' = [post EXCEPT ![p] = [op |-> "cancel", key |-> k]] /\ Races(k)
        /\ reported[k] # <<>> /\ "CANCELLED" \in Allowed[StatusOf(k)]
        /\ UNCHANGED <<machine, reported, hand, withdrawn, takenOver>>
    BY <1>3 DEF BeginWithdraw, MayWithdraw
  <2>2. /\ post' \in [Posts -> PostState] /\ post'[p].op = "cancel" /\ post'[p].key = k
        /\ \A q \in Posts \ {p} : post'[q] = post[q]
    BY <1>1, <2>1, BoxStates
  <2>3. QED
    BY <1>1, <2>1, <2>2, OneBegins
<1>4. ASSUME NEW p \in Posts, CommitReport(p) PROVE OnBoxInv'
  BY <1>4, ReportKeeps
<1>5. ASSUME NEW p \in Posts, CommitWithdraw(p) PROVE OnBoxInv'
  <2>1. PICK k \in ReportKeys : k = post[p].key /\ post[p].op = "cancel"
    BY <1>1, <1>5, BoxStates DEF CommitWithdraw
  <2>2. /\ reported' = [reported EXCEPT ![k][1] = "CANCELLED"] /\ withdrawn' = withdrawn \cup {k}
        /\ post' = [post EXCEPT ![p] = NoPost] /\ UNCHANGED <<machine, hand, takenOver, raced>>
    BY <1>5, <2>1 DEF CommitWithdraw
  <2>3. reported[k] # <<>> /\ (k \notin raced => "CANCELLED" \in Allowed[StatusOf(k)])
    BY <1>1, <2>1 DEF ChangesArePossible
  <2>4. /\ post' \in [Posts -> PostState] /\ post'[p].op = "idle"
        /\ \A q \in Posts \ {p} : post'[q] = post[q]
    BY <1>1, <2>2, BoxStates
  <2>5. \A q \in Posts : post'[q].op = "cancel" => post'[q] = post[q]
    BY <2>4
  <2>6. \A q \in Posts : post'[q].op = "cancel" /\ post'[q].key = k => k \in raced
    BY <1>1, <2>1, <2>4 DEF RacesAreSeen
  <2>7. \A h \in Hands : hand'[h] # NoHand /\ hand'[h].key = k => k \in raced
    BY <1>1, <2>1, <2>2 DEF RacesAreSeen
  <2>8. QED
    BY <1>1, <2>2, <2>3, <2>4, <2>5, <2>6, <2>7, TableOfMoves, OneMoves
<1>6. ASSUME NEW k \in ReportKeys, AnswerWithdrawn(k) PROVE OnBoxInv'
  <2>1. /\ reported[k] # <<>> /\ StatusOf(k) = "CANCELLED" /\ withdrawn' = withdrawn \cup {k}
        /\ UNCHANGED <<machine, reported, post, hand, takenOver, raced>>
    BY <1>6 DEF AnswerWithdrawn
  <2>2. OnBoxTypeOK' /\ OrdersAreThere' /\ BegunAreNotOpen' /\ ReportsAreKept'
    BY <1>1, <2>1 DEF OnBoxTypeOK, OrdersAreThere, BegunAreNotOpen, ReportsAreKept, StatusOf
  <2>3. ChangesArePossible' /\ RacesAreSeen'
    BY <1>1, <2>1 DEF ChangesArePossible, RacesAreSeen, StatusOf
  <2>4. QED
    BY <2>2, <2>3 DEF OnBoxInv
<1>7. ASSUME NEW h \in Hands, NEW k \in ReportKeys, NEW to \in Status, BeginMove(h, k, to) PROVE OnBoxInv'
  <2>1. /\ hand' = [hand EXCEPT ![h] = [to |-> to, key |-> k]] /\ Races(k)
        /\ reported[k] # <<>> /\ to \in Allowed[StatusOf(k)]
        /\ UNCHANGED <<machine, reported, post, withdrawn, takenOver>>
    BY <1>7 DEF BeginMove
  <2>2. /\ hand' \in [Hands -> HandState] /\ hand'[h].key = k /\ hand'[h].to = to
        /\ \A g \in Hands \ {h} : hand'[g] = hand[g]
    BY <1>1, <2>1, BoxStates
  <2>3. QED
    BY <1>1, <2>1, <2>2, OneBegins
<1>8. ASSUME NEW h \in Hands, CommitMove(h) PROVE OnBoxInv'
  <2>1. PICK k \in ReportKeys, to \in Status : k = hand[h].key /\ to = hand[h].to /\ hand[h] # NoHand
    BY <1>1, <1>8, BoxStates DEF CommitMove
  <2>2. /\ reported' = [reported EXCEPT ![k][1] = to] /\ hand' = [hand EXCEPT ![h] = NoHand]
        /\ takenOver' = IF to = "IN_PROGRESS" THEN takenOver \cup {k} ELSE takenOver
        /\ UNCHANGED <<machine, post, withdrawn, raced>>
    BY <1>8, <2>1 DEF CommitMove
  <2>3. reported[k] # <<>> /\ (k \notin raced => to \in Allowed[StatusOf(k)])
    BY <1>1, <2>1 DEF ChangesArePossible
  <2>4. /\ hand' \in [Hands -> HandState] /\ hand'[h] = NoHand
        /\ \A g \in Hands \ {h} : hand'[g] = hand[g]
    BY <1>1, <2>2, BoxStates
  <2>5. \A g \in Hands : hand'[g] # NoHand => hand'[g] = hand[g]
    BY <2>4
  <2>6. \A g \in Hands : hand'[g] # NoHand /\ hand'[g].key = k => k \in raced
    BY <1>1, <2>1, <2>4 DEF RacesAreSeen
  <2>7. \A p \in Posts : post'[p].op = "cancel" /\ post'[p].key = k => k \in raced
    BY <1>1, <2>1, <2>2 DEF RacesAreSeen
  <2>8. QED
    BY <1>1, <2>2, <2>3, <2>4, <2>5, <2>6, <2>7, OneMoves
<1>9. ASSUME NEW m \in {"active", "retired"}, ChangeMachine(m) PROVE OnBoxInv'
  BY <1>1, <1>9 DEF ChangeMachine, OnBoxInv, OnBoxTypeOK, OrdersAreThere, ChangesArePossible,
    RacesAreSeen, BegunAreNotOpen, ReportsAreKept, StatusOf
<1>10. CASE UNCHANGED onBoxVars
  BY <1>1, <1>10 DEF onBoxVars, OnBoxInv, OnBoxTypeOK, OrdersAreThere, ChangesArePossible,
    RacesAreSeen, BegunAreNotOpen, ReportsAreKept, StatusOf
<1>11. QED
  BY <1>2, <1>3, <1>4, <1>5, <1>6, <1>7, <1>8, <1>9, <1>10 DEF OnBoxNext

\* However often a report is sent it has one work order; one whose cancellation was answered
\* stays cancelled, and one that staff began to work on is not cancelled, unless two requests
\* changed the order at once.
THEOREM ReportsHold == OnBoxSpec => [](OnBoxTypeOK /\ ReportsAreKept)
<1>1. OnBoxInv => OnBoxTypeOK /\ ReportsAreKept
  BY DEF OnBoxInv
<1>2. QED
  BY <1>1, OnBoxStart, OnBoxStep, PTL DEF OnBoxSpec

-----------------------------------------------------------------------------
(***************************************************************************)
(* Templates of tasks.  A request knows what it read of its step as long   *)
(* as no other request is about that step; the loader changes no row that  *)
(* is there.                                                               *)
(***************************************************************************)
StepState == [place : Nat, live : BOOLEAN, row : 0..Len(StepFile)]

DesksAreSeen ==
  /\ \A d, e \in Desks :
       d # e /\ desk[d] # IsFree /\ desk[e] # IsFree /\ desk[d].step = desk[e].step => desk[d].step \in shared
  /\ \A d \in Desks : desk[d].op = "hang" /\ desk[d].step \notin shared /\ desk[d].seen \in {"live", "deleted"} =>
       uses[<<desk[d].step, desk[d].part>>] = desk[d].seen
  /\ \A d \in Desks : desk[d].op = "step" /\ 0 \notin shared =>
       \A n \in DOMAIN step : step[n].place < desk[d].place

LinesAreKept ==
  \A s \in Lines : s[1] \notin shared =>
    (s \in taken => uses[s] = "deleted") /\ (s \in hung => uses[s] = "live")

PlacesAreInOrder ==
  0 \notin shared =>
    \A n \in DOMAIN step : step[n].row = 0 => \A m \in 1..(n - 1) : step[m].place < step[n].place

TemplateInv ==
  /\ TemplateTypeOK /\ step \in Seq(StepState)
  /\ DesksAreSeen /\ LinesAreKept /\ PlacesAreInOrder

LEMMA TemplatesStayKept == TemplateInv => TemplatesAreSound
<1> SUFFICES ASSUME TemplateInv PROVE TemplatesAreSound
  OBVIOUS
<1>1. TemplateTypeOK /\ LinesAreKept /\ PlacesAreInOrder
  BY DEF TemplateInv
<1>2. \A s \in Lines : s[1] \notin shared => (s \in taken => uses[s] # "live") /\ (s \in hung => uses[s] = "live")
  BY <1>1 DEF LinesAreKept
<1>3. QED
  BY <1>1, <1>2 DEF TemplatesAreSound, TemplatesAreKept, PlacesAreInOrder

LEMMA DeskStates ==
  /\ IsFree \in DeskState /\ IsFree.op = "idle" /\ IsFree.step = 0
  /\ \A x \in DeskState :
       /\ x.op \in {"drop", "take", "hang"} => x.step \in 1..MaxSteps
       /\ x.op \in {"take", "hang"} => x.part \in Spares
       /\ x.op = "hang" => x.seen \in RowState
       /\ x.op = "step" => x.step = 0 /\ x.place \in Nat
       /\ x.step \in 0..MaxSteps
  /\ \A x : x.op # "idle" => x # IsFree
BY TemplateAssumption DEF TemplateAssumption, IsFree, DeskState

LEMMA TemplateStart == TemplateInit => TemplateInv
<1> SUFFICES ASSUME TemplateInit PROVE TemplateInv
  OBVIOUS
<1>1. /\ step = <<>> /\ uses = [s \in Lines |-> "none"] /\ stocked \subseteq Spares
      /\ desk = [d \in Desks |-> IsFree] /\ taken = {} /\ hung = {} /\ shared = {}
  BY DEF TemplateInit
<1>2. <<>> \in Seq(StepState) /\ DOMAIN <<>> = {}
  OBVIOUS
<1>3. TemplateTypeOK
  BY <1>1, <1>2, DeskStates DEF TemplateTypeOK, RowState
<1>4. DesksAreSeen /\ LinesAreKept /\ PlacesAreInOrder
  BY <1>1, <1>2, DeskStates DEF DesksAreSeen, LinesAreKept, PlacesAreInOrder
<1>5. QED
  BY <1>1, <1>2, <1>3, <1>4 DEF TemplateInv

\* Of finitely many naturals, and zero, there is a greatest.
LEMMA GreatestOfSome ==
  ASSUME NEW N \in Nat, NEW f \in [1..N -> Nat]
  PROVE  \E m \in {0} \cup {f[n] : n \in 1..N} : \A y \in {0} \cup {f[n] : n \in 1..N} : m >= y
<1> DEFINE T(k) == {0} \cup {f[n] : n \in 1..k}
           HasGreatest(k) == \E m \in T(k) : \A y \in T(k) : m >= y
           Bad == {k \in 0..N : ~HasGreatest(k)}
<1>1. N \in 0..N /\ Bad \in SUBSET Nat
  OBVIOUS
<1>2. HasGreatest(0)
  <2>1. T(0) = {0}
    OBVIOUS
  <2>2. QED
    BY <2>1
<1> HIDE DEF HasGreatest
<1>3. SUFFICES ASSUME Bad # {} PROVE FALSE
  <2>1. Bad = {} => HasGreatest(N)
    BY <1>1
  <2>2. QED
    BY <2>1 DEF HasGreatest
<1>4. PICK k \in Bad : \A y \in Bad : k <= y
  <2> HIDE DEF Bad
  <2>1. QED
    BY <1>1, <1>3, LeastOf
<1>5. k \in 1..N /\ k - 1 \in 0..N /\ HasGreatest(k - 1) /\ ~HasGreatest(k)
  <2>1. k \in 0..N /\ ~HasGreatest(k) /\ k # 0
    BY <1>2, <1>4
  <2>2. k \in 1..N /\ k - 1 \in 0..N /\ ~(k <= k - 1)
    BY <2>1
  <2>3. QED
    BY <1>4, <2>1, <2>2
<1>6. PICK m \in T(k - 1) : \A y \in T(k - 1) : m >= y
  BY <1>5 DEF HasGreatest
<1>7. T(k) = T(k - 1) \cup {f[k]} /\ T(k) \subseteq Nat /\ f[k] \in T(k) /\ m \in T(k)
  <2>1. \A n \in 1..k : n \in 1..(k - 1) \/ n = k
    BY <1>5
  <2>2. 1..(k - 1) \subseteq 1..k /\ k \in 1..k /\ 1..k \subseteq 1..N
    BY <1>5
  <2>3. T(k) = T(k - 1) \cup {f[k]}
    BY <2>1, <2>2
  <2>4. T(k) \subseteq Nat
    BY <2>2
  <2>5. QED
    BY <2>3, <2>4
<1>8. HasGreatest(k)
  <2>1. CASE m >= f[k]
    BY <1>6, <1>7, <2>1 DEF HasGreatest
  <2>2. CASE ~(m >= f[k])
    <3>1. f[k] >= m /\ \A y \in T(k - 1) : y \in Nat
      BY <1>7, <2>2
    <3>2. \A y \in T(k) : f[k] >= y
      BY <1>6, <1>7, <3>1
    <3>3. QED
      BY <1>7, <3>2 DEF HasGreatest
  <2>3. QED
    BY <2>1, <2>2
<1>9. QED
  BY <1>5, <1>8

\* The place after the last is after all.
LEMMA NextPlaceIsLast ==
  ASSUME step \in Seq(StepState)
  PROVE  NextPlace \in Nat /\ \A n \in DOMAIN step : step[n].place < NextPlace
<1>1. /\ Len(step) \in Nat /\ DOMAIN step = 1..Len(step)
      /\ \A n \in DOMAIN step : step[n] \in StepState
  OBVIOUS
<1>2. PICK f : f = [n \in 1..Len(step) |-> step[n].place]
  OBVIOUS
<1>3. f \in [1..Len(step) -> Nat]
  BY <1>1, <1>2 DEF StepState
<1>4. PICK T : T = {0} \cup {f[n] : n \in 1..Len(step)}
  OBVIOUS
<1>5. \E m \in T : \A y \in T : m >= y
  BY <1>1, <1>3, <1>4, GreatestOfSome
<1>6. Max(T) \in T /\ \A y \in T : Max(T) >= y
  BY <1>5 DEF Max
<1>7. T = {0} \cup {step[n].place : n \in DOMAIN step} /\ T \subseteq Nat
  BY <1>1, <1>2, <1>3, <1>4
<1>8. PICK m \in Nat : m = Max(T)
  BY <1>6, <1>7
<1>9. NextPlace = 10 + m
  BY <1>7, <1>8 DEF NextPlace
<1>10. \A n \in DOMAIN step : step[n].place \in Nat /\ step[n].place <= m
  BY <1>6, <1>7, <1>8
<1>11. QED
  BY <1>9, <1>10

\* A request begins: what it has read is so, and nothing else changes.
LEMMA DeskBegins ==
  ASSUME TemplateInv, NEW d \in Desks, NEW r \in DeskState, r # IsFree, Begins(d, r),
         r.op = "hang" => uses[<<r.step, r.part>>] = r.seen,
         r.op = "step" => \A n \in DOMAIN step : step[n].place < r.place,
         UNCHANGED <<step, uses, stocked, taken, hung>>
  PROVE  TemplateInv'
<1>1. /\ TemplateTypeOK /\ step \in Seq(StepState) /\ DesksAreSeen /\ LinesAreKept /\ PlacesAreInOrder
      /\ desk \in [Desks -> DeskState] /\ shared \subseteq 0..MaxSteps
  BY DEF TemplateInv, TemplateTypeOK
<1>2. /\ desk[d] = IsFree /\ desk' = [desk EXCEPT ![d] = r]
      /\ shared' = IF \E e \in Desks : desk[e] # IsFree /\ desk[e].step = r.step THEN shared \cup {r.step}
                   ELSE shared
  BY DEF Begins
<1>3. /\ desk' \in [Desks -> DeskState] /\ desk'[d] = r /\ \A e \in Desks \ {d} : desk'[e] = desk[e]
  BY <1>1, <1>2
<1>4. /\ shared \subseteq shared' /\ shared' \subseteq 0..MaxSteps
      /\ \A e \in Desks : desk[e] # IsFree /\ desk[e].step = r.step => r.step \in shared'
  BY <1>1, <1>2, DeskStates
<1>5. TemplateTypeOK'
  BY <1>1, <1>3, <1>4 DEF TemplateTypeOK
<1>6. LinesAreKept' /\ PlacesAreInOrder'
  BY <1>1, <1>4 DEF LinesAreKept, PlacesAreInOrder
<1>7. ASSUME NEW e \in Desks, NEW f \in Desks, e # f, desk'[e] # IsFree, desk'[f] # IsFree,
             desk'[e].step = desk'[f].step
      PROVE  desk'[e].step \in shared'
  <2>1. CASE e # d /\ f # d
    BY <1>1, <1>3, <1>4, <1>7, <2>1 DEF DesksAreSeen
  <2>2. CASE e = d
    BY <1>3, <1>4, <1>7, <2>2
  <2>3. CASE f = d
    BY <1>3, <1>4, <1>7, <2>3
  <2>4. QED
    BY <2>1, <2>2, <2>3
<1>8. ASSUME NEW e \in Desks, desk'[e].op = "hang", desk'[e].step \notin shared', desk'[e].seen \in {"live", "deleted"}
      PROVE  uses[<<desk'[e].step, desk'[e].part>>] = desk'[e].seen
  BY <1>1, <1>3, <1>4, <1>8 DEF DesksAreSeen
<1>9. ASSUME NEW e \in Desks, desk'[e].op = "step", 0 \notin shared', NEW n \in DOMAIN step
      PROVE  step[n].place < desk'[e].place
  BY <1>1, <1>3, <1>4, <1>9 DEF DesksAreSeen
<1>10. DesksAreSeen'
  BY <1>7, <1>8, <1>9 DEF DesksAreSeen
<1>11. QED
  BY <1>1, <1>5, <1>6, <1>10 DEF TemplateInv

\* A request ends: it changes the lines of its own step, or adds a step after the others.
LEMMA DeskEnds ==
  ASSUME TemplateInv, NEW d \in Desks, desk[d] # IsFree, NEW n \in 0..MaxSteps, n = desk[d].step, Ends(d),
         uses' \in [Lines -> RowState], taken' \subseteq Lines, hung' \subseteq Lines,
         \A s \in Lines : s[1] # n =>
           uses'[s] = uses[s] /\ (s \in taken' => s \in taken) /\ (s \in hung' => s \in hung),
         n \notin shared => \A s \in Lines : s[1] = n =>
           (s \in taken' => uses'[s] = "deleted") /\ (s \in hung' => uses'[s] = "live"),
         step' \in Seq(StepState),
         \/ /\ DOMAIN step' = DOMAIN step
            /\ \A m \in DOMAIN step : step'[m].place = step[m].place /\ step'[m].row = step[m].row
         \/ n = 0 /\ PlacesAreInOrder',
         UNCHANGED <<stocked, shared>>
  PROVE  TemplateInv'
<1>1. /\ TemplateTypeOK /\ step \in Seq(StepState) /\ DesksAreSeen /\ LinesAreKept /\ PlacesAreInOrder
      /\ desk \in [Desks -> DeskState] /\ shared \subseteq 0..MaxSteps
      /\ DOMAIN step = 1..Len(step) /\ Len(step) \in Nat
  BY DEF TemplateInv, TemplateTypeOK
<1>2. /\ desk' \in [Desks -> DeskState] /\ desk'[d] = IsFree /\ \A e \in Desks \ {d} : desk'[e] = desk[e]
  BY <1>1, DeskStates DEF Ends
<1>3. \A e \in Desks \ {d} : desk[e] # IsFree /\ desk[e].step = n => n \in shared
  BY <1>1 DEF DesksAreSeen
<1>4. \A m \in DOMAIN step' : step'[m] \in [place : Nat, live : BOOLEAN, row : 0..Len(StepFile)]
  <2>1. PICK t \in Seq(StepState) : t = step'
    OBVIOUS
  <2>2. \A m \in DOMAIN t : t[m] \in StepState
    OBVIOUS
  <2>3. QED
    BY <2>1, <2>2 DEF StepState
<1>5. TemplateTypeOK'
  BY <1>1, <1>2, <1>4 DEF TemplateTypeOK
<1>6. LinesAreKept'
  BY <1>1 DEF LinesAreKept
<1>7. PlacesAreInOrder'
  <2>1. CASE /\ DOMAIN step' = DOMAIN step
             /\ \A m \in DOMAIN step : step'[m].place = step[m].place /\ step'[m].row = step[m].row
    <3>1. \A m \in DOMAIN step : \A l \in 1..(m - 1) : l \in DOMAIN step
      BY <1>1
    <3>2. QED
      BY <1>1, <2>1, <3>1 DEF PlacesAreInOrder
  <2>2. QED
    BY <2>1
<1>8. ASSUME NEW e \in Desks, NEW f \in Desks, e # f, desk'[e] # IsFree, desk'[f] # IsFree,
             desk'[e].step = desk'[f].step
      PROVE  desk'[e].step \in shared
  BY <1>1, <1>2, <1>8 DEF DesksAreSeen
<1>9. ASSUME NEW e \in Desks, desk'[e].op = "hang", desk'[e].step \notin shared, desk'[e].seen \in {"live", "deleted"}
      PROVE  uses'[<<desk'[e].step, desk'[e].part>>] = desk'[e].seen
  <2>1. e # d /\ desk'[e] = desk[e] /\ desk[e] # IsFree /\ desk[e].op = "hang"
    BY <1>2, <1>9, DeskStates
  <2>2. PICK m \in 1..MaxSteps, i \in Spares : m = desk[e].step /\ i = desk[e].part
    BY <1>1, <2>1, DeskStates
  <2>3. PICK s \in Lines : s = <<m, i>> /\ s[1] = m
    <3>1. <<m, i>> \in Lines
      BY DEF Lines
    <3>2. <<m, i>>[1] = m
      OBVIOUS
    <3>3. QED
      BY <3>1, <3>2
  <2>4. m # n
    BY <1>3, <1>9, <2>1, <2>2
  <2>5. uses'[s] = uses[s]
    BY <2>3, <2>4
  <2>6. uses[s] = desk[e].seen
    BY <1>1, <1>9, <2>1, <2>2, <2>3 DEF DesksAreSeen
  <2>7. QED
    BY <2>1, <2>2, <2>3, <2>5, <2>6
<1>10. ASSUME NEW e \in Desks, desk'[e].op = "step", 0 \notin shared, NEW m \in DOMAIN step'
       PROVE  step'[m].place < desk'[e].place
  <2>1. e # d /\ desk'[e] = desk[e] /\ desk[e] # IsFree /\ desk[e].op = "step"
    BY <1>2, <1>10, DeskStates
  <2>2. desk[e].step = 0
    BY <1>1, <2>1, DeskStates
  <2>3. n # 0
    BY <1>3, <1>10, <2>1, <2>2
  <2>4. QED
    BY <1>1, <1>10, <2>1, <2>3 DEF DesksAreSeen
<1>11. DesksAreSeen'
  BY <1>8, <1>9, <1>10 DEF DesksAreSeen
<1>12. QED
  BY <1>5, <1>6, <1>7, <1>11 DEF TemplateInv

LEMMA RequestsOfDesksKeep ==
  ASSUME TemplateInv, NEW d \in Desks,
         \/ AddTaskStep(d)
         \/ \E n \in 1..MaxSteps : \/ DeleteTaskStep(d, n)
                                   \/ \E i \in Spares : AddTaskPart(d, n, i) \/ RemoveTaskPart(d, n, i)
  PROVE  TemplateInv'
<1>1. step \in Seq(StepState) /\ uses \in [Lines -> RowState]
  BY DEF TemplateInv, TemplateTypeOK
<1>2. CASE AddTaskStep(d)
  <2>1. PICK x \in Nat : x = NextPlace /\ \A n \in DOMAIN step : step[n].place < x
    BY <1>1, NextPlaceIsLast
  <2>2. PICK r : r = [op |-> "step", step |-> 0, place |-> x]
    OBVIOUS
  <2>3. r \in DeskState /\ r # IsFree /\ r.op = "step" /\ r.place = x
    BY <2>2 DEF DeskState, IsFree
  <2>4. Begins(d, r) /\ UNCHANGED <<step, uses, stocked, taken, hung>>
    BY <1>2, <2>1, <2>2 DEF AddTaskStep
  <2>5. QED
    BY <2>1, <2>3, <2>4, DeskBegins
<1>3. ASSUME NEW n \in 1..MaxSteps, DeleteTaskStep(d, n) PROVE TemplateInv'
  <2>1. PICK r : r = [op |-> "drop", step |-> n]
    OBVIOUS
  <2>2. r \in DeskState /\ r # IsFree /\ r.op = "drop"
    BY <2>1 DEF DeskState, IsFree
  <2>3. QED
    BY <1>3, <2>1, <2>2, DeskBegins DEF DeleteTaskStep
<1>4. ASSUME NEW n \in 1..MaxSteps, NEW i \in Spares, AddTaskPart(d, n, i) PROVE TemplateInv'
  <2>1. PICK s \in Lines : s = <<n, i>>
    BY DEF Lines
  <2>2. PICK r : r = [op |-> "hang", step |-> n, part |-> i, seen |-> uses[s]]
    OBVIOUS
  <2>3. r \in DeskState /\ r # IsFree /\ r.op = "hang" /\ r.step = n /\ r.part = i /\ r.seen = uses[s]
    BY <1>1, <2>2 DEF DeskState, IsFree
  <2>4. Begins(d, r) /\ UNCHANGED <<step, uses, stocked, taken, hung>>
    BY <1>4, <2>1, <2>2 DEF AddTaskPart
  <2>5. QED
    BY <2>1, <2>3, <2>4, DeskBegins
<1>5. ASSUME NEW n \in 1..MaxSteps, NEW i \in Spares, RemoveTaskPart(d, n, i) PROVE TemplateInv'
  <2>1. PICK r : r = [op |-> "take", step |-> n, part |-> i]
    OBVIOUS
  <2>2. r \in DeskState /\ r # IsFree /\ r.op = "take"
    BY <2>1 DEF DeskState, IsFree
  <2>3. QED
    BY <1>5, <2>1, <2>2, DeskBegins DEF RemoveTaskPart
<1>6. QED
  BY <1>2, <1>3, <1>4, <1>5

LEMMA StepIsAdded ==
  ASSUME TemplateInv, NEW d \in Desks, CommitStep(d)
  PROVE  TemplateInv'
<1>1. /\ TemplateTypeOK /\ step \in Seq(StepState) /\ DesksAreSeen /\ LinesAreKept /\ PlacesAreInOrder
      /\ desk[d] \in DeskState /\ uses \in [Lines -> RowState] /\ taken \subseteq Lines /\ hung \subseteq Lines
  BY DEF TemplateInv, TemplateTypeOK
<1>2. /\ desk[d].op = "step" /\ step' = Append(step, [place |-> desk[d].place, live |-> TRUE, row |-> 0])
      /\ Ends(d) /\ UNCHANGED <<uses, stocked, taken, hung, shared>>
  BY DEF CommitStep
<1>3. PICK x \in Nat : x = desk[d].place /\ desk[d].step = 0
  BY <1>1, <1>2, DeskStates
<1>4. desk[d] # IsFree
  BY <1>2, DeskStates
<1>5. PICK new \in StepState : new = [place |-> x, live |-> TRUE, row |-> 0] /\ new.place = x
  <2>1. Len(StepFile) \in Nat
    BY TemplateAssumption DEF TemplateAssumption
  <2>2. 0 \in 0..Len(StepFile)
    BY <2>1
  <2>3. [place |-> x, live |-> TRUE, row |-> 0] \in StepState
    BY <2>2 DEF StepState
  <2>4. QED
    BY <2>3
<1>6. /\ step' = Append(step, new) /\ step' \in Seq(StepState)
      /\ Len(step) \in Nat /\ DOMAIN step = 1..Len(step) /\ DOMAIN step' = 1..(Len(step) + 1)
      /\ step'[Len(step) + 1] = new /\ \A n \in DOMAIN step : step'[n] = step[n]
  BY <1>1, <1>2, <1>3, <1>5
<1>7. PlacesAreInOrder'
  <2>1. SUFFICES ASSUME 0 \notin shared, NEW n \in DOMAIN step', step'[n].row = 0, NEW m \in 1..(n - 1)
                 PROVE  step'[m].place < step'[n].place
    BY <1>2 DEF PlacesAreInOrder
  <2>2. CASE n \in DOMAIN step
    <3>1. m \in DOMAIN step
      BY <1>6, <2>2
    <3>2. QED
      BY <1>1, <1>6, <2>1, <2>2, <3>1 DEF PlacesAreInOrder
  <2>3. CASE n = Len(step) + 1
    <3>1. m \in DOMAIN step
      BY <1>6, <2>3
    <3>2. step[m].place < x
      BY <1>1, <1>2, <1>3, <2>1, <3>1 DEF DesksAreSeen
    <3>3. QED
      BY <1>5, <1>6, <2>3, <3>1, <3>2
  <2>4. QED
    BY <1>6, <2>2, <2>3
<1>8. \A s \in Lines : s[1] # 0
  BY DEF Lines
<1>9. 0 \in 0..MaxSteps
  BY TemplateAssumption DEF TemplateAssumption
<1>10. QED
  BY <1>1, <1>2, <1>3, <1>4, <1>6, <1>7, <1>8, <1>9, DeskEnds

LEMMA StepIsDropped ==
  ASSUME TemplateInv, NEW d \in Desks, CommitDrop(d)
  PROVE  TemplateInv'
<1>1. /\ TemplateTypeOK /\ step \in Seq(StepState) /\ DesksAreSeen /\ LinesAreKept /\ PlacesAreInOrder
      /\ desk[d] \in DeskState /\ uses \in [Lines -> RowState] /\ taken \subseteq Lines /\ hung \subseteq Lines
  BY DEF TemplateInv, TemplateTypeOK
<1>2. PICK n \in 1..MaxSteps : n = desk[d].step
  BY <1>1, DeskStates DEF CommitDrop
<1>3. /\ step' = [step EXCEPT ![n].live = FALSE]
      /\ uses' = [s \in Lines |-> IF s \in Dropped(n) THEN "deleted" ELSE uses[s]]
      /\ taken' = taken \cup {s \in Lines : s[1] = n /\ uses[s] # "none"}
      /\ hung' = {s \in hung : s[1] # n}
      /\ Ends(d) /\ UNCHANGED <<stocked, shared>> /\ desk[d] # IsFree
  BY <1>2, DeskStates DEF CommitDrop
<1>4. uses' \in [Lines -> RowState] /\ taken' \subseteq Lines /\ hung' \subseteq Lines
  BY <1>1, <1>3 DEF RowState
<1>5. \A s \in Lines : s[1] # n =>
        uses'[s] = uses[s] /\ (s \in taken' => s \in taken) /\ (s \in hung' => s \in hung)
  BY <1>3 DEF Dropped
<1>6. ASSUME n \notin shared, NEW s \in Lines, s[1] = n
      PROVE  (s \in taken' => uses'[s] = "deleted") /\ (s \in hung' => uses'[s] = "live")
  <2>1. uses'[s] = IF uses[s] = "live" THEN "deleted" ELSE uses[s]
    BY <1>3, <1>6 DEF Dropped
  <2>2. uses[s] \in {"none", "live", "deleted"} /\ (s \in taken => uses[s] = "deleted")
    BY <1>1, <1>6 DEF LinesAreKept, RowState
  <2>3. QED
    BY <1>3, <1>6, <2>1, <2>2
<1>7. /\ step' \in Seq(StepState) /\ DOMAIN step' = DOMAIN step
      /\ \A m \in DOMAIN step : step'[m].place = step[m].place /\ step'[m].row = step[m].row
  <2>1. DOMAIN step = 1..Len(step) /\ Len(step) \in Nat
    BY <1>1
  <2>2. CASE n \notin DOMAIN step
    <3>1. step' = step
      BY <1>1, <1>3, <2>1, <2>2
    <3>2. QED
      BY <1>1, <3>1
  <2>3. CASE n \in DOMAIN step
    <3>1. PICK v \in StepState : v = step[n]
      BY <1>1, <2>3
    <3>2. PICK w : w = [v EXCEPT !.live = FALSE]
      OBVIOUS
    <3>3. w \in StepState /\ w.place = v.place /\ w.row = v.row
      BY <3>2 DEF StepState
    <3>4. step' = [step EXCEPT ![n] = w]
      BY <1>3, <3>1, <3>2
    <3>5. step' \in Seq(StepState) /\ DOMAIN step' = DOMAIN step
      BY <1>1, <2>1, <2>3, <3>3, <3>4
    <3>6. step'[n] = w /\ \A m \in DOMAIN step : m # n => step'[m] = step[m]
      BY <2>3, <3>4
    <3>7. QED
      BY <3>1, <3>3, <3>5, <3>6
  <2>4. QED
    BY <2>2, <2>3
<1>8. n \in 0..MaxSteps
  OBVIOUS
<1>9. QED
  BY <1>2, <1>3, <1>4, <1>5, <1>6, <1>7, <1>8, DeskEnds

LEMMA PartIsHung ==
  ASSUME TemplateInv, NEW d \in Desks, CommitHang(d)
  PROVE  TemplateInv'
<1>1. /\ TemplateTypeOK /\ step \in Seq(StepState) /\ DesksAreSeen /\ LinesAreKept /\ PlacesAreInOrder
      /\ desk[d] \in DeskState /\ uses \in [Lines -> RowState] /\ taken \subseteq Lines /\ hung \subseteq Lines
  BY DEF TemplateInv, TemplateTypeOK
<1>2. PICK n \in 1..MaxSteps, i \in Spares, was \in RowState :
        n = desk[d].step /\ i = desk[d].part /\ was = desk[d].seen /\ desk[d].op = "hang" /\ desk[d] # IsFree
  BY <1>1, DeskStates DEF CommitHang
<1>3. PICK entry \in Lines : entry = <<n, i>> /\ entry[1] = n
  <2>1. <<n, i>> \in Lines
    BY DEF Lines
  <2>2. <<n, i>>[1] = n
    OBVIOUS
  <2>3. QED
    BY <2>1, <2>2
<1>4. PICK fails \in BOOLEAN : fails <=> (was = "none" /\ uses[entry] # "none")
  OBVIOUS
<1>5. /\ uses' = IF fails \/ was = "live" THEN uses ELSE [uses EXCEPT ![entry] = "live"]
      /\ taken' = IF fails THEN taken ELSE taken \ {entry}
      /\ hung' = IF fails THEN hung ELSE hung \cup {entry}
      /\ Ends(d) /\ UNCHANGED <<step, stocked, shared>>
  BY <1>2, <1>3, <1>4 DEF CommitHang
<1>6. uses' \in [Lines -> RowState] /\ taken' \subseteq Lines /\ hung' \subseteq Lines
  BY <1>1, <1>5 DEF RowState
<1>7. \A s \in Lines : s # entry =>
        uses'[s] = uses[s] /\ (s \in taken' => s \in taken) /\ (s \in hung' => s \in hung)
  BY <1>1, <1>5
<1>8. ASSUME n \notin shared, NEW s \in Lines
      PROVE  s[1] = n => (s \in taken' => uses'[s] = "deleted") /\ (s \in hung' => uses'[s] = "live")
  <2>1. CASE s # entry \/ fails
    BY <1>1, <1>5, <1>7, <1>8, <2>1 DEF LinesAreKept
  <2>2. CASE s = entry /\ ~fails /\ was = "live"
    <3>1. uses[entry] = "live"
      BY <1>1, <1>2, <1>3, <1>8, <2>2 DEF DesksAreSeen
    <3>2. QED
      BY <1>5, <2>2, <3>1
  <2>3. CASE s = entry /\ ~fails /\ was # "live"
    BY <1>1, <1>5, <2>3
  <2>4. QED
    BY <2>1, <2>2, <2>3
<1>9. n \in 0..MaxSteps
  OBVIOUS
<1>10. QED
  BY <1>1, <1>2, <1>3, <1>5, <1>6, <1>7, <1>8, <1>9, DeskEnds

LEMMA PartIsTaken ==
  ASSUME TemplateInv, NEW d \in Desks, CommitTake(d)
  PROVE  TemplateInv'
<1>1. /\ TemplateTypeOK /\ step \in Seq(StepState) /\ DesksAreSeen /\ LinesAreKept /\ PlacesAreInOrder
      /\ desk[d] \in DeskState /\ uses \in [Lines -> RowState] /\ taken \subseteq Lines /\ hung \subseteq Lines
  BY DEF TemplateInv, TemplateTypeOK
<1>2. PICK n \in 1..MaxSteps, i \in Spares : n = desk[d].step /\ i = desk[d].part /\ desk[d] # IsFree
  BY <1>1, DeskStates DEF CommitTake
<1>3. PICK entry \in Lines : entry = <<n, i>> /\ entry[1] = n
  <2>1. <<n, i>> \in Lines
    BY DEF Lines
  <2>2. <<n, i>>[1] = n
    OBVIOUS
  <2>3. QED
    BY <2>1, <2>2
<1>4. /\ uses' = IF uses[entry] = "live" THEN [uses EXCEPT ![entry] = "deleted"] ELSE uses
      /\ taken' = IF uses[entry] = "none" THEN taken ELSE taken \cup {entry}
      /\ hung' = hung \ {entry}
      /\ Ends(d) /\ UNCHANGED <<step, stocked, shared>>
  BY <1>2, <1>3 DEF CommitTake
<1>5. uses' \in [Lines -> RowState] /\ taken' \subseteq Lines /\ hung' \subseteq Lines
  BY <1>1, <1>4 DEF RowState
<1>6. \A s \in Lines : s # entry =>
        uses'[s] = uses[s] /\ (s \in taken' => s \in taken) /\ (s \in hung' => s \in hung)
  BY <1>1, <1>4
<1>7. ASSUME n \notin shared, NEW s \in Lines
      PROVE  s[1] = n => (s \in taken' => uses'[s] = "deleted") /\ (s \in hung' => uses'[s] = "live")
  <2>1. CASE s # entry
    BY <1>1, <1>6, <1>7, <2>1 DEF LinesAreKept
  <2>2. CASE s = entry
    <3>1. uses[entry] \in {"none", "live", "deleted"} /\ (entry \in taken => uses[entry] = "deleted")
      BY <1>1, <1>3, <1>7 DEF LinesAreKept, RowState
    <3>2. QED
      BY <1>1, <1>4, <2>2, <3>1
  <2>3. QED
    BY <2>1, <2>2
<1>8. n \in 0..MaxSteps
  OBVIOUS
<1>9. QED
  BY <1>1, <1>2, <1>3, <1>4, <1>5, <1>6, <1>7, <1>8, DeskEnds

\* The loader adds steps after those that are there, and lines where there are none.
LEMMA LoadingKeeps ==
  ASSUME TemplateInv, LoadSteps
  PROVE  TemplateInv'
<1> DEFINE missing == {r \in DOMAIN StepFile : \A n \in DOMAIN step : step[n].row # r}
           Added(new) == [x \in DOMAIN new |-> [place |-> 10 * new[x], live |-> TRUE, row |-> new[x]]]
<1>1. /\ TemplateTypeOK /\ step \in Seq(StepState) /\ DesksAreSeen /\ LinesAreKept /\ PlacesAreInOrder
      /\ desk \in [Desks -> DeskState] /\ uses \in [Lines -> RowState] /\ shared \subseteq 0..MaxSteps
      /\ Len(step) \in Nat /\ DOMAIN step = 1..Len(step)
  BY DEF TemplateInv, TemplateTypeOK
<1>2. PICK rows \in Nat : rows = Len(StepFile) /\ DOMAIN StepFile = 1..rows
  BY TemplateAssumption DEF TemplateAssumption
<1>3. Cardinality(missing) \in Nat
  <2>1. IsFiniteSet(1..rows) /\ missing \subseteq 1..rows
    BY <1>2, FS_Interval
  <2>2. QED
    BY <2>1, FS_Subset, FS_CardinalityType
<1>4. PICK new \in [1..Cardinality(missing) -> missing] : step' = step \o Added(new)
  BY DEF LoadSteps
<1>5. /\ UNCHANGED <<stocked, desk, taken, hung>>
      /\ shared' = IF \E d \in Desks : desk[d].op = "step" THEN shared \cup {0} ELSE shared
      /\ \A s \in Lines : uses'[s] \in {uses[s], Loaded(uses[s])}
      /\ uses' = [s \in Lines |-> uses'[s]]
  BY DEF LoadSteps
<1>6. PICK k \in Nat : k = Cardinality(missing)
  BY <1>3
<1>7. \A x \in 1..k : new[x] \in 1..rows
  BY <1>2, <1>4, <1>6
<1>8. PICK t : t = Added(new)
  OBVIOUS
<1>9. /\ t \in Seq(StepState) /\ Len(t) = k /\ \A x \in 1..k : t[x].row # 0
  <2>1. DOMAIN new = 1..k
    BY <1>4, <1>6
  <2>2. ASSUME NEW x \in 1..k PROVE t[x] \in StepState /\ t[x].row # 0
    <3>1. PICK r \in 1..rows : r = new[x]
      BY <1>7
    <3>2. t[x] = [place |-> 10 * r, live |-> TRUE, row |-> r]
      BY <1>8, <2>1, <3>1
    <3>3. r # 0 /\ r \in 0..Len(StepFile) /\ 10 * r \in Nat
      BY <1>2
    <3>4. QED
      BY <3>2, <3>3 DEF StepState
  <2>3. t = [x \in 1..k |-> t[x]]
    BY <1>8, <2>1
  <2>4. t \in [1..k -> StepState]
    BY <2>2, <2>3
  <2>5. t \in Seq(StepState) /\ Len(t) = k
    BY ONLY k \in Nat, <2>4
  <2>6. QED
    BY <2>2, <2>5
<1>10. step' = step \o t
  BY <1>4, <1>8
<1> HIDE DEF missing, Added
<1>11. /\ step' \in Seq(StepState) /\ DOMAIN step' = 1..(Len(step) + k)
       /\ \A n \in DOMAIN step : step'[n] = step[n]
       /\ \A n \in DOMAIN step' \ DOMAIN step : step'[n] = t[n - Len(step)]
  <2>1. PICK old \in Seq(StepState) : old = step
    BY <1>1
  <2>2. /\ old \o t \in Seq(StepState) /\ DOMAIN (old \o t) = 1..(Len(old) + k)
        /\ \A n \in 1..Len(old) : (old \o t)[n] = old[n]
        /\ \A n \in (Len(old) + 1)..(Len(old) + k) : (old \o t)[n] = t[n - Len(old)]
    BY ONLY old \in Seq(StepState), k \in Nat, <1>9
  <2>3. \A n \in DOMAIN step' \ DOMAIN step : n \in (Len(old) + 1)..(Len(old) + k)
    BY <1>1, <1>10, <2>1, <2>2
  <2>4. QED
    BY <1>1, <1>10, <2>1, <2>2, <2>3
<1>12. \A n \in DOMAIN step' \ DOMAIN step : step'[n].row # 0
  <2>1. \A n \in DOMAIN step' \ DOMAIN step : n - Len(step) \in 1..k
    BY <1>1, <1>11
  <2>2. QED
    BY <1>9, <1>11, <2>1
<1>13. \A s \in Lines : /\ uses'[s] \in RowState
                        /\ uses[s] \in {"live", "deleted"} => uses'[s] = uses[s]
  BY <1>1, <1>5 DEF Loaded, RowState
<1>14. /\ shared \subseteq shared' /\ shared' \subseteq 0..MaxSteps
       /\ \A d \in Desks : desk[d].op = "step" => 0 \in shared'
  BY <1>1, <1>5, TemplateAssumption DEF TemplateAssumption
<1>15. TemplateTypeOK'
  <2>1. uses' \in [Lines -> RowState]
    BY <1>5, <1>13
  <2>2. \A n \in DOMAIN step' : step'[n] \in StepState
    <3>1. PICK q \in Seq(StepState) : q = step'
      BY <1>11
    <3>2. \A n \in DOMAIN q : q[n] \in StepState
      OBVIOUS
    <3>3. QED
      BY <3>1, <3>2
  <2>3. QED
    BY <1>1, <1>5, <1>14, <2>1, <2>2 DEF TemplateTypeOK, StepState
<1>16. LinesAreKept'
  BY <1>1, <1>5, <1>13, <1>14 DEF LinesAreKept
<1>17. PlacesAreInOrder'
  <2>1. \A n \in DOMAIN step : \A m \in 1..(n - 1) : m \in DOMAIN step
    BY <1>1
  <2>2. QED
    BY <1>1, <1>11, <1>12, <1>14, <2>1 DEF PlacesAreInOrder
<1>18. DesksAreSeen'
  <2>1. \A d, e \in Desks :
          d # e /\ desk[d] # IsFree /\ desk[e] # IsFree /\ desk[d].step = desk[e].step => desk[d].step \in shared'
    BY <1>1, <1>14 DEF DesksAreSeen
  <2>2. ASSUME NEW d \in Desks, desk[d].op = "hang", desk[d].step \notin shared', desk[d].seen \in {"live", "deleted"}
        PROVE  uses'[<<desk[d].step, desk[d].part>>] = desk[d].seen
    <3>1. <<desk[d].step, desk[d].part>> \in Lines
      BY <1>1, <2>2, DeskStates DEF Lines
    <3>2. uses[<<desk[d].step, desk[d].part>>] = desk[d].seen
      BY <1>1, <1>14, <2>2 DEF DesksAreSeen
    <3>3. QED
      BY <1>13, <2>2, <3>1, <3>2
  <2>3. QED
    BY <1>5, <1>14, <2>1, <2>2 DEF DesksAreSeen
<1>19. QED
  BY <1>11, <1>15, <1>16, <1>17, <1>18 DEF TemplateInv

LEMMA TemplateStep == TemplateInv /\ [TemplateNext]_templateVars => TemplateInv'
<1> SUFFICES ASSUME TemplateInv, [TemplateNext]_templateVars PROVE TemplateInv'
  OBVIOUS
<1>1. ASSUME NEW d \in Desks,
             \/ AddTaskStep(d)
             \/ \E n \in 1..MaxSteps : \/ DeleteTaskStep(d, n)
                                       \/ \E i \in Spares : AddTaskPart(d, n, i) \/ RemoveTaskPart(d, n, i)
      PROVE  TemplateInv'
  BY <1>1, RequestsOfDesksKeep
<1>2. ASSUME NEW d \in Desks, CommitStep(d) \/ CommitDrop(d) \/ CommitHang(d) \/ CommitTake(d)
      PROVE  TemplateInv'
  BY <1>2, StepIsAdded, StepIsDropped, PartIsHung, PartIsTaken
<1>3. CASE LoadSteps
  BY <1>3, LoadingKeeps
<1>4. ASSUME NEW i \in Spares, AddItem(i) PROVE TemplateInv'
  BY <1>4 DEF AddItem, TemplateInv, TemplateTypeOK, DesksAreSeen, LinesAreKept, PlacesAreInOrder
<1>5. CASE UNCHANGED templateVars
  BY <1>5 DEF templateVars, TemplateInv, TemplateTypeOK, DesksAreSeen, LinesAreKept, PlacesAreInOrder
<1>6. QED
  BY <1>1, <1>2, <1>3, <1>4, <1>5 DEF TemplateNext

\* For every file, every number of steps, parts and requests: a part that was removed, alone
\* or with its step, does not come back with a load of the file, one that was added stays,
\* and a step that a planner adds goes after those that are there, unless two requests
\* changed the step at once.
THEOREM TemplatesHold == TemplateSpec => []TemplatesAreSound
<1>1. TemplateInit => TemplateInv
  BY TemplateStart
<1>2. TemplateInv /\ [TemplateNext]_templateVars => TemplateInv'
  BY TemplateStep
<1>3. TemplateInv => TemplatesAreSound
  BY TemplatesStayKept
<1>4. QED
  BY <1>1, <1>2, <1>3, PTL DEF TemplateSpec

-----------------------------------------------------------------------------
\* For every value of the constants: what was asked for twice is there once, and what was
\* taken away stays away, in the photographs, the requests for quotation, the reports from
\* a box and the templates of tasks.
THEOREM PaperworkKept ==
  MediaSpec /\ BuyingSpec /\ OnBoxSpec /\ TemplateSpec => []PaperworkIsSound
BY PhotosHold, SupplierAskedOnce, ReportsHold, TemplatesHold, PTL DEF PaperworkIsSound

=============================================================================
