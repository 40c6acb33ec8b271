-------------------------------- MODULE Vault --------------------------------
(***************************************************************************)
(* CredentialVault: one current credential for each user and system, in    *)
(* user_external_credential with its partial unique index.                 *)
(***************************************************************************)
EXTENDS Naturals, Sequences

CONSTANTS
  Slots,       \* pairs of a user and a system
  Keepers,     \* the calls that can be under way at once
  MaxCreds     \* bound: the rows of the table

ASSUME VaultAssumption == Slots # {} /\ MaxCreds \in Nat

VARIABLES
  cred,    \* the rows, in the order of their ids
  keep     \* keep[k]: the call under way

vaultVars == <<cred, keep>>

Cred == [slot : Slots, current : BOOLEAN]

\* A call and the row it read (0 for none); "late": a new row of the slot came after that.
Keep == [pc : {"idle", "ready"}, op : {"store", "revoke", "use"}, slot : Slots,
         row : 0..MaxCreds, late : BOOLEAN]
NoKeep == [pc |-> "idle", op |-> "use", slot |-> CHOOSE s \in Slots : TRUE, row |-> 0,
           late |-> FALSE]

CurrentRows(s) == {n \in DOMAIN cred : cred[n].slot = s /\ cred[n].current}

\* _active
Active(s) == IF CurrentRows(s) = {} THEN 0 ELSE CHOOSE n \in CurrentRows(s) : TRUE

\* store_credential reads the current row; revoke and get_plaintext return when there is none.
Begin(k, op, s) ==
  /\ keep[k].pc = "idle"
  /\ op # "store" => CurrentRows(s) # {}
  /\ keep' = [keep EXCEPT ![k] = [pc |-> "ready", op |-> op, slot |-> s, row |-> Active(s),
                                  late |-> FALSE]]
  /\ UNCHANGED cred

\* Faulty variant: the old row stays.
Kept(n) == cred

Retired(n) == [m \in DOMAIN cred |-> [cred[m] EXCEPT !.current = @ /\ m # n]]

\* The UPDATE of the row it read, and the INSERT, which the index refuses while another row
\* is current: the whole call is rolled back then.
CommitStore(k) ==
  LET q == keep[k] IN
  /\ q.pc = "ready" /\ q.op = "store" /\ Len(cred) < MaxCreds
  /\ IF \E n \in DOMAIN cred : Retired(q.row)[n].slot = q.slot /\ Retired(q.row)[n].current
     THEN /\ UNCHANGED cred
          /\ keep' = [keep EXCEPT ![k] = NoKeep]
     ELSE /\ cred' = Append(Retired(q.row), [slot |-> q.slot, current |-> TRUE])
          /\ keep' = [j \in Keepers |->
               IF j = k THEN NoKeep
               ELSE [keep[j] EXCEPT !.late = @ \/ (keep[j].pc = "ready" /\ keep[j].slot = q.slot)]]

CommitRevoke(k) ==
  /\ keep[k].pc = "ready" /\ keep[k].op = "revoke"
  /\ cred' = Retired(keep[k].row)
  /\ keep' = [keep EXCEPT ![k] = NoKeep]

\* get_plaintext: the column it writes, last_used_at, is nobody's business here.
CommitUse(k) ==
  /\ keep[k].pc = "ready" /\ keep[k].op = "use"
  /\ keep' = [keep EXCEPT ![k] = NoKeep]
  /\ UNCHANGED cred

\* admin_revoke, by id
AdminRevoke(n) ==
  /\ n \in DOMAIN cred /\ cred[n].current
  /\ cred' = Retired(n)
  /\ UNCHANGED keep

VaultInit == cred = <<>> /\ keep = [k \in Keepers |-> NoKeep]

VaultNext ==
  \/ \E k \in Keepers : \/ \E op \in {"store", "revoke", "use"}, s \in Slots : Begin(k, op, s)
                        \/ CommitStore(k) \/ CommitRevoke(k) \/ CommitUse(k)
  \/ \E n \in DOMAIN cred : AdminRevoke(n)

VaultSpec == VaultInit /\ [][VaultNext]_vaultVars

-----------------------------------------------------------------------------
VaultTypeOK == cred \in Seq(Cred) /\ Len(cred) <= MaxCreds /\ keep \in [Keepers -> Keep]

\* However stores, revocations and uses overlap, a slot has at most one current credential.
OneCurrent ==
  \A m, n \in DOMAIN cred :
    cred[m].current /\ cred[n].current /\ cred[m].slot = cred[n].slot => m = n

\* A revocation leaves no current credential behind, unless a new one was stored after it read;
\* and a store fails only then.
EndsOf(k) == keep[k].pc = "ready" /\ keep'[k].pc = "idle" /\ ~keep[k].late
VaultKeepsWord ==
  [][\A k \in Keepers : EndsOf(k) =>
       /\ keep[k].op = "revoke" => \A n \in DOMAIN cred' : cred'[n].current => cred'[n].slot # keep[k].slot
       /\ keep[k].op = "store" => \E n \in DOMAIN cred' : cred'[n].current /\ cred'[n].slot = keep[k].slot
                                                         /\ n \notin DOMAIN cred]_vaultVars

=============================================================================
