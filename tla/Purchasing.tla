----------------------------- MODULE Purchasing -----------------------------
(***************************************************************************)
(* Requests for quotation: the address of a supplier's main contact, the   *)
(* row of rfq_request, which its key makes unique, and the mail, sent by   *)
(* create_rfq inside the transaction that holds the row.  One supplier;    *)
(* what is asked for and the wording are left out.                         *)
(***************************************************************************)
EXTENDS Naturals, FiniteSets, FiniteSetsExt

CONSTANTS
  Contacts,      \* the supplier's contacts: numbers, in the order of their ids
  Inquiries,    \* idempotency keys: one for each form that is shown
  Buyers,       \* requests that may be under way at once
  Editors,      \* the same, of admins who edit contacts
  NoContact,
  MaxMails,     \* bound: mails for one key
  MaxUpsets     \* bound: answers that are lost and processes that end

ASSUME PurchasingAssumption ==
  Contacts \subseteq Nat /\ NoContact \notin Contacts /\ Inquiries # {}

VARIABLES
  listed,        \* the contacts that have a row
  mainContacts,  \* those marked is_main
  mailable,      \* those who have an address
  rfq,           \* by key: what its row says
  buy,           \* the requests for quotation under way
  change,        \* the edits of contacts under way
  mails,         \* by key: how many mails went out
  upset,         \* ghost: the keys that lost an answer or a process
  overlap        \* ghost: two edits of contacts were under way at once

buyingVars == <<listed, mainContacts, mailable, rfq, buy, change, mails, upset, overlap>>

NoBuy == [pc |-> "idle", key |-> CHOOSE k \in Inquiries : TRUE, dry |-> TRUE, to |-> NoContact, status |-> "drafted"]
NoChange == [person |-> NoContact, gains |-> FALSE, loses |-> FALSE, cleared |-> {}]

BuyState ==
  [pc : {"idle", "prepared", "sending", "sent"}, key : Inquiries, dry : BOOLEAN,
   to : Contacts \cup {NoContact}, status : {"drafted", "sent", "failed"}]

\* resolve_supplier_email: a main contact who has an address, or else the first who has.
Recipients ==
  IF mainContacts \cap mailable # {} THEN mainContacts \cap mailable
  ELSE IF mailable # {} THEN {Min(mailable)} ELSE {NoContact}

-----------------------------------------------------------------------------
(***************************************************************************)
(* create_rfq.                                                             *)
(***************************************************************************)
\* A key that has a row is answered with it.
Prepare(b, k, dry) ==
  /\ buy[b].pc = "idle" /\ rfq[k] = "none"
  /\ \E p \in Recipients :
       buy' = [buy EXCEPT ![b] = [pc |-> "prepared", key |-> k, dry |-> dry, to |-> p, status |-> "drafted"]]
  /\ UNCHANGED <<listed, mainContacts, mailable, rfq, change, mails, upset, overlap>>

\* Faulty variant: the row is not flushed before the mail is sent.
KeyIgnored(k) == FALSE

\* The unique index makes a second INSERT of the key wait for the first transaction.
KeyHeld(k) == \E b \in Buyers : buy[b].pc \in {"sending", "sent"} /\ buy[b].key = k

InsertRfq(b) ==
  LET k == buy[b].key
  IN  /\ buy[b].pc = "prepared" /\ ~KeyHeld(k)
      /\ buy' = [buy EXCEPT ![b] = IF rfq[k] = "none" THEN [@ EXCEPT !.pc = "sending"] ELSE NoBuy]
      /\ UNCHANGED <<listed, mainContacts, mailable, rfq, change, mails, upset, overlap>>

Recorded(b, status) == buy' = [buy EXCEPT ![b].pc = "sent", ![b].status = status]

\* No mail for a dry run, or without an address.
SendNothing(b) ==
  /\ buy[b].pc = "sending" /\ (buy[b].dry \/ buy[b].to = NoContact)
  /\ Recorded(b, IF buy[b].dry THEN "drafted" ELSE "failed")
  /\ UNCHANGED <<listed, mainContacts, mailable, rfq, change, mails, upset, overlap>>

MaySend(b) == buy[b].pc = "sending" /\ ~buy[b].dry /\ buy[b].to # NoContact

SendMail(b) ==
  /\ MaySend(b) /\ mails[buy[b].key] < MaxMails
  /\ mails' = [mails EXCEPT ![buy[b].key] = @ + 1]
  /\ \/ Recorded(b, "sent") /\ UNCHANGED upset
     \/ /\ Cardinality(upset) < MaxUpsets   \* accepted, and the connection breaks
        /\ Recorded(b, "failed") /\ upset' = upset \cup {buy[b].key}
  /\ UNCHANGED <<listed, mainContacts, mailable, rfq, change, overlap>>

RefuseMail(b) ==
  /\ MaySend(b)
  /\ Recorded(b, "failed")
  /\ UNCHANGED <<listed, mainContacts, mailable, rfq, change, mails, upset, overlap>>

CommitRfq(b) ==
  /\ buy[b].pc = "sent"
  /\ rfq' = [rfq EXCEPT ![buy[b].key] = buy[b].status]
  /\ buy' = [buy EXCEPT ![b] = NoBuy]
  /\ UNCHANGED <<listed, mainContacts, mailable, change, mails, upset, overlap>>

\* The process ends, or the commit fails: no row is left.
LoseRfq(b) ==
  /\ buy[b].pc \in {"sending", "sent"} /\ Cardinality(upset) < MaxUpsets
  /\ buy' = [buy EXCEPT ![b] = NoBuy]
  /\ upset' = upset \cup {buy[b].key}
  /\ UNCHANGED <<listed, mainContacts, mailable, rfq, change, mails, overlap>>

-----------------------------------------------------------------------------
(***************************************************************************)
(* create_person and update_person: one main contact for each supplier.    *)
(***************************************************************************)
\* Faulty variant: nobody loses the mark.
ClearedNone(p) == {}

\* _clear_org_main: whoever the statement sees marked, when somebody else is to be.
Cleared(p) == mainContacts

EditContact(e, p, gains, loses) ==
  /\ change[e] = NoChange
  /\ change' = [change EXCEPT ![e] =
       [person |-> p, gains |-> gains, loses |-> loses, cleared |-> IF gains THEN Cleared(p) ELSE {}]]
  /\ overlap' = (overlap \/ \E f \in Editors \ {e} : change[f] # NoChange)
  /\ UNCHANGED <<listed, mainContacts, mailable, rfq, buy, mails, upset>>

\* update_person, with or without the mark.
BeginChange(e, p, main) ==
  p \in listed /\ EditContact(e, p, main /\ p \notin mainContacts, ~main /\ p \in mainContacts)

\* create_person, under an id that nobody else draws.
BeginCreate(e, p, main) ==
  /\ p \notin listed /\ \A f \in Editors : change[f].person # p
  /\ EditContact(e, p, main, FALSE)

CommitChange(e, mailed) ==
  LET c == change[e]
  IN  /\ c # NoChange
      /\ listed' = listed \cup {c.person}
      /\ mainContacts' = (mainContacts \ (c.cleared \cup {p \in {c.person} : c.loses}))
                            \cup {p \in {c.person} : c.gains}
      /\ mailable' = IF mailed THEN mailable \cup {c.person} ELSE mailable \ {c.person}
      /\ change' = [change EXCEPT ![e] = NoChange]
      /\ UNCHANGED <<rfq, buy, mails, upset, overlap>>

-----------------------------------------------------------------------------
BuyingInit ==
  /\ listed \in SUBSET Contacts /\ mainContacts = {} /\ mailable \in SUBSET listed
  /\ rfq = [k \in Inquiries |-> "none"]
  /\ buy = [b \in Buyers |-> NoBuy] /\ change = [e \in Editors |-> NoChange]
  /\ mails = [k \in Inquiries |-> 0]
  /\ upset = {} /\ overlap = FALSE

BuyingNext ==
  \/ \E b \in Buyers : \/ \E k \in Inquiries, dry \in BOOLEAN : Prepare(b, k, dry)
                       \/ InsertRfq(b) \/ SendNothing(b) \/ SendMail(b) \/ RefuseMail(b)
                       \/ CommitRfq(b) \/ LoseRfq(b)
  \/ \E e \in Editors : \/ \E p \in Contacts, main \in BOOLEAN : \/ BeginChange(e, p, main)
                                                               \/ BeginCreate(e, p, main)
                        \/ \E mailed \in BOOLEAN : CommitChange(e, mailed)

BuyingSpec == BuyingInit /\ [][BuyingNext]_buyingVars

-----------------------------------------------------------------------------
BuyingTypeOK ==
  /\ listed \subseteq Contacts /\ mainContacts \subseteq listed /\ mailable \subseteq listed
  /\ rfq \in [Inquiries -> {"none", "drafted", "sent", "failed"}]
  /\ buy \in [Buyers -> BuyState]
  /\ mails \in [Inquiries -> Nat]
  /\ upset \subseteq Inquiries /\ overlap \in BOOLEAN

\* A form that is sent twice, at once or again, asks the supplier once, unless a process
\* ended after the mail had gone.
AskedOnce == \A k \in Inquiries : mails[k] > 1 => k \in upset

\* What the row says of the mail is true: sent if it was, and not sent if it was not, unless
\* an answer was lost.
RfqTellsTruth ==
  \A k \in Inquiries :
    /\ rfq[k] = "sent" => mails[k] > 0
    /\ rfq[k] \in {"drafted", "failed"} /\ mails[k] > 0 => k \in upset

\* A supplier has one main contact, as long as edits do not overlap.
OneMainContact == ~overlap => Cardinality(mainContacts) <= 1

BuyingIsSound == BuyingTypeOK /\ AskedOnce /\ RfqTellsTruth /\ OneMainContact

=============================================================================
