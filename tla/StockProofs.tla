---------------------------- MODULE StockProofs ----------------------------
(***************************************************************************)
(* Theorems about Stock and then about Backends, SeedReplay and Imports,   *)
(* which one run checks together.  However requests race, the ledger only  *)
(* grows, and Good says what a ledger that grew by the rows of this code   *)
(* is worth: it accounts for the quantity on hand, its keys are unique,    *)
(* what an asset gave back was issued to it, and each part has its own     *)
(* issue.  Good speaks of a ledger, parts and a quantity, not of the       *)
(* state, for a commit that posts two rows is two steps of it.  What a     *)
(* request has inserted and not committed is told apart by its keys        *)
(* (KeysApart) and its id (IdsInOrder).                                    *)
(***************************************************************************)
EXTENDS Stock, Backends, SeedReplay, Imports, SequenceLemmas

IsDirect(row) == row.kind = "ISSUE" /\ row.charge \in Assets /\ row.moves

\* The row is the issue that a part was inserted with.
Listed(row) == row.kind = "ISSUE" /\ row.charge \in WorkOrders /\ row.key.op # "amend"

To(row, w) == Listed(row) /\ row.charge = w

KeysOnce(led) == \A i, j \in DOMAIN led : led[i].key = led[j].key => i = j

\* What comes back from an asset is a direct issue of this ledger, whole.
GivesBack(led, row) ==
  /\ row.key = GiveBackKey(row.key.target)
  /\ row.key.target \in DOMAIN led
  /\ IsDirect(led[row.key.target])
  /\ led[row.key.target].charge = row.charge /\ led[row.key.target].delta = -row.delta

Owed(led) ==
  \A i \in DOMAIN led :
    led[i].kind = "RETURN" /\ led[i].charge \in Assets => GivesBack(led, led[i]) /\ led[i].key.target < i

\* Parts and listed rows go together, in the same order.
Paired(led, prt) ==
  /\ \A n \in DOMAIN prt : prt[n].posted \in DOMAIN led /\ Listed(led[prt[n].posted])
                           /\ led[prt[n].posted].charge = prt[n].wo
  /\ \A m, n \in DOMAIN prt : m < n => prt[m].posted < prt[n].posted
  /\ \A i \in DOMAIN led : Listed(led[i]) => \E n \in DOMAIN prt : prt[n].posted = i

Good(led, prt, hand) ==
  /\ led \in Seq(Transaction) /\ prt \in Seq(Part) /\ hand \in Int
  /\ KeysOnce(led) /\ Owed(led) /\ Paired(led, prt)
  /\ hand = FirstOnHand + Moved(led, Anywhere)

\* What a request under way has read still stands: rows of the ledger and the order of a
\* part never change.
Stands(q, led, prt) ==
  /\ q.op # "idle" => q.key \in Key /\ q.key.op = q.op /\ q.key.target = q.target
  /\ q.op = "issue" => q.charge \in WorkOrders
  /\ q.op = "direct" => q.charge \in Assets
  /\ q.op = "backfill" => q.charge \in WorkOrders \cup Assets
  /\ q.op \in {"issue", "direct", "backfill"} => -q.delta \in Nat
  /\ q.op \in {"amend", "cancel"} => q.target \in DOMAIN prt /\ q.charge = prt[q.target].wo
  /\ q.op \in {"supersede", "unissue"} =>
       q.target \in DOMAIN led /\ IsDirect(led[q.target]) /\ q.charge = led[q.target].charge
  /\ q.op = "unissue" => q.delta = -led[q.target].delta /\ q.key = GiveBackKey(q.target)
  /\ q.op = "adjust" => q.charge = None

Pending(r) == req[r].id > 0

\* What one request is about to post no other has posted or is about to post.
KeysApart ==
  \A r \in Requests : Pending(r) =>
    /\ ~Posted(req[r].key)
    /\ \A s \in Requests : Pending(s) /\ Inserts(r) \cap Inserts(s) # {} => r = s

\* The issues to a work order have their ids in the order of their commits, unless two overlapped.
IdsInOrder ==
  /\ drawn \in Nat
  /\ \A i \in DOMAIN ledger : ledger[i].id <= drawn
  /\ \A r \in Requests : req[r].id <= drawn
  /\ \A w \in WorkOrders \ crossed :
       /\ \A i, j \in DOMAIN ledger :
            To(ledger[i], w) /\ To(ledger[j], w) /\ i < j => ledger[i].id < ledger[j].id
       /\ \A r \in Requests : Pending(r) /\ IssuesPart(r, w) =>
            /\ \A i \in DOMAIN ledger : To(ledger[i], w) => ledger[i].id < req[r].id
            /\ \A s \in Requests : Pending(s) /\ IssuesPart(s, w) => r = s

Inv ==
  /\ Good(ledger, part, onHand)
  /\ over \subseteq WorkOrders /\ crossed \subseteq WorkOrders /\ turns \in BOOLEAN
  /\ req \in [Requests -> Request]
  /\ \A r \in Requests : Stands(req[r], ledger, part)
  /\ KeysApart /\ IdsInOrder

-----------------------------------------------------------------------------
LEMMA SharesAreIntegers ==
  ASSUME NEW rows \in Seq(Transaction), NEW C
  PROVE  /\ [i \in DOMAIN rows |-> Share(rows[i], C)] \in Seq(Int)
         /\ Moved(rows, C) \in Int
<1>1. \A i \in DOMAIN rows : rows[i] \in Transaction
  OBVIOUS
<1>2. \A x \in Transaction : Share(x, C) \in Int
  BY DEF Transaction, Share
<1>3. [i \in DOMAIN rows |-> Share(rows[i], C)] \in Seq(Int)
  BY <1>1, <1>2
<1>4. QED
  BY <1>3, SumIsInteger DEF Moved

\* A row more moves its share.
LEMMA MovedByOneMore ==
  ASSUME NEW rows \in Seq(Transaction), NEW x \in Transaction, NEW C
  PROVE  Moved(Append(rows, x), C) = Moved(rows, C) + Share(x, C)
<1>1. PICK d : d = [i \in DOMAIN rows |-> Share(rows[i], C)]
  OBVIOUS
<1>2. d \in Seq(Int) /\ Share(x, C) \in Int /\ Len(d) = Len(rows)
  <2>1. Share(x, C) \in Int
    BY DEF Transaction, Share
  <2>2. QED
    BY <1>1, <2>1, SharesAreIntegers
<1>3. [i \in DOMAIN Append(rows, x) |-> Share(Append(rows, x)[i], C)] = Append(d, Share(x, C))
  BY <1>1, <1>2
<1>4. QED
  BY <1>1, <1>2, <1>3, SumOfAppended DEF Moved

LEMMA AppendGrows ==
  ASSUME NEW S, NEW s \in Seq(S), NEW x \in S, NEW t, t = Append(s, x)
  PROVE  /\ t \in Seq(S) /\ Len(s) \in Nat /\ Len(t) = Len(s) + 1 /\ Len(s) + 1 \in DOMAIN t
         /\ t[Len(s) + 1] = x /\ Len(s) + 1 \notin DOMAIN s
         /\ \A n \in DOMAIN s : n \in DOMAIN t /\ n < Len(s) + 1 /\ t[n] = s[n]
         /\ \A n \in DOMAIN t : n \in Nat /\ (n \in DOMAIN s \/ n = Len(s) + 1)
         /\ \A m, n \in DOMAIN t : m < n => m \in DOMAIN s
OBVIOUS

\* A row that gives nothing back wrongly, with a key of its own and with the part that goes with it.
LEMMA OneMore ==
  ASSUME NEW led, NEW prt, NEW hand, Good(led, prt, hand),
         NEW x \in Transaction, NEW prt2,
         \A i \in DOMAIN led : led[i].key # x.key,
         x.kind = "RETURN" /\ x.charge \in Assets => GivesBack(led, x),
         \/ /\ Listed(x)
            /\ \E p \in Part : prt2 = Append(prt, p) /\ p.wo = x.charge /\ p.posted = Len(led) + 1
         \/ /\ ~Listed(x) /\ prt2 \in Seq(Part) /\ Len(prt2) = Len(prt)
            /\ \A n \in DOMAIN prt : prt2[n].wo = prt[n].wo /\ prt2[n].posted = prt[n].posted
  PROVE  Good(Append(led, x), prt2, hand + Share(x, Anywhere))
<1>1. PICK new : new = Append(led, x)
  OBVIOUS
<1>2. /\ led \in Seq(Transaction) /\ prt \in Seq(Part) /\ hand \in Int
      /\ new \in Seq(Transaction) /\ Len(led) \in Nat /\ Len(new) = Len(led) + 1
      /\ DOMAIN led = 1..Len(led) /\ DOMAIN new = 1..Len(new)
      /\ new[Len(led) + 1] = x /\ \A i \in DOMAIN led : new[i] = led[i]
      /\ \A i \in DOMAIN new : i \in DOMAIN led \/ i = Len(led) + 1
      /\ Len(led) + 1 \notin DOMAIN led /\ DOMAIN led \subseteq DOMAIN new
  BY <1>1 DEF Good
<1>3. KeysOnce(new)
  <2> SUFFICES ASSUME NEW i \in DOMAIN new, NEW j \in DOMAIN new, new[i].key = new[j].key PROVE i = j
    BY DEF KeysOnce
  <2>1. CASE i \in DOMAIN led /\ j \in DOMAIN led
    BY <1>2, <2>1 DEF Good, KeysOnce
  <2>2. CASE i = Len(led) + 1 /\ j \in DOMAIN led
    BY <1>2, <2>2
  <2>3. CASE i \in DOMAIN led /\ j = Len(led) + 1
    BY <1>2, <2>3
  <2>4. QED
    BY <1>2, <2>1, <2>2, <2>3
<1>4. Owed(new)
  <2> SUFFICES ASSUME NEW i \in DOMAIN new, new[i].kind = "RETURN", new[i].charge \in Assets
               PROVE  GivesBack(new, new[i]) /\ new[i].key.target < i
    BY DEF Owed
  <2>1. CASE i \in DOMAIN led
    <3>1. GivesBack(led, led[i]) /\ led[i].key.target < i
      BY <1>2, <2>1 DEF Good, Owed
    <3>2. QED
      BY <1>2, <2>1, <3>1 DEF GivesBack
  <2>2. CASE i = Len(led) + 1
    <3>1. GivesBack(led, x)
      BY <1>2, <2>2
    <3>2. x.key.target \in DOMAIN led
      BY <3>1 DEF GivesBack
    <3>3. x.key.target < i
      BY <1>2, <2>2, <3>2
    <3>4. QED
      BY <1>2, <2>2, <3>1, <3>2, <3>3 DEF GivesBack
  <2>3. QED
    BY <1>2, <2>1, <2>2
<1>5. prt2 \in Seq(Part) /\ Paired(new, prt2)
  <2>1. /\ \A n \in DOMAIN prt : prt[n].posted \in DOMAIN led /\ Listed(led[prt[n].posted])
                                 /\ led[prt[n].posted].charge = prt[n].wo
        /\ \A m, n \in DOMAIN prt : m < n => prt[m].posted < prt[n].posted
        /\ \A i \in DOMAIN led : Listed(led[i]) => \E n \in DOMAIN prt : prt[n].posted = i
    BY DEF Good, Paired
  <2>2. CASE Listed(x)
    <3>1. PICK p \in Part : prt2 = Append(prt, p) /\ p.wo = x.charge /\ p.posted = Len(led) + 1
      BY <2>2
    <3>2. /\ prt2 \in Seq(Part) /\ Len(prt) + 1 \in DOMAIN prt2 /\ prt2[Len(prt) + 1] = p
          /\ \A n \in DOMAIN prt : n \in DOMAIN prt2 /\ prt2[n] = prt[n]
          /\ \A n \in DOMAIN prt2 : n \in DOMAIN prt \/ n = Len(prt) + 1
          /\ \A m, n \in DOMAIN prt2 : m < n => m \in DOMAIN prt
      BY <1>2, <3>1, AppendGrows
    <3>3. ASSUME NEW n \in DOMAIN prt2
          PROVE  prt2[n].posted \in DOMAIN new /\ Listed(new[prt2[n].posted])
                 /\ new[prt2[n].posted].charge = prt2[n].wo
      BY <1>2, <2>1, <2>2, <3>1, <3>2
    <3>4. ASSUME NEW m \in DOMAIN prt2, NEW n \in DOMAIN prt2, m < n
          PROVE  prt2[m].posted < prt2[n].posted
      <4>1. m \in DOMAIN prt
        BY <3>2, <3>4
      <4>2. CASE n \in DOMAIN prt
        BY <2>1, <3>2, <3>4, <4>1, <4>2
      <4>3. CASE n = Len(prt) + 1
        <5>1. prt2[m].posted \in DOMAIN led
          BY <2>1, <3>2, <4>1
        <5>2. QED
          <6>1. prt2[m].posted < Len(led) + 1
            BY <1>2, <5>1
          <6>2. prt2[n].posted = Len(led) + 1
            BY <3>1, <3>2, <4>3
          <6>3. QED
            BY <6>1, <6>2
      <4>4. QED
        BY <3>2, <4>2, <4>3
    <3>5. ASSUME NEW i \in DOMAIN new, Listed(new[i])
          PROVE  \E n \in DOMAIN prt2 : prt2[n].posted = i
      <4>1. CASE i \in DOMAIN led
        <5>1. PICK n \in DOMAIN prt : prt[n].posted = i
          BY <1>2, <2>1, <3>5, <4>1
        <5>2. n \in DOMAIN prt2 /\ prt2[n].posted = i
          BY <3>2, <5>1
        <5>3. QED
          BY <5>2
      <4>2. CASE i = Len(led) + 1
        <5>1. Len(prt) + 1 \in DOMAIN prt2
          BY <3>2
        <5>2. QED
          BY <3>1, <3>2, <4>2, <5>1
      <4>3. QED
        BY <1>2, <4>1, <4>2
    <3>6. QED
      BY <3>2, <3>3, <3>4, <3>5 DEF Paired
  <2>3. CASE ~Listed(x)
    <3>1. /\ prt2 \in Seq(Part) /\ DOMAIN prt2 = DOMAIN prt
          /\ \A n \in DOMAIN prt : prt2[n].wo = prt[n].wo /\ prt2[n].posted = prt[n].posted
      BY <1>2, <2>3
    <3>2. ASSUME NEW n \in DOMAIN prt2
          PROVE  prt2[n].posted \in DOMAIN new /\ Listed(new[prt2[n].posted])
                 /\ new[prt2[n].posted].charge = prt2[n].wo
      BY <1>2, <2>1, <3>1
    <3>3. \A m, n \in DOMAIN prt2 : m < n => prt2[m].posted < prt2[n].posted
      BY <2>1, <3>1
    <3>4. ASSUME NEW i \in DOMAIN new, Listed(new[i])
          PROVE  \E n \in DOMAIN prt2 : prt2[n].posted = i
      <4>1. i \in DOMAIN led /\ Listed(led[i])
        BY <1>2, <2>3, <3>4
      <4>2. QED
        BY <2>1, <3>1, <4>1
    <3>5. QED
      BY <3>1, <3>2, <3>3, <3>4 DEF Paired
  <2>4. QED
    BY <2>2, <2>3
<1>6. /\ hand + Share(x, Anywhere) \in Int
      /\ hand + Share(x, Anywhere) = FirstOnHand + Moved(new, Anywhere)
  <2>1. Moved(led, Anywhere) \in Int /\ Share(x, Anywhere) \in Int /\ FirstOnHand \in Int
    <3>1. Moved(led, Anywhere) \in Int
      BY <1>2, SharesAreIntegers
    <3>2. Share(x, Anywhere) \in Int
      BY DEF Share, Transaction
    <3>3. QED
      BY <3>1, <3>2, StockAssumption
  <2>2. Moved(new, Anywhere) = Moved(led, Anywhere) + Share(x, Anywhere)
    BY <1>1, <1>2, MovedByOneMore
  <2>3. hand = FirstOnHand + Moved(led, Anywhere)
    BY DEF Good
  <2>4. QED
    BY <1>2, <2>1, <2>2, <2>3
<1>7. QED
  BY <1>1, <1>2, <1>3, <1>4, <1>5, <1>6 DEF Good

\* What was read stands when the ledger and the parts have grown.
LEMMA StandsOn ==
  ASSUME NEW led \in Seq(Transaction), NEW led2, NEW prt \in Seq(Part), NEW prt2, NEW q,
         Stands(q, led, prt),
         \A i \in DOMAIN led : i \in DOMAIN led2 /\ led2[i] = led[i],
         \A n \in DOMAIN prt : n \in DOMAIN prt2 /\ prt2[n].wo = prt[n].wo
  PROVE  Stands(q, led2, prt2)
BY DEF Stands

-----------------------------------------------------------------------------
\* A ledger and its parts grow: rows stay what they are, parts stay with their order.
Grown(led, led2, prt, prt2) ==
  /\ \A i \in DOMAIN led : i \in DOMAIN led2 /\ led2[i] = led[i]
  /\ \A n \in DOMAIN prt : n \in DOMAIN prt2 /\ prt2[n].wo = prt[n].wo

\* What a request posts at its commit: rows with the keys and, where a part comes with it, the id
\* that it has inserted.
Posts(r) ==
  \/ ledger' = ledger
  \/ /\ Pending(r)
     /\ \A i \in DOMAIN ledger' : i \notin DOMAIN ledger =>
          /\ ledger'[i].key \in Inserts(r) /\ ledger'[i].id <= drawn'
          /\ Listed(ledger'[i]) =>
               /\ ledger'[i].id = req[r].id /\ IssuesPart(r, ledger'[i].charge)
               /\ \A j \in DOMAIN ledger' : j # i => j \in DOMAIN ledger /\ j < i

\* A request that has ended has read nothing; the others still stand.
LEMMA EndOfARequest ==
  ASSUME Inv, NEW r \in Requests, Finish(r), UNCHANGED <<over, turns, crossed>>,
         drawn' \in Nat, drawn <= drawn', Posts(r),
         Good(ledger', part', onHand'), Grown(ledger, ledger', part, part')
  PROVE  Inv'
<1>1. /\ ledger \in Seq(Transaction) /\ part \in Seq(Part) /\ req \in [Requests -> Request]
      /\ \A s \in Requests : Stands(req[s], ledger, part)
      /\ drawn \in Nat
  BY DEF Inv, Good, IdsInOrder
<1>2. Idle \in Request /\ Idle.op = "idle" /\ Idle.id = 0
  BY DEF Idle, Request
<1>3. req' \in [Requests -> Request] /\ req'[r] = Idle /\ \A s \in Requests : s # r => req'[s] = req[s]
  BY <1>1, <1>2 DEF Finish
<1>4. ASSUME NEW s \in Requests PROVE Stands(req'[s], ledger', part')
  <2>1. CASE s = r
    BY <1>2, <1>3, <2>1 DEF Stands
  <2>2. CASE s # r
    <3>1. Stands(req[s], ledger', part')
      BY <1>1, StandsOn DEF Grown
    <3>2. QED
      BY <1>3, <2>2, <3>1
  <2>3. QED
    BY <2>1, <2>2
<1>5. \A s \in Requests : req'[s].id > 0 => s # r /\ req'[s] = req[s] /\ Pending(s)
  BY <1>2, <1>3 DEF Pending
<1>6. \A i \in DOMAIN ledger : i \in DOMAIN ledger' /\ ledger'[i] = ledger[i]
  BY DEF Grown
<1>7. ASSUME NEW s \in Requests, req'[s].id > 0
      PROVE  Inserts(s)' \subseteq Inserts(s)
  BY <1>5, <1>6, <1>7 DEF Inserts, Posted, GiveBackKey, KeyOf
<1>8. KeysApart'
  <2> SUFFICES ASSUME NEW s \in Requests, req'[s].id > 0
               PROVE  /\ ~Posted(req[s].key)'
                      /\ \A t \in Requests : req'[t].id > 0 /\ Inserts(s)' \cap Inserts(t)' # {} => s = t
    BY DEF KeysApart, Pending
  <2>1. s # r /\ req'[s] = req[s] /\ Pending(s)
    BY <1>5
  <2>2. ~Posted(req[s].key) /\ req[s].key \in Inserts(s)
    BY <2>1 DEF Inv, KeysApart, Inserts
  <2>3. ASSUME NEW i \in DOMAIN ledger', ledger'[i].key = req[s].key PROVE FALSE
    <3>1. i \notin DOMAIN ledger
      BY <1>6, <2>2, <2>3 DEF Posted
    <3>2. Pending(r) /\ req[s].key \in Inserts(r)
      BY <2>3, <3>1 DEF Posts
    <3>3. Inserts(r) \cap Inserts(s) # {}
      BY <2>2, <3>2
    <3>4. QED
      BY <2>1, <3>2, <3>3 DEF Inv, KeysApart
  <2>4. ~Posted(req[s].key)'
    BY <2>1, <2>3 DEF Posted
  <2>5. ASSUME NEW t \in Requests, req'[t].id > 0, Inserts(s)' \cap Inserts(t)' # {} PROVE s = t
    <3>1. Inserts(s) \cap Inserts(t) # {}
      BY <1>7, <2>5
    <3>2. QED
      BY <1>5, <2>1, <2>5, <3>1 DEF Inv, KeysApart
  <2>6. QED
    BY <2>4, <2>5
<1>9. IdsInOrder'
  <2>1. IdsInOrder
    BY DEF Inv
  <2>2. ASSUME NEW i \in DOMAIN ledger' PROVE ledger'[i].id <= drawn'
    <3>1. CASE i \in DOMAIN ledger
      <4>1. ledger[i] \in Transaction
        BY <1>1, <3>1
      <4>2. ledger[i].id \in Nat /\ ledger[i].id <= drawn
        BY <2>1, <3>1, <4>1 DEF Transaction, IdsInOrder
      <4>3. QED
        BY <1>1, <1>6, <3>1, <4>2
    <3>2. CASE i \notin DOMAIN ledger
      BY <3>2 DEF Posts
    <3>3. QED
      BY <3>1, <3>2
  <2>3. ASSUME NEW s \in Requests PROVE req'[s].id <= drawn'
    <3>1. req'[s] = Idle \/ req'[s] = req[s]
      BY <1>3
    <3>2. req[s].id \in Nat /\ req[s].id <= drawn
      BY <1>1, <2>1 DEF Request, IdsInOrder
    <3>3. QED
      BY <1>1, <1>2, <3>1, <3>2
  <2>4. ASSUME NEW w \in WorkOrders \ crossed
        PROVE  \A i, j \in DOMAIN ledger' :
                 To(ledger'[i], w) /\ To(ledger'[j], w) /\ i < j => ledger'[i].id < ledger'[j].id
    <3> SUFFICES ASSUME NEW i \in DOMAIN ledger', NEW j \in DOMAIN ledger',
                        To(ledger'[i], w), To(ledger'[j], w), i < j
                 PROVE  ledger'[i].id < ledger'[j].id
      OBVIOUS
    <3>1. i \in Nat /\ j \in Nat
      BY DEF Good
    <3>2. i \in DOMAIN ledger
      <4>1. ASSUME i \notin DOMAIN ledger PROVE FALSE
        <5>1. \A k \in DOMAIN ledger' : k # i => k < i
          BY <1>6, <4>1 DEF Posts, To
        <5>2. j # i /\ ~(j < i)
          BY <3>1
        <5>3. QED
          BY <5>1, <5>2
      <4>2. QED
        BY <4>1
    <3>3. CASE j \in DOMAIN ledger
      BY <1>6, <2>1, <3>2, <3>3 DEF IdsInOrder
    <3>4. CASE j \notin DOMAIN ledger
      <4>1. Pending(r) /\ ledger'[j].id = req[r].id /\ IssuesPart(r, w)
        BY <1>6, <3>4 DEF Posts, To
      <4>2. ledger[i].id < req[r].id
        BY <1>6, <2>1, <3>2, <4>1 DEF IdsInOrder
      <4>3. QED
        BY <1>6, <3>2, <4>1, <4>2
    <3>5. QED
      BY <3>3, <3>4
  <2>5. ASSUME NEW w \in WorkOrders \ crossed, NEW s \in Requests, req'[s].id > 0, IssuesPart(s, w)'
        PROVE  /\ \A i \in DOMAIN ledger' : To(ledger'[i], w) => ledger'[i].id < req'[s].id
               /\ \A t \in Requests : req'[t].id > 0 /\ IssuesPart(t, w)' => s = t
    <3>1. s # r /\ req'[s] = req[s] /\ Pending(s) /\ IssuesPart(s, w)
      BY <1>5, <2>5 DEF IssuesPart
    <3>2. ASSUME NEW i \in DOMAIN ledger', To(ledger'[i], w) PROVE ledger'[i].id < req'[s].id
      <4>1. i \in DOMAIN ledger
        <5>1. ASSUME i \notin DOMAIN ledger PROVE FALSE
          <6>1. Pending(r) /\ IssuesPart(r, w)
            BY <1>6, <3>2, <5>1 DEF Posts, To
          <6>2. r = s
            BY <2>1, <3>1, <6>1 DEF IdsInOrder
          <6>3. QED
            BY <3>1, <6>2
        <5>2. QED
          BY <5>1
      <4>2. QED
        BY <1>6, <2>1, <3>1, <3>2, <4>1 DEF IdsInOrder
    <3>3. ASSUME NEW t \in Requests, req'[t].id > 0, IssuesPart(t, w)' PROVE s = t
      <4>1. Pending(t) /\ IssuesPart(t, w)
        BY <1>5, <3>3 DEF IssuesPart
      <4>2. QED
        BY <2>1, <3>1, <4>1 DEF IdsInOrder
    <3>4. QED
      BY <3>2, <3>3
  <2>6. QED
    BY <2>2, <2>3, <2>4, <2>5 DEF IdsInOrder, Pending
<1>10. QED
  BY <1>3, <1>4, <1>8, <1>9 DEF Inv

\* Requests change, and what is under way does not: rows inserted, keys and ids stay.
LEMMA NothingUnderWay ==
  ASSUME Inv, req' \in [Requests -> Request], UNCHANGED <<ledger, drawn, crossed>>,
         \A s \in Requests : req'[s] = req[s] \/ req'[s].id = 0
  PROVE  KeysApart' /\ IdsInOrder'
<1>1. KeysApart /\ IdsInOrder /\ drawn \in Nat
  BY DEF Inv, IdsInOrder
<1>2. \A s \in Requests : req'[s].id > 0 => req'[s] = req[s] /\ Pending(s)
  BY DEF Pending
<1>3. \A s \in Requests : req'[s].id > 0 => Inserts(s)' = Inserts(s)
  BY <1>2 DEF Inserts, Posted, GiveBackKey, KeyOf
<1>4. KeysApart'
  BY <1>1, <1>2, <1>3 DEF KeysApart, Pending, Posted
<1>5. \A s \in Requests : req'[s].id <= drawn
  BY <1>1 DEF IdsInOrder
<1>6. \A s \in Requests, w \in WorkOrders : req'[s].id > 0 /\ IssuesPart(s, w)' => IssuesPart(s, w)
  BY <1>2 DEF IssuesPart
<1>7. IdsInOrder'
  BY <1>1, <1>2, <1>5, <1>6 DEF IdsInOrder, Pending
<1>8. QED
  BY <1>4, <1>7

LEMMA StartOfARequest ==
  ASSUME Inv, NEW r \in Requests, NEW op \in Operations, NEW nonce \in Nonces \cup {None},
         NEW target \in Nat, NEW charge \in WorkOrders \cup Assets \cup {None}, NEW quantity \in Nat,
         NEW delta \in Int, NEW q,
         q = [op |-> op, key |-> KeyOf(op, nonce, target, quantity), target |-> target,
              charge |-> charge, quantity |-> quantity, delta |-> delta, id |-> 0],
         Begin(r, op, nonce, target, charge, quantity, delta), UNCHANGED turns,
         Stands(q, ledger, part)
  PROVE  Inv'
<1>1. KeyOf(op, nonce, target, quantity) \in Key
  BY DEF KeyOf, Key
<1>2. q \in Request /\ q.id = 0
  BY <1>1 DEF Request
<1>3. req' = [req EXCEPT ![r] = q] /\ UNCHANGED <<onHand, ledger, drawn, part, over, crossed>>
  BY DEF Begin
<1>4. req' \in [Requests -> Request] /\ \A s \in Requests : Stands(req'[s], ledger, part)
  BY <1>2, <1>3 DEF Inv
<1>5. \A s \in Requests : req'[s] = req[s] \/ req'[s].id = 0
  BY <1>2, <1>3 DEF Inv
<1>6. KeysApart' /\ IdsInOrder'
  BY <1>3, <1>4, <1>5, NothingUnderWay
<1>7. QED
  BY <1>3, <1>4, <1>6 DEF Inv

\* An id above all others goes to a request whose keys nobody else is about to post.
LEMMA InsertKeepsInv ==
  ASSUME Inv, NEW r \in Requests, Insert(r), UNCHANGED turns
  PROVE  Inv'
<1>1. /\ req \in [Requests -> Request] /\ drawn \in Nat /\ ledger \in Seq(Transaction)
      /\ KeysApart /\ IdsInOrder
  BY DEF Inv, Good, IdsInOrder
<1>a. PICK next \in Nat : next = drawn + 1
  BY <1>1
<1>2. PICK q : q = [req[r] EXCEPT !.id = next]
  OBVIOUS
<1>3. /\ q \in Request /\ q.id = next /\ q.op = req[r].op /\ q.key = req[r].key
      /\ q.target = req[r].target /\ q.charge = req[r].charge /\ q.delta = req[r].delta
  <2>1. req[r] \in Request
    BY <1>1
  <2>2. QED
    BY <1>2, <2>1 DEF Request
<1>4. /\ req' = [req EXCEPT ![r] = q] /\ drawn' = drawn + 1 /\ crossed' = crossed \cup Joined(r)
      /\ UNCHANGED <<onHand, ledger, part, over>>
      /\ req[r].id = 0 /\ ~Posted(req[r].key)
      /\ \A s \in Requests : req[s].id > 0 => Inserts(s) \cap Inserts(r) = {}
  BY <1>a, <1>2 DEF Insert
<1>5. req' \in [Requests -> Request] /\ req'[r] = q /\ \A s \in Requests : s # r => req'[s] = req[s]
  BY <1>1, <1>3, <1>4
<1>6. \A s \in Requests : Stands(req'[s], ledger, part)
  <2>1. Stands(q, ledger, part)
    BY <1>3 DEF Inv, Stands
  <2>2. QED
    BY <1>5, <2>1 DEF Inv
<1>7. \A s \in Requests : Inserts(s)' = Inserts(s) /\ Posted(req[s].key)' = Posted(req[s].key)
  <2>1. \A s \in Requests :
          req'[s].op = req[s].op /\ req'[s].key = req[s].key /\ req'[s].target = req[s].target
    BY <1>3, <1>5
  <2>2. QED
    BY <1>4, <2>1 DEF Inserts, Posted, GiveBackKey, KeyOf
<1>8. \A s \in Requests : req'[s].id > 0 => s = r \/ Pending(s)
  BY <1>5 DEF Pending
<1>9. KeysApart'
  <2>1. \A s \in Requests : req'[s].id > 0 => ~Posted(req[s].key)
    BY <1>1, <1>4, <1>8 DEF KeysApart
  <2>2. \A s, t \in Requests : req'[s].id > 0 /\ req'[t].id > 0 /\ Inserts(s) \cap Inserts(t) # {} => s = t
    BY <1>1, <1>4, <1>8 DEF KeysApart, Pending
  <2>3. QED
    BY <1>7, <2>1, <2>2 DEF KeysApart, Pending
<1>10. crossed' \subseteq WorkOrders
  BY <1>4 DEF Inv, Joined
<1>11. IdsInOrder'
  <2>1. \A i \in DOMAIN ledger : ledger[i].id \in Nat /\ ledger[i].id <= drawn
    <3>1. \A i \in DOMAIN ledger : ledger[i] \in Transaction
      BY <1>1
    <3>2. QED
      BY <1>1, <3>1 DEF IdsInOrder, Transaction
  <2>2. \A s \in Requests : req[s].id \in Nat /\ req[s].id <= drawn
    BY <1>1 DEF IdsInOrder, Request
  <2>3. /\ \A i \in DOMAIN ledger : ledger[i].id <= drawn + 1 /\ ledger[i].id < drawn + 1
        /\ \A s \in Requests : req'[s].id <= drawn + 1
    BY <1>1, <1>a, <1>3, <1>5, <2>1, <2>2
  <2>4. \A s \in Requests, w \in WorkOrders : IssuesPart(s, w)' <=> IssuesPart(s, w)
    BY <1>3, <1>5 DEF IssuesPart
  <2>5. ASSUME NEW w \in WorkOrders \ crossed', NEW s \in Requests, req'[s].id > 0, IssuesPart(s, w)
        PROVE  /\ \A i \in DOMAIN ledger : To(ledger[i], w) => ledger[i].id < req'[s].id
               /\ \A t \in Requests : req'[t].id > 0 /\ IssuesPart(t, w) => s = t
    <3>1. w \in WorkOrders \ crossed /\ w \notin Joined(r)
      BY <1>4, <2>5
    <3>2. \A t \in Requests : Pending(t) /\ IssuesPart(t, w) => ~IssuesPart(r, w)
      BY <3>1 DEF Joined, Pending
    <3>3. CASE s = r
      <4>1. \A t \in Requests : req'[t].id > 0 /\ IssuesPart(t, w) => s = t
        BY <1>8, <2>5, <3>2, <3>3
      <4>2. QED
        BY <1>a, <1>3, <1>5, <2>3, <3>3, <4>1
    <3>4. CASE s # r
      <4>1. Pending(s) /\ req'[s] = req[s]
        BY <1>5, <1>8, <2>5, <3>4
      <4>2. \A t \in Requests : req'[t].id > 0 /\ IssuesPart(t, w) => Pending(t)
        BY <1>8, <2>5, <3>2, <4>1
      <4>3. QED
        BY <1>1, <2>5, <3>1, <4>1, <4>2 DEF IdsInOrder
    <3>5. QED
      BY <3>3, <3>4
  <2>6. \A w \in WorkOrders \ crossed' : w \in WorkOrders \ crossed
    BY <1>4
  <2>7. drawn' \in Nat
    BY <1>1, <1>4
  <2>8. QED
    BY <1>1, <1>4, <2>3, <2>4, <2>5, <2>6, <2>7 DEF IdsInOrder, Pending
<1>12. QED
  BY <1>4, <1>5, <1>6, <1>9, <1>10, <1>11 DEF Inv

LEMMA ReadKeepsInv ==
  ASSUME Inv, NEW r \in Requests, Read(r), UNCHANGED turns
  PROVE  Inv'
<1>1. /\ ledger \in Seq(Transaction) /\ part \in Seq(Part) /\ onHand \in Int
      /\ Quantities \subseteq Nat
  BY StockAssumption DEF Inv, Good
<1>2. PICK nonce \in Nonces, q \in Quantities :
        \/ \E w \in WorkOrders : IssueRead(r, nonce, w, q)
        \/ \E a \in Assets : DirectRead(r, nonce, a, q)
        \/ \E n \in DOMAIN part : AmendRead(r, nonce, n, q)
        \/ \E n \in DOMAIN part : CancelRead(r, nonce, n)
        \/ \E i \in DOMAIN ledger : SupersedeRead(r, nonce, i, q)
        \/ \E i \in DOMAIN ledger : GiveBackRead(r, i)
        \/ \E count \in Quantities \cup {0} : AdjustRead(r, nonce, count)
        \/ \E n \in LegacyRows, charge \in WorkOrders \cup Assets : BackfillRead(r, n, charge, q)
  BY DEF Read
<1>3. q \in Nat /\ nonce \in Nonces \cup {None}
  BY <1>1
<1>a. PICK less \in Int : less = -q /\ -less = q /\ -less \in Nat
  BY <1>3
<1>4. ASSUME NEW w \in WorkOrders, IssueRead(r, nonce, w, q) PROVE Inv'
  <2>1. PICK x : x = [op |-> "issue", key |-> KeyOf("issue", nonce, 0, q), target |-> 0,
                      charge |-> w, quantity |-> q, delta |-> less, id |-> 0]
    OBVIOUS
  <2>2. Stands(x, ledger, part)
    BY <1>3, <1>a, <2>1 DEF Stands, KeyOf, Key, Operations
  <2>3. Begin(r, "issue", nonce, 0, w, q, less)
    BY <1>a, <1>4 DEF IssueRead
  <2>4. QED
    BY <1>3, <2>1, <2>2, <2>3, StartOfARequest DEF Operations
<1>5. ASSUME NEW a \in Assets, DirectRead(r, nonce, a, q) PROVE Inv'
  <2>1. PICK x : x = [op |-> "direct", key |-> KeyOf("direct", nonce, 0, q), target |-> 0,
                      charge |-> a, quantity |-> q, delta |-> less, id |-> 0]
    OBVIOUS
  <2>2. Stands(x, ledger, part)
    BY <1>3, <1>a, <2>1 DEF Stands, KeyOf, Key, Operations
  <2>3. Begin(r, "direct", nonce, 0, a, q, less)
    BY <1>a, <1>5 DEF DirectRead
  <2>4. QED
    BY <1>3, <2>1, <2>2, <2>3, StartOfARequest DEF Operations
<1>6. ASSUME NEW n \in DOMAIN part, AmendRead(r, nonce, n, q) PROVE Inv'
  <2>1. n \in Nat /\ part[n] \in Part
    BY <1>1
  <2>2. PICK delta \in Int : delta = -(q - part[n].quantity)
    BY <1>3, <2>1 DEF Part
  <2>3. PICK x : x = [op |-> "amend", key |-> KeyOf("amend", nonce, n, q), target |-> n,
                      charge |-> part[n].wo, quantity |-> q, delta |-> delta, id |-> 0]
    OBVIOUS
  <2>4. Stands(x, ledger, part)
    BY <1>3, <2>1, <2>3 DEF Stands, KeyOf, Key, Operations
  <2>5. Begin(r, "amend", nonce, n, part[n].wo, q, delta)
    BY <1>6, <2>2 DEF AmendRead
  <2>6. part[n].wo \in WorkOrders
    BY <2>1 DEF Part
  <2>7. QED
    BY <1>3, <2>1, <2>3, <2>4, <2>5, <2>6, StartOfARequest DEF Operations
<1>7. ASSUME NEW n \in DOMAIN part, CancelRead(r, nonce, n) PROVE Inv'
  <2>1. n \in Nat /\ part[n] \in Part
    BY <1>1
  <2>2. part[n].wo \in WorkOrders /\ part[n].quantity \in Int
    BY <2>1 DEF Part
  <2>3. PICK x : x = [op |-> "cancel", key |-> KeyOf("cancel", nonce, n, 0), target |-> n,
                      charge |-> part[n].wo, quantity |-> 0, delta |-> part[n].quantity, id |-> 0]
    OBVIOUS
  <2>4. Stands(x, ledger, part)
    BY <1>3, <2>1, <2>3 DEF Stands, KeyOf, Key, Operations
  <2>5. Begin(r, "cancel", nonce, n, part[n].wo, 0, part[n].quantity)
    BY <1>7 DEF CancelRead
  <2>6. QED
    BY <1>3, <2>1, <2>2, <2>3, <2>4, <2>5, StartOfARequest DEF Operations
<1>8. ASSUME NEW i \in DOMAIN ledger, SupersedeRead(r, nonce, i, q) PROVE Inv'
  <2>1. i \in Nat /\ ledger[i] \in Transaction
    BY <1>1
  <2>2. ledger[i].charge \in Assets /\ IsDirect(ledger[i])
    BY <1>8 DEF SupersedeRead, DirectIssue, IsDirect
  <2>3. PICK x : x = [op |-> "supersede", key |-> KeyOf("supersede", nonce, i, q), target |-> i,
                      charge |-> ledger[i].charge, quantity |-> q, delta |-> less, id |-> 0]
    OBVIOUS
  <2>4. Stands(x, ledger, part)
    BY <1>3, <2>1, <2>2, <2>3 DEF Stands, KeyOf, Key, Operations
  <2>5. Begin(r, "supersede", nonce, i, ledger[i].charge, q, less)
    BY <1>a, <1>8 DEF SupersedeRead
  <2>6. QED
    BY <1>3, <2>1, <2>2, <2>3, <2>4, <2>5, StartOfARequest DEF Operations
<1>9. ASSUME NEW i \in DOMAIN ledger, GiveBackRead(r, i) PROVE Inv'
  <2>1. i \in Nat /\ ledger[i] \in Transaction
    BY <1>1
  <2>2. ledger[i].charge \in Assets /\ IsDirect(ledger[i])
    BY <1>9 DEF GiveBackRead, DirectIssue, IsDirect
  <2>3. PICK delta \in Int : delta = -ledger[i].delta
    BY <2>1 DEF Transaction
  <2>4. PICK x : x = [op |-> "unissue", key |-> KeyOf("unissue", None, i, 0), target |-> i,
                      charge |-> ledger[i].charge, quantity |-> 0, delta |-> delta, id |-> 0]
    OBVIOUS
  <2>5. Stands(x, ledger, part)
    BY <2>1, <2>2, <2>3, <2>4 DEF Stands, KeyOf, Key, Operations, GiveBackKey
  <2>6. Begin(r, "unissue", None, i, ledger[i].charge, 0, delta)
    BY <1>9, <2>3 DEF GiveBackRead
  <2>7. QED
    BY <2>1, <2>2, <2>4, <2>5, <2>6, StartOfARequest DEF Operations
<1>10. ASSUME NEW count \in Quantities \cup {0}, AdjustRead(r, nonce, count) PROVE Inv'
  <2>1. PICK delta \in Int : delta = count - onHand
    BY <1>1
  <2>2. PICK x : x = [op |-> "adjust", key |-> KeyOf("adjust", nonce, 0, count), target |-> 0,
                      charge |-> None, quantity |-> count, delta |-> delta, id |-> 0]
    OBVIOUS
  <2>3. count \in Nat
    BY <1>1
  <2>4. Stands(x, ledger, part)
    BY <1>3, <2>2, <2>3 DEF Stands, KeyOf, Key, Operations
  <2>5. Begin(r, "adjust", nonce, 0, None, count, delta)
    BY <1>10, <2>1 DEF AdjustRead
  <2>6. QED
    BY <1>3, <2>2, <2>3, <2>4, <2>5, StartOfARequest DEF Operations
<1>11. ASSUME NEW n \in LegacyRows, NEW charge \in WorkOrders \cup Assets, BackfillRead(r, n, charge, q)
       PROVE  Inv'
  <2>1. PICK x : x = [op |-> "backfill", key |-> KeyOf("backfill", None, n, 0), target |-> n,
                      charge |-> charge, quantity |-> 0, delta |-> less, id |-> 0]
    OBVIOUS
  <2>2. n \in Nat /\ charge \in WorkOrders \cup Assets \cup {None} /\ None \in Nonces \cup {None}
    BY StockAssumption
  <2>3. Stands(x, ledger, part)
    BY <1>a, <2>1, <2>2 DEF Stands, KeyOf, Key, Operations
  <2>4. Begin(r, "backfill", None, n, charge, 0, less)
    BY <1>a, <1>11 DEF BackfillRead
  <2>5. QED
    BY <2>1, <2>2, <2>3, <2>4, StartOfARequest DEF Operations
<1>12. QED
  BY <1>2, <1>4, <1>5, <1>6, <1>7, <1>8, <1>9, <1>10, <1>11

-----------------------------------------------------------------------------
LEMMA MovedAlone ==
  ASSUME NEW x \in Transaction, NEW y \in Transaction
  PROVE  /\ Moved(<<x>>, Anywhere) = Share(x, Anywhere)
         /\ Moved(<<x, y>>, Anywhere) = Share(x, Anywhere) + Share(y, Anywhere)
         /\ Share(x, Anywhere) \in Int /\ Share(y, Anywhere) \in Int
<1>1. PICK none : none = <<>> /\ none \in Seq(Transaction)
  <2>1. <<>> \in Seq(Transaction)
    OBVIOUS
  <2>2. QED
    BY <2>1
<1>2. PICK one : one \in Seq(Transaction) /\ one = <<x>> /\ one = Append(none, x) /\ <<x, y>> = Append(one, y)
  <2>1. <<x>> \in Seq(Transaction)
    OBVIOUS
  <2>2. <<x>> = Append(none, x)
    BY <1>1
  <2>3. <<x, y>> = Append(<<x>>, y)
    OBVIOUS
  <2>4. QED
    BY <2>1, <2>2, <2>3
<1>3. Share(x, Anywhere) \in Int /\ Share(y, Anywhere) \in Int
  BY DEF Share, Transaction
<1>4. Moved(none, Anywhere) = 0
  <2>1. [i \in DOMAIN none |-> Share(none[i], Anywhere)] = <<>>
    BY <1>1
  <2>2. QED
    BY <2>1, SumOfNothing DEF Moved
<1>5. Moved(one, Anywhere) = 0 + Share(x, Anywhere)
  <2>1. Moved(Append(none, x), Anywhere) = Moved(none, Anywhere) + Share(x, Anywhere)
    BY <1>1, MovedByOneMore
  <2>2. QED
    BY <1>2, <1>4, <2>1
<1>6. Moved(<<x, y>>, Anywhere) = Moved(one, Anywhere) + Share(y, Anywhere)
  <2>1. Moved(Append(one, y), Anywhere) = Moved(one, Anywhere) + Share(y, Anywhere)
    BY <1>2, MovedByOneMore
  <2>2. QED
    BY <1>2, <2>1
<1>7. Moved(<<x>>, Anywhere) = Share(x, Anywhere)
  BY <1>2, <1>3, <1>5
<1>8. Moved(<<x, y>>, Anywhere) = Share(x, Anywhere) + Share(y, Anywhere)
  BY <1>2, <1>3, <1>6, <1>7
<1>9. QED
  BY <1>3, <1>7, <1>8

\* The parts follow a row: a listed one comes with its part.
Follows(led, x, prt, prt2) ==
  \/ /\ Listed(x)
     /\ \E p \in Part : prt2 = Append(prt, p) /\ p.wo = x.charge /\ p.posted = Len(led) + 1
  \/ /\ ~Listed(x) /\ prt2 \in Seq(Part) /\ Len(prt2) = Len(prt)
     /\ \A n \in DOMAIN prt : prt2[n].wo = prt[n].wo /\ prt2[n].posted = prt[n].posted

LEMMA GrowsByOne ==
  ASSUME NEW led \in Seq(Transaction), NEW x \in Transaction, NEW prt \in Seq(Part), NEW prt2,
         Follows(led, x, prt, prt2)
  PROVE  Grown(led, Append(led, x), prt, prt2)
<1>1. \A i \in DOMAIN led : i \in DOMAIN Append(led, x) /\ Append(led, x)[i] = led[i]
  BY AppendGrows
<1>2. \A n \in DOMAIN prt : n \in DOMAIN prt2 /\ prt2[n].wo = prt[n].wo
  <2>1. CASE Listed(x)
    <3>1. PICK p \in Part : prt2 = Append(prt, p)
      BY <2>1 DEF Follows
    <3>2. QED
      BY <3>1, AppendGrows
  <2>2. CASE ~Listed(x)
    BY <2>2 DEF Follows
  <2>3. QED
    BY <2>1, <2>2
<1>3. QED
  BY <1>1, <1>2 DEF Grown

\* A row of a request under way.
LEMMA RowOfARequest ==
  ASSUME Inv, NEW r \in Requests, Pending(r), NEW kind \in {"ISSUE", "RETURN", "ADJUST"},
         NEW delta \in Int, NEW key \in Key, NEW x, x = Row(r, kind, delta, key)
  PROVE  /\ x \in Transaction /\ x.kind = kind /\ x.delta = delta /\ x.key = key
         /\ x.charge = req[r].charge /\ x.id = req[r].id /\ x.id <= drawn
         /\ x.moves <=> req[r].op # "backfill"
<1>1. req[r] \in Request /\ req[r].id <= drawn
  BY DEF Inv, IdsInOrder
<1>2. req[r].id \in Nat /\ req[r].charge \in WorkOrders \cup Assets \cup {None}
  BY <1>1 DEF Request
<1>3. QED
  BY <1>1, <1>2 DEF Row, Transaction

\* The key of a request under way is free.
LEMMA KeyIsFree ==
  ASSUME Inv, NEW r \in Requests, Pending(r)
  PROVE  /\ req[r] \in Request /\ Stands(req[r], ledger, part)
         /\ req[r].op # "idle" => req[r].key \in Inserts(r) /\ req[r].key \in Key /\ req[r].key.op = req[r].op
         /\ \A key \in Inserts(r) : ~Posted(key)
BY DEF Inv, KeysApart, Inserts, Stands

\* The commit of one row.
LEMMA OnePosted ==
  ASSUME Inv, NEW r \in Requests, Pending(r), NEW x \in Transaction, Post(<<x>>), drawn' = drawn,
         x.key \in Inserts(r), x.id = req[r].id, Listed(x) => IssuesPart(r, x.charge),
         x.kind = "RETURN" /\ x.charge \in Assets => GivesBack(ledger, x),
         Follows(ledger, x, part, part')
  PROVE  Good(ledger', part', onHand') /\ Grown(ledger, ledger', part, part') /\ Posts(r)
<1>1. /\ Good(ledger, part, onHand) /\ ledger \in Seq(Transaction) /\ part \in Seq(Part)
      /\ req[r].id <= drawn
  BY DEF Inv, Good, IdsInOrder
<1>2. ledger' = Append(ledger, x) /\ onHand' = onHand + Share(x, Anywhere)
  <2>1. ledger' = ledger \o <<x>> /\ onHand' = onHand + Moved(<<x>>, Anywhere)
    BY DEF Post
  <2>2. ledger \o <<x>> = Append(ledger, x)
    BY <1>1
  <2>3. QED
    BY <2>1, <2>2, MovedAlone
<1>3. \A i \in DOMAIN ledger : ledger[i].key # x.key
  BY KeyIsFree DEF Posted
<1>4. PICK prt : prt = part'
  OBVIOUS
<1>5. Follows(ledger, x, part, prt)
  BY <1>4
<1>6. Good(Append(ledger, x), prt, onHand + Share(x, Anywhere))
  BY <1>1, <1>3, <1>5, OneMore DEF Follows
<1>7. Grown(ledger, Append(ledger, x), part, prt)
  BY <1>1, <1>5, GrowsByOne
<1>8. Posts(r)
  <2>1. PICK led : led = ledger'
    OBVIOUS
  <2>2. /\ \A i \in DOMAIN led : i \in DOMAIN ledger \/ i = Len(ledger) + 1
        /\ \A i \in DOMAIN ledger : i < Len(ledger) + 1
        /\ led[Len(ledger) + 1] = x
    BY <1>1, <1>2, <2>1, AppendGrows
  <2>3. QED
    BY <1>1, <2>1, <2>2 DEF Posts
<1>9. QED
  BY <1>2, <1>4, <1>6, <1>7, <1>8

\* The commit of two rows, none of which is listed.
LEMMA TwoPosted ==
  ASSUME Inv, NEW r \in Requests, Pending(r), NEW x \in Transaction, NEW y \in Transaction,
         Post(<<x, y>>), part' = part,
         x.key \in Inserts(r), y.key \in Inserts(r), x.id <= drawn', y.id <= drawn',
         x.key # y.key, ~Listed(x), ~Listed(y),
         x.kind = "RETURN" /\ x.charge \in Assets => GivesBack(ledger, x),
         y.kind # "RETURN"
  PROVE  Good(ledger', part', onHand') /\ Grown(ledger, ledger', part, part') /\ Posts(r)
<1>1. Good(ledger, part, onHand) /\ ledger \in Seq(Transaction) /\ part \in Seq(Part) /\ onHand \in Int
  BY DEF Inv, Good
<1>2. PICK led : led = Append(ledger, x) /\ led \in Seq(Transaction)
  BY <1>1, AppendGrows
<1>3. PICK hand : hand = onHand + Share(x, Anywhere)
  OBVIOUS
<1>4. ledger' = Append(led, y) /\ onHand' = hand + Share(y, Anywhere)
  <2>1. ledger' = ledger \o <<x, y>> /\ onHand' = onHand + Moved(<<x, y>>, Anywhere)
    BY DEF Post
  <2>2. ledger \o <<x, y>> = Append(led, y)
    BY <1>1, <1>2
  <2>3. onHand' = onHand + (Share(x, Anywhere) + Share(y, Anywhere))
    BY <2>1, MovedAlone
  <2>4. Share(x, Anywhere) \in Int /\ Share(y, Anywhere) \in Int
    BY MovedAlone
  <2>5. \A a, b, c \in Int : a + (b + c) = (a + b) + c
    OBVIOUS
  <2>6. onHand + (Share(x, Anywhere) + Share(y, Anywhere)) = (onHand + Share(x, Anywhere)) + Share(y, Anywhere)
    BY <1>1, <2>4, <2>5
  <2>7. QED
    BY <1>3, <2>1, <2>2, <2>3, <2>6
<1>5. \A i \in DOMAIN ledger : ledger[i].key # x.key /\ ledger[i].key # y.key
  BY KeyIsFree DEF Posted
<1>6. Follows(ledger, x, part, part) /\ Follows(led, y, part, part)
  BY <1>1 DEF Follows
<1>7. Good(led, part, hand)
  BY <1>1, <1>2, <1>3, <1>5, <1>6, OneMore DEF Follows
<1>8. \A i \in DOMAIN led : led[i].key # y.key
  BY <1>1, <1>2, <1>5, AppendGrows
<1>9. Good(Append(led, y), part, hand + Share(y, Anywhere))
  BY <1>6, <1>7, <1>8, OneMore DEF Follows
<1>10. Grown(ledger, led, part, part) /\ Grown(led, Append(led, y), part, part)
  BY <1>1, <1>2, <1>6, GrowsByOne
<1>11. Grown(ledger, Append(led, y), part, part)
  BY <1>10 DEF Grown
<1>12. Posts(r)
  <2>1. PICK all : all = Append(led, y)
    OBVIOUS
  <2>2. \A i \in DOMAIN all : i \in DOMAIN ledger \/ all[i] = x \/ all[i] = y
    <3>1. \A i \in DOMAIN all : (i \in DOMAIN led /\ all[i] = led[i]) \/ all[i] = y
      BY <1>2, <2>1, AppendGrows
    <3>2. \A i \in DOMAIN led : i \in DOMAIN ledger \/ led[i] = x
      BY <1>1, <1>2, AppendGrows
    <3>3. QED
      BY <3>1, <3>2
  <2>3. \A i \in DOMAIN all : i \notin DOMAIN ledger =>
          all[i].key \in Inserts(r) /\ all[i].id <= drawn' /\ ~Listed(all[i])
    BY <2>2
  <2>4. QED
    BY <1>4, <2>1, <2>3 DEF Posts
<1>13. QED
  BY <1>4, <1>9, <1>11, <1>12

-----------------------------------------------------------------------------
LEMMA IssueKeepsInv ==
  ASSUME Inv, NEW r \in Requests, Issue(r), UNCHANGED turns
  PROVE  Inv'
<1>1. PICK q : q = req[r]
  OBVIOUS
<1>2. /\ part \in Seq(Part) /\ Len(ledger) \in Nat /\ drawn \in Nat
      /\ q.op \in {"issue", "direct", "backfill"} /\ Pending(r)
  BY <1>1 DEF Inv, Good, Issue, Pending, IdsInOrder
<1>3. PICK x : x = Row(r, "ISSUE", q.delta, q.key)
  OBVIOUS
<1>4. /\ q \in Request /\ q.key \in Inserts(r) /\ q.key \in Key /\ q.key.op = q.op /\ -q.delta \in Nat
      /\ q.op = "issue" => q.charge \in WorkOrders
      /\ q.op = "direct" => q.charge \in Assets
      /\ q.op = "backfill" => q.charge \in WorkOrders \cup Assets
  BY <1>1, <1>2, KeyIsFree DEF Stands
<1>5. x \in Transaction /\ x.kind = "ISSUE" /\ x.key = q.key /\ x.charge = q.charge /\ x.id = q.id
  BY <1>1, <1>2, <1>3, <1>4, RowOfARequest DEF Request
<1>6. Post(<<x>>) /\ Finish(r) /\ UNCHANGED <<drawn, over, crossed>>
  BY <1>1, <1>3 DEF Issue
<1>7. Follows(ledger, x, part, part')
  <2>1. CASE q.charge \in Assets
    <3>1. part' = part
      BY <1>1, <2>1 DEF Issue
    <3>2. ~Listed(x)
      BY <1>5, <2>1, StockAssumption DEF Listed
    <3>3. QED
      BY <1>2, <3>1, <3>2 DEF Follows
  <2>2. CASE q.charge \notin Assets
    <3>1. PICK p : p = [wo |-> q.charge, quantity |-> -q.delta, deleted |-> FALSE,
                        backfill |-> q.op = "backfill", posted |-> Len(ledger) + 1]
      OBVIOUS
    <3>2. p \in Part /\ p.wo = x.charge /\ p.posted = Len(ledger) + 1
      BY <1>2, <1>4, <1>5, <2>2, <3>1 DEF Part
    <3>3. part' = Append(part, p)
      BY <1>1, <2>2, <3>1 DEF Issue
    <3>4. Listed(x)
      BY <1>2, <1>4, <1>5, <2>2 DEF Listed
    <3>5. QED
      BY <3>2, <3>3, <3>4 DEF Follows
  <2>3. QED
    BY <2>1, <2>2
<1>8. Listed(x) => IssuesPart(r, x.charge)
  BY <1>1, <1>2, <1>4, <1>5, StockAssumption DEF Listed, IssuesPart
<1>9. Good(ledger', part', onHand') /\ Grown(ledger, ledger', part, part') /\ Posts(r)
  BY <1>1, <1>2, <1>4, <1>5, <1>6, <1>7, <1>8, OnePosted
<1>10. QED
  BY <1>2, <1>6, <1>9, EndOfARequest

LEMMA AmendKeepsInv ==
  ASSUME Inv, NEW r \in Requests, Amend(r) \/ Cancel(r), UNCHANGED turns
  PROVE  Inv'
<1>1. PICK q : q = req[r]
  OBVIOUS
<1>2. /\ part \in Seq(Part) /\ drawn \in Nat
      /\ q.op \in {"amend", "cancel"} /\ Pending(r)
  BY <1>1 DEF Inv, Good, Amend, Cancel, Pending, IdsInOrder
<1>3. /\ q \in Request /\ q.key \in Inserts(r) /\ q.key \in Key /\ q.key.op = q.op
      /\ q.target \in DOMAIN part /\ q.charge = part[q.target].wo
  BY <1>1, <1>2, KeyIsFree DEF Stands
<1>4. PICK kind : kind = IF q.op = "amend" /\ q.delta < 0 THEN "ISSUE" ELSE "RETURN"
  OBVIOUS
<1>5. PICK x : x = Row(r, kind, q.delta, q.key)
  OBVIOUS
<1>6. part[q.target] \in Part /\ q.charge \in WorkOrders /\ q.charge \notin Assets
  <2>1. part[q.target] \in Part
    BY <1>2, <1>3
  <2>2. QED
    BY <1>3, <2>1, StockAssumption DEF Part
<1>7. /\ x \in Transaction /\ x.key = q.key /\ x.charge = q.charge /\ x.id = q.id
      /\ x.kind = "ISSUE" => q.op = "amend"
  <2>1. kind \in {"ISSUE", "RETURN", "ADJUST"} /\ q.delta \in Int
    BY <1>3, <1>4 DEF Request
  <2>2. QED
    BY <1>1, <1>2, <1>3, <1>4, <1>5, <2>1, RowOfARequest
<1>8. Post(<<x>>) /\ Finish(r) /\ UNCHANGED <<drawn, over, crossed>>
  BY <1>1, <1>2, <1>4, <1>5 DEF Amend, Cancel
<1>9. PICK p : /\ p = IF q.op = "amend" THEN [part[q.target] EXCEPT !.quantity = q.quantity]
                                      ELSE [part[q.target] EXCEPT !.deleted = TRUE]
  OBVIOUS
<1>10. p \in Part /\ p.wo = part[q.target].wo /\ p.posted = part[q.target].posted
  BY <1>3, <1>6, <1>9 DEF Part, Request
<1>11. part' = [part EXCEPT ![q.target] = p]
  BY <1>1, <1>2, <1>3, <1>9 DEF Amend, Cancel
<1>12. ~Listed(x)
  BY <1>2, <1>3, <1>7 DEF Listed
<1>13. Follows(ledger, x, part, part')
  <2>1. /\ part' \in Seq(Part) /\ Len(part') = Len(part)
        /\ \A n \in DOMAIN part : part'[n].wo = part[n].wo /\ part'[n].posted = part[n].posted
    BY <1>2, <1>3, <1>10, <1>11
  <2>2. QED
    BY <1>12, <2>1 DEF Follows
<1>14. Good(ledger', part', onHand') /\ Grown(ledger, ledger', part, part') /\ Posts(r)
  BY <1>1, <1>2, <1>3, <1>6, <1>7, <1>8, <1>12, <1>13, OnePosted
<1>15. QED
  BY <1>2, <1>8, <1>14, EndOfARequest

LEMMA AdjustKeepsInv ==
  ASSUME Inv, NEW r \in Requests, Adjust(r), UNCHANGED turns
  PROVE  Inv'
<1>1. PICK q : q = req[r]
  OBVIOUS
<1>2. part \in Seq(Part) /\ q.op = "adjust" /\ Pending(r) /\ drawn \in Nat
  BY <1>1 DEF Inv, Good, Adjust, Pending, IdsInOrder
<1>3. q \in Request /\ q.key \in Inserts(r) /\ q.key \in Key
  BY <1>1, <1>2, KeyIsFree
<1>4. PICK x : x = Row(r, "ADJUST", q.delta, q.key)
  OBVIOUS
<1>5. x \in Transaction /\ x.key = q.key /\ x.kind = "ADJUST" /\ x.id = q.id
  BY <1>1, <1>2, <1>3, <1>4, RowOfARequest DEF Request
<1>6. Post(<<x>>) /\ Finish(r) /\ UNCHANGED <<drawn, part, over, crossed>>
  BY <1>1, <1>4 DEF Adjust
<1>7. Follows(ledger, x, part, part') /\ ~Listed(x)
  BY <1>2, <1>5, <1>6 DEF Follows, Listed
<1>8. Good(ledger', part', onHand') /\ Grown(ledger, ledger', part, part') /\ Posts(r)
  BY <1>1, <1>2, <1>3, <1>5, <1>6, <1>7, OnePosted
<1>9. QED
  BY <1>2, <1>6, <1>8, EndOfARequest

LEMMA GiveBackKeepsInv ==
  ASSUME Inv, NEW r \in Requests, GiveBack(r), UNCHANGED turns
  PROVE  Inv'
<1>1. PICK q : q = req[r]
  OBVIOUS
<1>2. part \in Seq(Part) /\ ledger \in Seq(Transaction) /\ q.op = "unissue" /\ Pending(r) /\ drawn \in Nat
  BY <1>1 DEF Inv, Good, GiveBack, Pending, IdsInOrder
<1>a. q \in Request /\ q.key \in Inserts(r) /\ q.key \in Key /\ Stands(q, ledger, part)
  BY <1>1, <1>2, KeyIsFree
<1>3. /\ q.key.target = q.target /\ q.target \in DOMAIN ledger /\ IsDirect(ledger[q.target])
      /\ q.charge = ledger[q.target].charge /\ q.key = GiveBackKey(q.target)
  BY <1>2, <1>a DEF Stands
<1>b. q.delta \in Int /\ ledger[q.target].delta \in Int
  <2>1. ledger[q.target] \in Transaction
    BY <1>2, <1>3
  <2>2. QED
    BY <1>a, <2>1 DEF Transaction, Request
<1>4. PICK x : x = Row(r, "RETURN", q.delta, q.key)
  OBVIOUS
<1>5. /\ x \in Transaction /\ x.key = q.key /\ x.kind = "RETURN" /\ x.charge = q.charge
      /\ x.delta = q.delta /\ x.id = q.id
  BY <1>1, <1>2, <1>a, <1>b, <1>4, RowOfARequest
<1>6. Post(<<x>>) /\ Finish(r) /\ UNCHANGED <<drawn, part, over, crossed>>
  BY <1>1, <1>4 DEF GiveBack
<1>7. Follows(ledger, x, part, part') /\ ~Listed(x)
  BY <1>2, <1>5, <1>6 DEF Follows, Listed
<1>8. GivesBack(ledger, x)
  <2>1. q.delta = -ledger[q.target].delta
    BY <1>2, <1>a DEF Stands
  <2>2. ledger[q.target].delta = -x.delta
    BY <1>b, <1>5, <2>1
  <2>3. QED
    BY <1>3, <1>5, <2>2 DEF GivesBack
<1>9. Good(ledger', part', onHand') /\ Grown(ledger, ledger', part, part') /\ Posts(r)
  BY <1>1, <1>2, <1>a, <1>5, <1>6, <1>7, <1>8, OnePosted
<1>10. drawn' \in Nat /\ drawn <= drawn'
  BY <1>2, <1>6
<1>11. QED
  BY <1>6, <1>9, <1>10, EndOfARequest

\* The two rows of an amended direct issue.
LEMMA SupersedeKeepsInv ==
  ASSUME Inv, NEW r \in Requests, Supersede(r), UNCHANGED turns
  PROVE  Inv'
<1>1. PICK q : q = req[r]
  OBVIOUS
<1>2. part \in Seq(Part) /\ ledger \in Seq(Transaction) /\ q.op = "supersede" /\ Pending(r) /\ drawn \in Nat
  BY <1>1 DEF Inv, Good, Supersede, Pending, IdsInOrder
<1>3. /\ q \in Request /\ q.key \in Inserts(r) /\ q.key \in Key /\ q.key.op = "supersede" /\ q.target \in Nat
      /\ q.target \in DOMAIN ledger /\ IsDirect(ledger[q.target]) /\ q.charge = ledger[q.target].charge
      /\ q.delta \in Int
  BY <1>1, <1>2, KeyIsFree DEF Stands, Request
<1>4. q.charge \in Assets /\ q.charge \notin WorkOrders /\ ledger[q.target].delta \in Int
  <2>1. ledger[q.target] \in Transaction
    BY <1>2, <1>3
  <2>2. ledger[q.target].delta \in Int
    BY <2>1 DEF Transaction
  <2>3. QED
    BY <1>3, <2>2, StockAssumption DEF IsDirect
<1>5. GiveBackKey(q.target) \in Key /\ GiveBackKey(q.target).op = "unissue"
      /\ GiveBackKey(q.target).target = q.target
  BY <1>3 DEF GiveBackKey, KeyOf, Key, Operations
<1>6. PICK back \in Int : back = -ledger[q.target].delta
  BY <1>4
<1>7. PICK x, y, z : /\ x = Row(r, "RETURN", back, GiveBackKey(q.target)) /\ y = Row(r, "ISSUE", q.delta, q.key)
                     /\ z = [y EXCEPT !.id = drawn + 1]
  OBVIOUS
<1>8. /\ x \in Transaction /\ x.key = GiveBackKey(q.target) /\ x.kind = "RETURN" /\ x.charge = q.charge
      /\ x.delta = back /\ x.id <= drawn
  BY <1>1, <1>2, <1>5, <1>6, <1>7, RowOfARequest
<1>9. y \in Transaction /\ y.key = q.key /\ y.kind = "ISSUE" /\ y.charge = q.charge /\ y.id = q.id
  BY <1>1, <1>2, <1>3, <1>7, RowOfARequest
<1>10. z \in Transaction /\ z.key = q.key /\ z.kind = "ISSUE" /\ z.charge = q.charge /\ z.id = drawn + 1
  BY <1>2, <1>7, <1>9 DEF Transaction
<1>11. ~Listed(x) /\ ~Listed(y) /\ ~Listed(z) /\ x.key # z.key
  BY <1>3, <1>4, <1>5, <1>8, <1>9, <1>10 DEF Listed
<1>12. GivesBack(ledger, x)
  <2>1. ledger[q.target].delta = -x.delta
    BY <1>4, <1>6, <1>8
  <2>2. QED
    BY <1>3, <1>5, <1>8, <2>1 DEF GivesBack
<1>13. Finish(r) /\ UNCHANGED <<part, over, crossed>>
  BY DEF Supersede
<1>14. CASE Posted(GiveBackKey(q.target))
  <2>1. Post(<<y>>) /\ UNCHANGED drawn
    BY <1>1, <1>7, <1>14 DEF Supersede
  <2>2. Follows(ledger, y, part, part')
    BY <1>2, <1>11, <1>13 DEF Follows
  <2>3. Good(ledger', part', onHand') /\ Grown(ledger, ledger', part, part') /\ Posts(r)
    BY <1>1, <1>2, <1>3, <1>9, <1>11, <2>1, <2>2, OnePosted
  <2>4. QED
    BY <1>2, <1>13, <2>1, <2>3, EndOfARequest
<1>15. CASE ~Posted(GiveBackKey(q.target))
  <2>1. Post(<<x, z>>) /\ drawn' = drawn + 1
    BY <1>1, <1>6, <1>7, <1>15 DEF Supersede
  <2>2. GiveBackKey(q.target) \in Inserts(r)
    BY <1>1, <1>2, <1>15 DEF Inserts
  <2>3. x.id <= drawn' /\ z.id <= drawn' /\ drawn' \in Nat /\ drawn <= drawn'
    <3>1. x.id \in Nat
      BY <1>8 DEF Transaction
    <3>2. QED
      BY <1>2, <1>8, <1>10, <2>1, <3>1
  <2>4. Good(ledger', part', onHand') /\ Grown(ledger, ledger', part, part') /\ Posts(r)
    BY <1>2, <1>3, <1>8, <1>10, <1>11, <1>12, <1>13, <2>1, <2>2, <2>3, TwoPosted
  <2>5. QED
    BY <1>13, <2>3, <2>4, EndOfARequest
<1>16. QED
  BY <1>14, <1>15

-----------------------------------------------------------------------------
LEMMA NextKeepsInv ==
  Inv /\ [Next]_vars => Inv'
<1> SUFFICES ASSUME Inv, [Next]_vars PROVE Inv'
  OBVIOUS
<1>1. ASSUME NEW r \in Requests, Commit(r), UNCHANGED turns
      PROVE  Inv'
  <2>1. CASE AlreadyPosted(r)
    <3>1. Finish(r) /\ UNCHANGED <<onHand, ledger, drawn, part, over, crossed>>
      BY <2>1 DEF AlreadyPosted
    <3>2. Good(ledger', part', onHand') /\ Grown(ledger, ledger', part, part') /\ Posts(r)
      BY <3>1 DEF Inv, Grown, Posts
    <3>3. drawn' \in Nat /\ drawn <= drawn'
      BY <3>1 DEF Inv, IdsInOrder
    <3>4. QED
      BY <1>1, <3>1, <3>2, <3>3, EndOfARequest
  <2>2. QED
    BY <1>1, <2>1, InsertKeepsInv, IssueKeepsInv, AmendKeepsInv, SupersedeKeepsInv, GiveBackKeepsInv,
       AdjustKeepsInv DEF Commit
<1>2. ASSUME Start, UNCHANGED turns
      PROVE  Inv'
  <2>1. ASSUME NEW w \in WorkOrders, End(w)
        PROVE  Inv'
    <3>1. over' \subseteq WorkOrders /\ UNCHANGED <<onHand, ledger, drawn, part, req, crossed>>
      BY <2>1 DEF Inv, End
    <3>2. req' \in [Requests -> Request] /\ \A s \in Requests : req'[s] = req[s] \/ req'[s].id = 0
      BY <3>1 DEF Inv
    <3>3. KeysApart' /\ IdsInOrder'
      BY <3>1, <3>2, NothingUnderWay
    <3>4. QED
      BY <1>2, <3>1, <3>3 DEF Inv
  <2>2. QED
    BY <1>2, <2>1, ReadKeepsInv DEF Start
<1>3. CASE UNCHANGED vars
  <2>1. UNCHANGED <<onHand, ledger, drawn, part, over, req, crossed, turns>>
    BY <1>3 DEF vars
  <2>2. req' \in [Requests -> Request] /\ \A s \in Requests : req'[s] = req[s] \/ req'[s].id = 0
    BY <2>1 DEF Inv
  <2>3. KeysApart' /\ IdsInOrder'
    BY <2>1, <2>2, NothingUnderWay
  <2>4. QED
    BY <2>1, <2>3 DEF Inv
<1>4. QED
  BY <1>1, <1>2, <1>3 DEF Next

LEMMA InitInv ==
  Init => Inv
<1> SUFFICES ASSUME Init PROVE Inv
  OBVIOUS
<1>1. /\ ledger = <<>> /\ part = <<>> /\ onHand = FirstOnHand /\ over = {} /\ turns \in BOOLEAN
      /\ drawn = 0 /\ crossed = {} /\ req = [r \in Requests |-> Idle]
  BY DEF Init
<1>2. ledger \in Seq(Transaction) /\ part \in Seq(Part) /\ DOMAIN ledger = {} /\ DOMAIN part = {}
  BY <1>1
<1>3. Moved(ledger, Anywhere) = 0
  <2>1. [i \in DOMAIN ledger |-> Share(ledger[i], Anywhere)] = <<>>
    BY <1>1, <1>2
  <2>2. QED
    BY <2>1, SumOfNothing DEF Moved
<1>4. onHand \in Int /\ onHand = FirstOnHand + Moved(ledger, Anywhere)
  BY <1>1, <1>3, StockAssumption
<1>5. Good(ledger, part, onHand)
  BY <1>2, <1>4 DEF Good, KeysOnce, Owed, Paired
<1>6. req \in [Requests -> Request] /\ \A r \in Requests : Stands(req[r], ledger, part)
  <2>1. Idle \in Request /\ Idle.op = "idle"
    BY DEF Idle, Request
  <2>2. QED
    BY <1>1, <2>1 DEF Stands
<1>7. \A r \in Requests : req[r].id = 0
  BY <1>1 DEF Idle
<1>8. KeysApart /\ IdsInOrder
  BY <1>1, <1>2, <1>7 DEF KeysApart, IdsInOrder, Pending
<1>9. QED
  BY <1>1, <1>5, <1>6, <1>8 DEF Inv

\* Rows and parts, requests and what is on hand stay what their columns hold.
THEOREM TypeCorrect == Spec => []TypeOK
<1>1. Inv => TypeOK
  BY DEF Inv, Good, TypeOK, IdsInOrder
<1>2. QED
  BY <1>1, InitInv, NextKeepsInv, PTL DEF Spec

-----------------------------------------------------------------------------
Place(S, x) == Cardinality({y \in S : y < x})

\* A map that keeps the order of two sets of numbers keeps places.
LEMMA SamePlaces ==
  ASSUME NEW P \in SUBSET Nat, NEW Q \in SUBSET Nat, IsFiniteSet(P), NEW f \in [P -> Q],
         \A m, n \in P : m < n => f[m] < f[n],
         \A i \in Q : \E n \in P : f[n] = i
  PROVE  /\ Cardinality(P) = Cardinality(Q)
         /\ \A n \in P : Place(P, n) = Place(Q, f[n])
         /\ \A m, n \in P : Place(P, m) = Place(P, n) => m = n
<1>1. \A m, n \in P : f[m] = f[n] => m = n
  <2> SUFFICES ASSUME NEW m \in P, NEW n \in P, f[m] = f[n], m # n PROVE FALSE
    OBVIOUS
  <2>1. m \in Nat /\ n \in Nat /\ f[m] \in Nat /\ f[n] \in Nat
    OBVIOUS
  <2>2. m < n \/ n < m
    BY <2>1
  <2>3. QED
    BY <2>1, <2>2
<1>2. Cardinality(P) = Cardinality(Q)
  <2>1. f \in Bijection(P, Q)
    BY <1>1 DEF Bijection, Injection, Surjection, IsInjective
  <2>2. QED
    BY <2>1, FS_Bijection DEF ExistsBijection
<1>3. ASSUME NEW n \in P PROVE Place(P, n) = Place(Q, f[n])
  <2> DEFINE A == {y \in P : y < n}
             B == {y \in Q : y < f[n]}
  <2>1. PICK g : g = [y \in A |-> f[y]]
    OBVIOUS
  <2>2. g \in [A -> B]
    BY <2>1
  <2>3. ASSUME NEW i \in B PROVE \E y \in A : g[y] = i
    <3>1. PICK y \in P : f[y] = i
      OBVIOUS
    <3>2. y \in Nat /\ n \in Nat /\ f[n] \in Nat /\ i \in Nat /\ i < f[n]
      OBVIOUS
    <3>3. y # n /\ ~(n < y)
      BY <3>1, <3>2
    <3>4. y < n
      BY <3>2, <3>3
    <3>5. QED
      BY <2>1, <3>1, <3>4
  <2>4. \A x, y \in A : g[x] = g[y] => x = y
    BY <1>1, <2>1
  <2>5. g \in Bijection(A, B)
    BY <2>2, <2>3, <2>4 DEF Bijection, Injection, Surjection, IsInjective
  <2>6. IsFiniteSet(A)
    BY FS_Subset
  <2>7. QED
    BY <2>5, <2>6, FS_Bijection DEF ExistsBijection, Place
<1>4. ASSUME NEW m \in P, NEW n \in P, m < n PROVE Place(P, m) # Place(P, n)
  <2> DEFINE A == {y \in P : y < m}
             B == {y \in P : y < n}
  <2>1. m \in Nat /\ n \in Nat
    OBVIOUS
  <2>a. ASSUME NEW y \in P, y < m PROVE y < n
    <3>1. y \in Nat
      OBVIOUS
    <3>2. QED
      BY <1>4, <2>1, <2>a, <3>1
  <2>b. A \subseteq B
    BY <2>a
  <2>c. ~(m < m)
    BY <2>1
  <2>2. A \subseteq B /\ m \in B /\ m \notin A
    BY <1>4, <2>b, <2>c
  <2>3. IsFiniteSet(B)
    BY FS_Subset
  <2>4. Cardinality(B) = Cardinality(A) => B = A
    BY <2>2, <2>3, FS_Subset
  <2>5. QED
    BY <2>2, <2>4 DEF Place
<1>5. ASSUME NEW m \in P, NEW n \in P, Place(P, m) = Place(P, n) PROVE m = n
  <2>1. m \in Nat /\ n \in Nat
    OBVIOUS
  <2>2. ~(m < n) /\ ~(n < m)
    BY <1>4, <1>5
  <2>3. QED
    BY <2>1, <2>2
<1>6. QED
  BY <1>2, <1>3, <1>5

\* Parts and the issues they were inserted with come in one order, and so do the ids of the issues
\* where none overlapped, so the n-th goes with the n-th.
LEMMA PartsAreShown ==
  Inv => PartsShowTheirIssue
<1> SUFFICES ASSUME Inv, NEW w \in WorkOrders \ crossed
             PROVE  IssuePairs(w) = {<<n, part[n].posted>> : n \in {m \in DOMAIN part : part[m].wo = w}}
  BY DEF PartsShowTheirIssue
<1>1. /\ ledger \in Seq(Transaction) /\ part \in Seq(Part) /\ Paired(ledger, part)
      /\ \A i, j \in DOMAIN ledger :
           To(ledger[i], w) /\ To(ledger[j], w) /\ i < j => ledger[i].id < ledger[j].id
  BY DEF Inv, Good, IdsInOrder
<1>2. PICK P, Q : P = PartsOf(w) /\ Q = IssuesTo(w)
  OBVIOUS
<1>3. /\ P \in SUBSET Nat /\ Q \in SUBSET Nat /\ IsFiniteSet(P)
      /\ \A n \in P : n \in DOMAIN part /\ part[n].wo = w
      /\ \A n \in DOMAIN part : part[n].wo = w => n \in P
  <2>1. DOMAIN part = 1..Len(part) /\ DOMAIN ledger = 1..Len(ledger) /\ Len(part) \in Nat
    BY <1>1
  <2>2. IsFiniteSet(1..Len(part))
    BY <2>1, FS_Interval
  <2>3. P \subseteq 1..Len(part) /\ Q \subseteq 1..Len(ledger)
    BY <1>2, <2>1 DEF PartsOf, IssuesTo
  <2>4. QED
    BY <1>2, <2>1, <2>2, <2>3, FS_Subset DEF PartsOf
<1>4. \A i : i \in Q <=> i \in DOMAIN ledger /\ To(ledger[i], w)
  BY <1>2 DEF IssuesTo, To, Listed
<1>5. PICK f : f = [n \in P |-> part[n].posted]
  OBVIOUS
<1>6. f \in [P -> Q]
  BY <1>1, <1>3, <1>4, <1>5 DEF Paired, To
<1>7. \A m, n \in P : m < n => f[m] < f[n]
  BY <1>1, <1>3, <1>5 DEF Paired
<1>8. ASSUME NEW i \in Q PROVE \E n \in P : f[n] = i
  <2>1. PICK n \in DOMAIN part : part[n].posted = i
    BY <1>1, <1>4 DEF Paired, To
  <2>2. part[n].wo = w
    BY <1>1, <1>4, <2>1 DEF Paired, To
  <2>3. n \in P /\ f[n] = i
    BY <1>3, <1>5, <2>1, <2>2
  <2>4. QED
    BY <2>3
<1>9. /\ Cardinality(P) = Cardinality(Q)
      /\ \A n \in P : Place(P, n) = Place(Q, f[n])
      /\ \A m, n \in P : Place(P, m) = Place(P, n) => m = n
  <2>1. /\ P \in SUBSET Nat /\ Q \in SUBSET Nat /\ IsFiniteSet(P)
        /\ \A i \in Q : \E n \in P : f[n] = i
    BY <1>3, <1>8
  <2>2. QED
    BY <1>6, <1>7, <2>1, SamePlaces
<1>10. ASSUME NEW i \in Q PROVE PlaceOfIssue(w, i) = Place(Q, i)
  <2>1. \A j \in Q : ledger[j] \in Transaction /\ ledger[j].id \in Nat /\ j \in Nat
    <3>1. \A j \in Q : ledger[j] \in Transaction /\ j \in Nat
      BY <1>1, <1>3, <1>4
    <3>2. QED
      BY <3>1 DEF Transaction
  <2>2. ASSUME NEW j \in Q PROVE ledger[j].id < ledger[i].id <=> j < i
    <3>1. CASE j < i
      BY <1>1, <1>4, <3>1
    <3>2. CASE i < j
      <4>1. ledger[i].id < ledger[j].id
        BY <1>1, <1>4, <3>2
      <4>2. QED
        BY <2>1, <3>2, <4>1
    <3>3. CASE i = j
      BY <2>1, <3>3
    <3>4. QED
      BY <2>1, <3>1, <3>2, <3>3
  <2>3. {j \in Q : ledger[j].id < ledger[i].id} = {j \in Q : j < i}
    BY <2>2
  <2>4. QED
    BY <1>2, <2>3 DEF PlaceOfIssue, Place
<1>11. \A n : PlaceOfPart(w, n) = Place(P, n)
  BY <1>2 DEF PlaceOfPart, Place
<1>12. IssuePairs(w) = {p \in P \X Q : Place(P, p[1]) = Place(Q, p[2])}
  BY <1>2, <1>9, <1>10, <1>11 DEF IssuePairs
<1>13. ASSUME NEW p \in P \X Q, Place(P, p[1]) = Place(Q, p[2])
       PROVE  p = <<p[1], part[p[1]].posted>>
  <2>1. PICK n \in P : f[n] = p[2]
    BY <1>8
  <2>2. p[1] = n
    BY <1>9, <1>13, <2>1
  <2>3. QED
    BY <1>5, <2>1, <2>2
<1>14. ASSUME NEW n \in P
       PROVE  <<n, part[n].posted>> \in P \X Q /\ Place(P, n) = Place(Q, part[n].posted)
  BY <1>5, <1>6, <1>9
<1>15. IssuePairs(w) = {<<n, part[n].posted>> : n \in P}
  BY <1>12, <1>13, <1>14
<1>16. P = {m \in DOMAIN part : part[m].wo = w}
  BY <1>2 DEF PartsOf
<1>17. QED
  BY <1>15, <1>16

LEMMA IssuesReturnOnce ==
  Inv => DirectIssuesReturnOnce
<1> SUFFICES ASSUME Inv PROVE DirectIssuesReturnOnce
  OBVIOUS
<1>1. ledger \in Seq(Transaction) /\ KeysOnce(ledger) /\ Owed(ledger)
  BY DEF Inv, Good
<1> DEFINE Back == {i \in DOMAIN ledger : ledger[i].kind = "RETURN" /\ ledger[i].charge \in Assets}
<1>2. PICK from : from = [i \in Back |-> ledger[i].key.target]
  OBVIOUS
<1>3. ASSUME NEW i \in Back
      PROVE  /\ from[i] \in DOMAIN ledger /\ from[i] < i /\ DirectIssue(from[i])
             /\ ledger[from[i]].charge = ledger[i].charge /\ ledger[from[i]].delta = -ledger[i].delta
             /\ ledger[i].key = GiveBackKey(from[i])
  BY <1>1, <1>2 DEF Owed, GivesBack, IsDirect, DirectIssue
<1>4. \A i, j \in Back : from[i] = from[j] => i = j
  BY <1>1, <1>3 DEF KeysOnce
<1>5. from \in [Back -> DOMAIN ledger] /\ DOMAIN from = Back
  BY <1>2, <1>3
<1>6. QED
  BY <1>3, <1>4, <1>5 DEF DirectIssuesReturnOnce

-----------------------------------------------------------------------------
(***************************************************************************)
(* Requests that take turns.  What the one under way has read is still so  *)
(* when it commits.                                                        *)
(***************************************************************************)
StillOpen(q) == q.charge \notin over

PartAsRead(q) == ~part[q.target].deleted /\ ~part[q.target].backfill

ReadStillHolds(q) ==
  /\ q.op = "issue" => StillOpen(q)
  /\ q.op = "amend" => /\ StillOpen(q) /\ PartAsRead(q) /\ q.delta = part[q.target].quantity - q.quantity
                       /\ q.delta < 0 => onHand + q.delta >= 0
  /\ q.op = "cancel" => StillOpen(q) /\ PartAsRead(q) /\ q.delta = part[q.target].quantity
  /\ q.op = "supersede" => /\ q.delta = -q.quantity /\ ~Posted(GiveBackKey(q.target))
                           /\ q.quantity > -ledger[q.target].delta => onHand - ledger[q.target].delta - q.quantity >= 0

OneUnderWay == \A r, s \in Requests : req[r] # Idle /\ req[s] # Idle => r = s

TurnInv ==
  turns => /\ OneUnderWay
           /\ \A r \in Requests : ReadStillHolds(req[r])
           /\ PartsMatchLedger

HeldSum(prt, w) == SeqSum([n \in DOMAIN prt |-> Held(prt[n], w)])

LEMMA HeldIsInteger ==
  ASSUME NEW prt \in Seq(Part), NEW w
  PROVE  /\ [n \in DOMAIN prt |-> Held(prt[n], w)] \in Seq(Int)
         /\ HeldSum(prt, w) \in Int
         /\ \A p \in Part : Held(p, w) \in Int
<1>1. \A p \in Part : Held(p, w) \in Int
  BY DEF Part, Held
<1>2. \A n \in DOMAIN prt : prt[n] \in Part
  OBVIOUS
<1>3. [n \in DOMAIN prt |-> Held(prt[n], w)] \in Seq(Int)
  BY <1>1, <1>2
<1>4. QED
  BY <1>1, <1>3, SumIsInteger DEF HeldSum

LEMMA HeldByOneMore ==
  ASSUME NEW prt \in Seq(Part), NEW p \in Part, NEW w
  PROVE  HeldSum(Append(prt, p), w) = HeldSum(prt, w) + Held(p, w)
<1>1. PICK d : d = [n \in DOMAIN prt |-> Held(prt[n], w)]
  OBVIOUS
<1>2. d \in Seq(Int) /\ Held(p, w) \in Int /\ Len(d) = Len(prt)
  <2>1. Held(p, w) \in Int
    BY HeldIsInteger
  <2>2. d \in Seq(Int)
    BY <1>1, HeldIsInteger
  <2>3. Len(d) = Len(prt)
    BY <1>1, <2>2
  <2>4. QED
    BY <2>1, <2>2, <2>3
<1>3. [n \in DOMAIN Append(prt, p) |-> Held(Append(prt, p)[n], w)] = Append(d, Held(p, w))
  BY <1>1, <1>2
<1>4. QED
  BY <1>1, <1>2, <1>3, SumOfAppended DEF HeldSum

LEMMA HeldByChange ==
  ASSUME NEW prt \in Seq(Part), NEW k \in DOMAIN prt, NEW p \in Part, NEW w
  PROVE  HeldSum([prt EXCEPT ![k] = p], w) = HeldSum(prt, w) - Held(prt[k], w) + Held(p, w)
<1>1. PICK d : d = [n \in DOMAIN prt |-> Held(prt[n], w)]
  OBVIOUS
<1>2. d \in Seq(Int) /\ Held(p, w) \in Int /\ k \in 1..Len(d) /\ d[k] = Held(prt[k], w)
  <2>1. Held(p, w) \in Int
    BY HeldIsInteger
  <2>2. DOMAIN d = DOMAIN prt /\ DOMAIN prt = 1..Len(prt) /\ Len(d) = Len(prt)
    BY <1>1
  <2>3. QED
    BY <1>1, <2>1, <2>2, HeldIsInteger
<1>3. PICK prt2 : prt2 = [prt EXCEPT ![k] = p]
  OBVIOUS
<1>4. [n \in DOMAIN prt2 |-> Held(prt2[n], w)] = [d EXCEPT ![k] = Held(p, w)]
  BY <1>1, <1>3
<1>5. SeqSum([d EXCEPT ![k] = Held(p, w)]) = SeqSum(d) - d[k] + Held(p, w)
  BY <1>2, SumOfChanged
<1>6. QED
  BY <1>1, <1>2, <1>3, <1>4, <1>5 DEF HeldSum

\* One row, posted: what it moves for a work order, and on the shelf.
LEMMA OneRowMoves ==
  ASSUME Inv, NEW x \in Transaction, Post(<<x>>), NEW w
  PROVE  /\ Moved(ledger', {w}) = Moved(ledger, {w}) + Share(x, {w})
         /\ Moved(ledger, {w}) \in Int /\ Share(x, {w}) \in Int
         /\ onHand' = onHand + Share(x, Anywhere)
<1>1. ledger \in Seq(Transaction)
  BY DEF Inv, Good
<1>2. ledger' = Append(ledger, x)
  <2>1. ledger \o <<x>> = Append(ledger, x)
    BY <1>1
  <2>2. QED
    BY <2>1 DEF Post
<1>3. Share(x, {w}) \in Int
  BY DEF Share, Transaction
<1>4. QED
  BY <1>1, <1>2, <1>3, MovedByOneMore, SharesAreIntegers, MovedAlone DEF Post

\* Rows charged elsewhere, with the parts as they were.
LEMMA MovesElsewhere ==
  ASSUME Inv, PartsMatchLedger, part' = part,
         \A w \in WorkOrders : Moved(ledger', {w}) = Moved(ledger, {w})
  PROVE  PartsMatchLedger' /\ EndedStepKeepsParts
BY DEF PartsMatchLedger, EndedStepKeepsParts, Inv

LEMMA ChargedElsewhere ==
  ASSUME Inv, PartsMatchLedger, part' = part, NEW x \in Transaction, Post(<<x>>), x.charge \notin WorkOrders
  PROVE  PartsMatchLedger' /\ EndedStepKeepsParts
<1>1. ASSUME NEW w \in WorkOrders PROVE Moved(ledger', {w}) = Moved(ledger, {w})
  <2>1. Share(x, {w}) = 0
    BY DEF Share
  <2>2. /\ Moved(ledger', {w}) = Moved(ledger, {w}) + Share(x, {w})
        /\ Moved(ledger, {w}) \in Int
    BY OneRowMoves
  <2>3. QED
    BY <2>1, <2>2
<1>2. QED
  BY <1>1, MovesElsewhere

LEMMA IssueInTurn ==
  ASSUME Inv, PartsMatchLedger, NEW r \in Requests, Issue(r), ReadStillHolds(req[r])
  PROVE  PartsMatchLedger' /\ EndedStepKeepsParts
<1>1. PICK q : q = req[r]
  OBVIOUS
<1>2. /\ q \in Request /\ Stands(q, ledger, part) /\ part \in Seq(Part) /\ Len(ledger) \in Nat
      /\ q.op \in {"issue", "direct", "backfill"} /\ Pending(r) /\ ReadStillHolds(q)
      /\ over \subseteq WorkOrders
  BY <1>1 DEF Inv, Good, Issue, Pending
<1>3. PICK x : x = Row(r, "ISSUE", q.delta, q.key)
  OBVIOUS
<1>4. /\ q.key \in Key /\ q.delta \in Int /\ -q.delta \in Nat
      /\ q.op = "issue" => q.charge \in WorkOrders /\ q.charge \notin over
      /\ q.op = "direct" => q.charge \in Assets
      /\ q.op = "backfill" => q.charge \in WorkOrders \cup Assets
  BY <1>2 DEF Stands, ReadStillHolds, StillOpen, Request
<1>5. x \in Transaction /\ x.charge = q.charge /\ x.delta = q.delta /\ (x.moves <=> q.op # "backfill")
  BY <1>1, <1>2, <1>3, <1>4, RowOfARequest
<1>6. Post(<<x>>)
  BY <1>1, <1>3 DEF Issue
<1>7. CASE q.charge \in Assets
  <2>1. part' = part /\ x.charge \notin WorkOrders
    BY <1>1, <1>5, <1>7, StockAssumption DEF Issue
  <2>2. QED
    BY <1>5, <1>6, <2>1, ChargedElsewhere
<1>8. CASE q.charge \notin Assets
  <2>a. PICK count \in Nat : count = -q.delta
    BY <1>4
  <2>1. PICK p : p = [wo |-> q.charge, quantity |-> count, deleted |-> FALSE,
                      backfill |-> q.op = "backfill", posted |-> Len(ledger) + 1]
    OBVIOUS
  <2>2. p \in Part
    BY <1>2, <1>4, <1>8, <2>1 DEF Part
  <2>3. part' = Append(part, p)
    BY <1>1, <1>8, <2>a, <2>1 DEF Issue
  <2>4. ASSUME NEW w \in WorkOrders
        PROVE  /\ Moved(ledger', {w}) = -HeldSum(part', w)
               /\ w \in over => Moved(ledger', {w}) = Moved(ledger, {w})
    <3>1. /\ Moved(ledger', {w}) = Moved(ledger, {w}) + Share(x, {w})
          /\ Moved(ledger, {w}) \in Int
      BY <1>5, <1>6, OneRowMoves
    <3>2. HeldSum(part', w) = HeldSum(part, w) + Held(p, w) /\ HeldSum(part, w) \in Int
      BY <1>2, <2>2, <2>3, HeldByOneMore, HeldIsInteger
    <3>3. Moved(ledger, {w}) = -HeldSum(part, w)
      BY DEF PartsMatchLedger, HeldSum
    <3>4. CASE w = q.charge /\ q.op = "issue"
      <4>1. Share(x, {w}) = q.delta
        BY <1>5, <3>4 DEF Share
      <4>2. Held(p, w) = count
        BY <2>1, <3>4 DEF Held
      <4>3. w \notin over
        BY <1>4, <3>4
      <4>4. QED
        BY <1>4, <2>a, <3>1, <3>2, <3>3, <4>1, <4>2, <4>3
    <3>5. CASE w # q.charge \/ q.op = "backfill"
      <4>1. Share(x, {w}) = 0 /\ Held(p, w) = 0
        BY <1>5, <2>1, <3>5 DEF Share, Held
      <4>2. QED
        BY <3>1, <3>2, <3>3, <4>1
    <3>6. QED
      BY <1>2, <1>4, <1>8, <3>4, <3>5
  <2>5. QED
    BY <1>2, <2>4 DEF PartsMatchLedger, EndedStepKeepsParts, HeldSum
<1>9. QED
  BY <1>7, <1>8

LEMMA AmendInTurn ==
  ASSUME Inv, PartsMatchLedger, NEW r \in Requests, Amend(r) \/ Cancel(r), ReadStillHolds(req[r])
  PROVE  /\ PartsMatchLedger' /\ EndedStepKeepsParts
         /\ req[r].op = "amend" /\ onHand' < onHand => onHand' >= 0
<1>1. PICK q : q = req[r]
  OBVIOUS
<1>2. /\ q \in Request /\ Stands(q, ledger, part) /\ part \in Seq(Part) /\ onHand \in Int
      /\ q.op \in {"amend", "cancel"} /\ Pending(r) /\ ReadStillHolds(q) /\ over \subseteq WorkOrders
  BY <1>1 DEF Inv, Good, Amend, Cancel, Pending
<1>3. q.key \in Key /\ q.target \in DOMAIN part /\ q.charge = part[q.target].wo
  BY <1>2 DEF Stands
<1>4. part[q.target] \in Part
  BY <1>2, <1>3
<1>a. PICK kind \in {"ISSUE", "RETURN", "ADJUST"} :
        kind = IF q.op = "amend" /\ q.delta < 0 THEN "ISSUE" ELSE "RETURN"
  OBVIOUS
<1>5. PICK x : x = Row(r, kind, q.delta, q.key)
  OBVIOUS
<1>6. q.charge \in WorkOrders /\ part[q.target].quantity \in Int /\ q.delta \in Int /\ q.quantity \in Int
  BY <1>2, <1>3, <1>4 DEF Part, Request
<1>7. x \in Transaction /\ x.charge = q.charge /\ x.delta = q.delta /\ x.moves
  BY <1>1, <1>2, <1>3, <1>5, <1>6, RowOfARequest
<1>8. Post(<<x>>)
  BY <1>1, <1>2, <1>a, <1>5 DEF Amend, Cancel
<1>9. PICK p : p = IF q.op = "amend" THEN [part[q.target] EXCEPT !.quantity = q.quantity]
                                    ELSE [part[q.target] EXCEPT !.deleted = TRUE]
  OBVIOUS
<1>10. part' = [part EXCEPT ![q.target] = p]
  BY <1>1, <1>2, <1>3, <1>9 DEF Amend, Cancel
<1>11. p \in Part /\ p.wo = q.charge
  BY <1>2, <1>3, <1>4, <1>9 DEF Part, Request
<1>12. /\ q.charge \notin over /\ ~part[q.target].deleted /\ ~part[q.target].backfill
       /\ q.op = "amend" => q.delta = part[q.target].quantity - q.quantity
       /\ q.op = "cancel" => q.delta = part[q.target].quantity
       /\ q.op = "amend" /\ q.delta < 0 => onHand + q.delta >= 0
  BY <1>2 DEF ReadStillHolds, StillOpen, PartAsRead
<1>13. Held(part[q.target], q.charge) = part[q.target].quantity
  BY <1>3, <1>12 DEF Held
<1>14. Held(p, q.charge) = IF q.op = "amend" THEN q.quantity ELSE 0
  <2>1. CASE q.op = "amend"
    <3>1. p.quantity = q.quantity /\ p.deleted = part[q.target].deleted /\ p.backfill = part[q.target].backfill
      BY <1>4, <1>9, <2>1 DEF Part
    <3>2. QED
      BY <1>11, <1>12, <2>1, <3>1 DEF Held
  <2>2. CASE q.op = "cancel"
    <3>1. p.deleted = TRUE
      BY <1>4, <1>9, <2>2 DEF Part
    <3>2. QED
      BY <2>2, <3>1 DEF Held
  <2>3. QED
    BY <1>2, <2>1, <2>2
<1>15. q.delta = Held(part[q.target], q.charge) - Held(p, q.charge)
  <2>1. CASE q.op = "amend"
    BY <1>12, <1>13, <1>14, <2>1
  <2>2. CASE q.op = "cancel"
    BY <1>6, <1>12, <1>13, <1>14, <2>2
  <2>3. QED
    BY <1>2, <2>1, <2>2
<1>16. ASSUME NEW w \in WorkOrders
       PROVE  /\ Moved(ledger', {w}) = -HeldSum(part', w)
              /\ w \in over => Moved(ledger', {w}) = Moved(ledger, {w})
  <2>1. Moved(ledger', {w}) = Moved(ledger, {w}) + Share(x, {w}) /\ Moved(ledger, {w}) \in Int
    BY <1>7, <1>8, OneRowMoves
  <2>2. /\ HeldSum(part', w) = HeldSum(part, w) - Held(part[q.target], w) + Held(p, w)
        /\ HeldSum(part, w) \in Int /\ Held(part[q.target], w) \in Int /\ Held(p, w) \in Int
    BY <1>2, <1>3, <1>4, <1>10, <1>11, HeldByChange, HeldIsInteger
  <2>3. Moved(ledger, {w}) = -HeldSum(part, w)
    BY DEF PartsMatchLedger, HeldSum
  <2>4. CASE w = q.charge
    <3>1. Share(x, {w}) = q.delta
      BY <1>7, <2>4 DEF Share
    <3>2. Share(x, {w}) = Held(part[q.target], w) - Held(p, w)
      BY <1>15, <2>4, <3>1
    <3>3. \A a, b, c, d \in Int : d = -a => d + (b - c) = -(a - b + c)
      OBVIOUS
    <3>4. QED
      BY <1>12, <2>1, <2>2, <2>3, <2>4, <3>2, <3>3
  <2>5. CASE w # q.charge
    <3>1. Share(x, {w}) = 0 /\ Held(p, w) = 0 /\ Held(part[q.target], w) = 0
      BY <1>3, <1>7, <1>11, <2>5 DEF Share, Held
    <3>2. QED
      BY <2>1, <2>2, <2>3, <3>1
  <2>6. QED
    BY <2>4, <2>5
<1>17. PartsMatchLedger' /\ EndedStepKeepsParts
  BY <1>2, <1>16 DEF PartsMatchLedger, EndedStepKeepsParts, HeldSum
<1>18. onHand' = onHand + q.delta
  <2>1. onHand' = onHand + Share(x, Anywhere)
    BY <1>7, <1>8, OneRowMoves
  <2>2. Share(x, Anywhere) = q.delta
    BY <1>6, <1>7 DEF Share, Anywhere
  <2>3. QED
    BY <2>1, <2>2
<1>19. q.op = "amend" /\ onHand' < onHand => onHand' >= 0
  BY <1>2, <1>6, <1>12, <1>18
<1>20. QED
  BY <1>1, <1>17, <1>19

LEMMA SupersedeInTurn ==
  ASSUME Inv, PartsMatchLedger, NEW r \in Requests, Supersede(r), ReadStillHolds(req[r])
  PROVE  /\ PartsMatchLedger' /\ EndedStepKeepsParts
         /\ onHand' < onHand => onHand' >= 0
<1>1. PICK q : q = req[r]
  OBVIOUS
<1>2. /\ q \in Request /\ Stands(q, ledger, part) /\ ledger \in Seq(Transaction)
      /\ q.op = "supersede" /\ q.key \in Key /\ q.target \in Nat /\ onHand \in Int
      /\ q.target \in DOMAIN ledger /\ IsDirect(ledger[q.target]) /\ q.charge = ledger[q.target].charge
      /\ ReadStillHolds(q) /\ Pending(r) /\ drawn \in Nat
  BY <1>1 DEF Inv, Good, Supersede, Stands, Request, Pending, IdsInOrder
<1>3. PICK issued : issued = ledger[q.target].delta
  OBVIOUS
<1>4. q.charge \in Assets /\ q.charge \notin WorkOrders /\ issued \in Int
  <2>1. ledger[q.target] \in Transaction
    BY <1>2
  <2>2. ledger[q.target].delta \in Int
    BY <2>1 DEF Transaction
  <2>3. QED
    BY <1>2, <1>3, <2>2, StockAssumption DEF IsDirect
<1>5. PICK back \in Int : back = -issued
  BY <1>4
<1>6. PICK x, z, y : /\ x = Row(r, "RETURN", back, GiveBackKey(q.target))
                     /\ z = Row(r, "ISSUE", q.delta, q.key) /\ y = [z EXCEPT !.id = drawn + 1]
  OBVIOUS
<1>7. GiveBackKey(q.target) \in Key
  BY <1>2 DEF GiveBackKey, KeyOf, Key, Operations
<1>8. x \in Transaction /\ x.charge = q.charge /\ x.delta = back /\ x.moves
  BY <1>1, <1>2, <1>5, <1>6, <1>7, RowOfARequest
<1>9. y \in Transaction /\ y.charge = q.charge /\ y.delta = q.delta /\ y.moves
  <2>1. q.delta \in Int
    BY <1>2 DEF Request
  <2>2. z \in Transaction /\ z.charge = q.charge /\ z.delta = q.delta /\ z.moves
    BY <1>1, <1>2, <1>6, <2>1, RowOfARequest
  <2>3. drawn + 1 \in Nat
    BY <1>2
  <2>4. QED
    BY <1>6, <2>2, <2>3 DEF Transaction
<1>10. /\ q.delta = -q.quantity /\ ~Posted(GiveBackKey(q.target)) /\ q.quantity \in Nat /\ q.delta \in Int
       /\ q.quantity > -issued => onHand - issued - q.quantity >= 0
  BY <1>2, <1>3 DEF ReadStillHolds, Request
<1>11. Post(<<x, y>>) /\ part' = part
  BY <1>1, <1>3, <1>5, <1>6, <1>10 DEF Supersede
<1>12. ledger' = Append(Append(ledger, x), y) /\ onHand' = onHand + (back + q.delta)
  <2>1. ledger \o <<x, y>> = Append(Append(ledger, x), y)
    BY <1>2
  <2>2. Share(x, Anywhere) = back /\ Share(y, Anywhere) = q.delta
    BY <1>4, <1>8, <1>9 DEF Share, Anywhere
  <2>3. Moved(<<x, y>>, Anywhere) = back + q.delta
    BY <1>8, <1>9, <2>2, MovedAlone
  <2>4. QED
    BY <1>11, <2>1, <2>3 DEF Post
<1>13. ASSUME NEW w \in WorkOrders PROVE Moved(ledger', {w}) = Moved(ledger, {w})
  <2>1. Share(x, {w}) = 0 /\ Share(y, {w}) = 0
    BY <1>4, <1>8, <1>9 DEF Share
  <2>a. ledger \in Seq(Transaction) /\ x \in Transaction
    BY <1>2, <1>8
  <2>2. PICK led : led = Append(ledger, x) /\ led \in Seq(Transaction)
    BY <2>a, AppendGrows
  <2>3. Moved(ledger', {w}) = Moved(led, {w}) + Share(y, {w})
    BY <1>9, <1>12, <2>2, MovedByOneMore
  <2>4. Moved(led, {w}) = Moved(ledger, {w}) + Share(x, {w})
    BY <1>2, <1>8, <2>2, MovedByOneMore
  <2>5. Moved(ledger, {w}) \in Int /\ Moved(led, {w}) \in Int
    BY <2>a, <2>2, SharesAreIntegers
  <2>6. QED
    BY <2>1, <2>3, <2>4, <2>5
<1>14. PartsMatchLedger' /\ EndedStepKeepsParts
  BY <1>11, <1>13, MovesElsewhere
<1>15. onHand' < onHand => onHand' >= 0
  <2>1. \A a, i, k \in Int : (k > -i => a - i - k >= 0) /\ a + ((-i) + (-k)) < a => a + ((-i) + (-k)) >= 0
    OBVIOUS
  <2>2. onHand \in Int /\ issued \in Int /\ q.quantity \in Int
    BY <1>2, <1>4, <1>10
  <2>3. onHand' = onHand + ((-issued) + (-q.quantity))
    BY <1>5, <1>10, <1>12
  <2>4. QED
    BY <1>10, <2>1, <2>2, <2>3
<1>16. QED
  BY <1>14, <1>15

\* What comes back from an asset, and a count, are no work order's.
LEMMA OthersInTurn ==
  ASSUME Inv, PartsMatchLedger, NEW r \in Requests, GiveBack(r) \/ Adjust(r)
  PROVE  PartsMatchLedger' /\ EndedStepKeepsParts
<1>1. PICK q : q = req[r]
  OBVIOUS
<1>2. /\ q \in Request /\ Stands(q, ledger, part) /\ q.delta \in Int /\ Pending(r)
      /\ q.op \in {"unissue", "adjust"}
  BY <1>1 DEF Inv, Request, GiveBack, Adjust, Pending
<1>3. PICK kind \in {"ISSUE", "RETURN", "ADJUST"} : kind = IF q.op = "adjust" THEN "ADJUST" ELSE "RETURN"
  OBVIOUS
<1>4. PICK x : x = Row(r, kind, q.delta, q.key)
  OBVIOUS
<1>5. q.key \in Key /\ q.charge \notin WorkOrders
  BY <1>2, StockAssumption DEF Stands, IsDirect
<1>6. x \in Transaction /\ x.charge = q.charge
  BY <1>1, <1>2, <1>4, <1>5, RowOfARequest
<1>7. Post(<<x>>) /\ part' = part
  BY <1>1, <1>2, <1>3, <1>4 DEF GiveBack, Adjust
<1>8. QED
  BY <1>5, <1>6, <1>7, ChargedElsewhere

\* A row is inserted: nothing that was read changes.
LEMMA InsertedInTurn ==
  ASSUME Inv, OneUnderWay, \A s \in Requests : ReadStillHolds(req[s]), NEW r \in Requests, Insert(r)
  PROVE  OneUnderWay' /\ \A s \in Requests : ReadStillHolds(req[s])'
<1>1. /\ req' = [req EXCEPT ![r] = [req[r] EXCEPT !.id = drawn + 1]] /\ req[r] # Idle
      /\ UNCHANGED <<onHand, ledger, part, over>>
  BY DEF Insert
<1>2. /\ req \in [Requests -> Request] /\ req[r] \in Request
  BY DEF Inv
<1>3. /\ \A s \in Requests : s # r => req'[s] = req[s]
      /\ \A s \in Requests : /\ req'[s].op = req[s].op /\ req'[s].target = req[s].target
                              /\ req'[s].charge = req[s].charge /\ req'[s].quantity = req[s].quantity
                              /\ req'[s].delta = req[s].delta
  BY <1>1, <1>2 DEF Request
<1>4. OneUnderWay'
  BY <1>1, <1>3 DEF OneUnderWay
<1>5. ASSUME NEW s \in Requests PROVE ReadStillHolds(req[s])'
  <2>1. ReadStillHolds(req[s])
    OBVIOUS
  <2>2. QED
    BY <1>1, <1>3, <2>1 DEF ReadStillHolds, StillOpen, PartAsRead, Posted
<1>6. QED
  BY <1>4, <1>5

\* A request that begins when none is under way is the only one, and nothing has changed since it read.
LEMMA BegunInTurn ==
  ASSUME Inv, \A s \in Requests : req[s] = Idle, NEW r \in Requests, NEW q,
         req' = [req EXCEPT ![r] = q], UNCHANGED <<onHand, ledger, part, over>>, ReadStillHolds(q)
  PROVE  OneUnderWay' /\ \A s \in Requests : ReadStillHolds(req[s])'
<1>a. req'[r] = q /\ \A s \in Requests : s # r => req'[s] = Idle
  BY DEF Inv
<1>1. req'[r] = q /\ \A s \in Requests : s # r => req'[s] = Idle /\ req'[s].op = "idle"
  BY <1>a DEF Idle
<1>2. OneUnderWay'
  BY <1>1 DEF OneUnderWay
<1>3. ReadStillHolds(req[r])'
  BY <1>1 DEF ReadStillHolds, StillOpen, PartAsRead, Posted
<1>4. ASSUME NEW s \in Requests, s # r PROVE ReadStillHolds(req[s])'
  BY <1>1, <1>4 DEF ReadStillHolds
<1>5. QED
  BY <1>2, <1>3, <1>4

LEMMA ReadInTurn ==
  ASSUME Inv, \A s \in Requests : req[s] = Idle, NEW r \in Requests, Read(r)
  PROVE  OneUnderWay' /\ \A s \in Requests : ReadStillHolds(req[s])'
<1>1. /\ ledger \in Seq(Transaction) /\ part \in Seq(Part) /\ onHand \in Int
      /\ Quantities \subseteq Nat
  BY StockAssumption DEF Inv, Good
<1>2. PICK nonce \in Nonces, q \in Quantities :
        \/ \E w \in WorkOrders : IssueRead(r, nonce, w, q)
        \/ \E a \in Assets : DirectRead(r, nonce, a, q)
        \/ \E n \in DOMAIN part : AmendRead(r, nonce, n, q)
        \/ \E n \in DOMAIN part : CancelRead(r, nonce, n)
        \/ \E i \in DOMAIN ledger : SupersedeRead(r, nonce, i, q)
        \/ \E i \in DOMAIN ledger : GiveBackRead(r, i)
        \/ \E count \in Quantities \cup {0} : AdjustRead(r, nonce, count)
        \/ \E n \in LegacyRows, charge \in WorkOrders \cup Assets : BackfillRead(r, n, charge, q)
  BY DEF Read
<1> DEFINE Goal == OneUnderWay' /\ \A s \in Requests : ReadStillHolds(req[s])'
           Begun(x) == req' = [req EXCEPT ![r] = x] /\ UNCHANGED <<onHand, ledger, part, over>>
<1>3. q \in Int
  BY <1>1
<1>4. ASSUME NEW x, Begun(x), ReadStillHolds(x) PROVE Goal
  BY <1>4, BegunInTurn
<1> HIDE DEF Goal
<1>5. ASSUME NEW w \in WorkOrders, IssueRead(r, nonce, w, q) PROVE Goal
  <2>1. PICK x : x = [op |-> "issue", key |-> KeyOf("issue", nonce, 0, q), target |-> 0,
                      charge |-> w, quantity |-> q, delta |-> -q, id |-> 0]
    OBVIOUS
  <2>2. Begun(x) /\ w \notin over
    BY <1>5, <2>1 DEF IssueRead, Begin
  <2>3. ReadStillHolds(x)
    BY <2>1, <2>2 DEF ReadStillHolds, StillOpen
  <2>4. QED
    BY <1>4, <2>2, <2>3
<1>6. ASSUME NEW a \in Assets, DirectRead(r, nonce, a, q) PROVE Goal
  <2>1. PICK x : x = [op |-> "direct", key |-> KeyOf("direct", nonce, 0, q), target |-> 0,
                      charge |-> a, quantity |-> q, delta |-> -q, id |-> 0]
    OBVIOUS
  <2>2. Begun(x)
    BY <1>6, <2>1 DEF DirectRead, Begin
  <2>3. ReadStillHolds(x)
    BY <2>1 DEF ReadStillHolds
  <2>4. QED
    BY <1>4, <2>2, <2>3
<1>7. ASSUME NEW n \in DOMAIN part, AmendRead(r, nonce, n, q) PROVE Goal
  <2>1. part[n] \in Part
    BY <1>1
  <2>2. part[n].quantity \in Int
    BY <2>1 DEF Part
  <2>3. PICK less \in Int : less = -(q - part[n].quantity)
    BY <1>3, <2>2
  <2>4. PICK x : x = [op |-> "amend", key |-> KeyOf("amend", nonce, n, q), target |-> n,
                      charge |-> part[n].wo, quantity |-> q, delta |-> less, id |-> 0]
    OBVIOUS
  <2>5. /\ Begun(x) /\ part[n].wo \notin over /\ ~part[n].deleted /\ ~part[n].backfill
        /\ q - part[n].quantity > 0 => q - part[n].quantity <= onHand
    BY <1>7, <2>3, <2>4 DEF AmendRead, Begin
  <2>6. less = part[n].quantity - q /\ (less < 0 => onHand + less >= 0)
    BY <1>1, <1>3, <2>2, <2>3, <2>5
  <2>7. ReadStillHolds(x)
    BY <2>4, <2>5, <2>6 DEF ReadStillHolds, StillOpen, PartAsRead
  <2>8. QED
    BY <1>4, <2>5, <2>7
<1>8. ASSUME NEW n \in DOMAIN part, CancelRead(r, nonce, n) PROVE Goal
  <2>1. PICK x : x = [op |-> "cancel", key |-> KeyOf("cancel", nonce, n, 0), target |-> n,
                      charge |-> part[n].wo, quantity |-> 0, delta |-> part[n].quantity, id |-> 0]
    OBVIOUS
  <2>2. Begun(x) /\ part[n].wo \notin over /\ ~part[n].deleted /\ ~part[n].backfill
    BY <1>8, <2>1 DEF CancelRead, Begin
  <2>3. ReadStillHolds(x)
    BY <2>1, <2>2 DEF ReadStillHolds, StillOpen, PartAsRead
  <2>4. QED
    BY <1>4, <2>2, <2>3
<1>9. ASSUME NEW i \in DOMAIN ledger, SupersedeRead(r, nonce, i, q) PROVE Goal
  <2>1. ledger[i] \in Transaction
    BY <1>1
  <2>2. ledger[i].delta \in Int
    BY <2>1 DEF Transaction
  <2>3. PICK x : x = [op |-> "supersede", key |-> KeyOf("supersede", nonce, i, q), target |-> i,
                      charge |-> ledger[i].charge, quantity |-> q, delta |-> -q, id |-> 0]
    OBVIOUS
  <2>4. PICK issued \in Int : issued = -ledger[i].delta
    BY <2>2
  <2>5. /\ Begun(x) /\ ~Posted(GiveBackKey(i))
        /\ q > issued => q - issued <= onHand
    BY <1>9, <2>3, <2>4 DEF SupersedeRead, Begin
  <2>6. q > -ledger[i].delta => onHand - ledger[i].delta - q >= 0
    BY <1>1, <1>3, <2>2, <2>4, <2>5
  <2>7. ReadStillHolds(x)
    BY <2>3, <2>5, <2>6 DEF ReadStillHolds
  <2>8. QED
    BY <1>4, <2>5, <2>7
<1>10. ASSUME NEW i \in DOMAIN ledger, GiveBackRead(r, i) PROVE Goal
  <2>1. PICK x : x = [op |-> "unissue", key |-> KeyOf("unissue", None, i, 0), target |-> i,
                      charge |-> ledger[i].charge, quantity |-> 0, delta |-> -ledger[i].delta, id |-> 0]
    OBVIOUS
  <2>2. Begun(x)
    BY <1>10, <2>1 DEF GiveBackRead, Begin
  <2>3. ReadStillHolds(x)
    BY <2>1 DEF ReadStillHolds
  <2>4. QED
    BY <1>4, <2>2, <2>3
<1>11. ASSUME NEW count \in Quantities \cup {0}, AdjustRead(r, nonce, count) PROVE Goal
  <2>1. PICK x : x = [op |-> "adjust", key |-> KeyOf("adjust", nonce, 0, count), target |-> 0,
                      charge |-> None, quantity |-> count, delta |-> count - onHand, id |-> 0]
    OBVIOUS
  <2>2. Begun(x)
    BY <1>11, <2>1 DEF AdjustRead, Begin
  <2>3. ReadStillHolds(x)
    BY <2>1 DEF ReadStillHolds
  <2>4. QED
    BY <1>4, <2>2, <2>3
<1>12. ASSUME NEW n \in LegacyRows, NEW charge \in WorkOrders \cup Assets, BackfillRead(r, n, charge, q)
       PROVE  Goal
  <2>1. PICK x : x = [op |-> "backfill", key |-> KeyOf("backfill", None, n, 0), target |-> n,
                      charge |-> charge, quantity |-> 0, delta |-> -q, id |-> 0]
    OBVIOUS
  <2>2. Begun(x)
    BY <1>12, <2>1 DEF BackfillRead, Begin
  <2>3. ReadStillHolds(x)
    BY <2>1 DEF ReadStillHolds
  <2>4. QED
    BY <1>4, <2>2, <2>3
<1>13. Goal
  BY <1>2, <1>5, <1>6, <1>7, <1>8, <1>9, <1>10, <1>11, <1>12
<1>14. QED
  BY <1>13 DEF Goal

\* The one request under way commits, and none is.
LEMMA CommitInTurn ==
  ASSUME Inv, OneUnderWay, \A s \in Requests : ReadStillHolds(req[s]), PartsMatchLedger,
         NEW r \in Requests, Commit(r)
  PROVE  /\ OneUnderWay' /\ \A s \in Requests : ReadStillHolds(req[s])'
         /\ PartsMatchLedger'
         /\ AmendingStepLeavesStock /\ EndedStepKeepsParts
<1>1. /\ req \in [Requests -> Request] /\ onHand \in Int /\ over \subseteq WorkOrders
      /\ ledger \in Seq(Transaction)
  BY DEF Inv, Good
<1>2. req[r] # Idle
  <2>1. CASE AlreadyPosted(r) \/ Insert(r)
    BY <2>1 DEF AlreadyPosted, Insert
  <2>2. CASE Issue(r) \/ Amend(r) \/ Cancel(r) \/ Supersede(r) \/ GiveBack(r) \/ Adjust(r)
    <3>1. req[r].op # "idle"
      BY <2>2 DEF Issue, Amend, Cancel, Supersede, GiveBack, Adjust
    <3>2. QED
      BY <3>1 DEF Idle
  <2>3. QED
    BY <2>1, <2>2 DEF Commit
<1>3. ASSUME Finish(r) PROVE \A s \in Requests : req'[s] = Idle /\ req'[s].op = "idle"
  <2>1. \A s \in Requests : s # r => req[s] = Idle
    BY <1>2 DEF OneUnderWay
  <2>2. \A s \in Requests : req'[s] = Idle
    BY <1>1, <1>3, <2>1 DEF Finish
  <2>3. QED
    BY <2>2 DEF Idle
<1>4. OneUnderWay' /\ \A s \in Requests : ReadStillHolds(req[s])'
  <2>1. CASE Insert(r)
    BY <2>1, InsertedInTurn
  <2>2. CASE ~Insert(r)
    <3>1. Finish(r)
      BY <2>2 DEF Commit, AlreadyPosted, Issue, Amend, Cancel, Supersede, GiveBack, Adjust
    <3>2. QED
      BY <1>3, <3>1 DEF OneUnderWay, ReadStillHolds
  <2>3. QED
    BY <2>1, <2>2
<1>5. PartsMatchLedger' /\ EndedStepKeepsParts
  <2>1. CASE AlreadyPosted(r) \/ Insert(r)
    BY <1>1, <2>1 DEF AlreadyPosted, Insert, PartsMatchLedger, EndedStepKeepsParts
  <2>2. CASE Issue(r)
    BY <2>2, IssueInTurn
  <2>3. CASE Amend(r) \/ Cancel(r)
    BY <2>3, AmendInTurn
  <2>4. CASE Supersede(r)
    BY <2>4, SupersedeInTurn
  <2>5. CASE GiveBack(r) \/ Adjust(r)
    BY <2>5, OthersInTurn
  <2>6. QED
    BY <2>1, <2>2, <2>3, <2>4, <2>5 DEF Commit
<1>6. req[r].op \in {"amend", "supersede"} /\ onHand' < onHand => onHand' >= 0
  <2>1. CASE AlreadyPosted(r) \/ Insert(r)
    <3>1. onHand' = onHand
      BY <2>1 DEF AlreadyPosted, Insert
    <3>2. QED
      BY <1>1, <3>1
  <2>2. CASE Amend(r)
    BY <2>2, AmendInTurn DEF Amend
  <2>3. CASE Supersede(r)
    BY <2>3, SupersedeInTurn
  <2>4. CASE Issue(r) \/ Cancel(r) \/ GiveBack(r) \/ Adjust(r)
    BY <2>4 DEF Issue, Cancel, GiveBack, Adjust
  <2>5. QED
    BY <2>1, <2>2, <2>3, <2>4 DEF Commit
<1>7. AmendingStepLeavesStock
  <2>1. \A s \in Requests : req[s].op \in {"amend", "supersede"} => req[s] # Idle
    BY DEF Idle
  <2>2. QED
    BY <1>2, <1>6, <2>1 DEF OneUnderWay, AmendingStepLeavesStock
<1>8. QED
  BY <1>4, <1>5, <1>7

LEMMA TurnStep ==
  ASSUME Inv, TurnInv, [Next]_vars
  PROVE  /\ TurnInv'
         /\ turns => AmendingStepLeavesStock /\ EndedStepKeepsParts
<1>1. turns' = turns
  BY DEF Next, vars
<1> SUFFICES ASSUME turns
             PROVE  /\ OneUnderWay' /\ \A s \in Requests : ReadStillHolds(req[s])'
                    /\ PartsMatchLedger'
                    /\ AmendingStepLeavesStock /\ EndedStepKeepsParts
  BY <1>1 DEF TurnInv
<1>2. OneUnderWay /\ (\A s \in Requests : ReadStillHolds(req[s])) /\ PartsMatchLedger
  BY DEF TurnInv
<1>3. /\ ledger \in Seq(Transaction) /\ over \subseteq WorkOrders /\ onHand \in Int
      /\ req \in [Requests -> Request]
  BY DEF Inv, Good
<1>4. ASSUME UNCHANGED <<onHand, ledger>> PROVE AmendingStepLeavesStock /\ EndedStepKeepsParts
  BY <1>3, <1>4 DEF AmendingStepLeavesStock, EndedStepKeepsParts
<1>5. ASSUME UNCHANGED <<ledger, part>> PROVE PartsMatchLedger'
  BY <1>2, <1>5 DEF PartsMatchLedger
<1>6. CASE \E r \in Requests : Commit(r)
  BY <1>2, <1>6, CommitInTurn
<1>7. ASSUME Start, \A r \in Requests : req[r] = Idle
      PROVE  /\ OneUnderWay' /\ \A s \in Requests : ReadStillHolds(req[s])'
             /\ PartsMatchLedger'
             /\ AmendingStepLeavesStock /\ EndedStepKeepsParts
  <2>1. CASE \E r \in Requests : Read(r)
    <3>1. UNCHANGED <<onHand, ledger, part, over>>
      <4>1. PICK r \in Requests : Read(r)
        BY <2>1
      <4>2. \E op, nonce, target, charge, quantity, delta : Begin(r, op, nonce, target, charge, quantity, delta)
        BY <4>1 DEF Read, IssueRead, DirectRead, AmendRead, CancelRead, SupersedeRead, GiveBackRead, AdjustRead,
                   BackfillRead
      <4>3. QED
        BY <4>2 DEF Begin
    <3>2. OneUnderWay' /\ \A s \in Requests : ReadStillHolds(req[s])'
      BY <1>7, <2>1, ReadInTurn
    <3>3. QED
      BY <1>4, <1>5, <3>1, <3>2
  <2>2. ASSUME req' = req
        PROVE  /\ OneUnderWay' /\ \A s \in Requests : ReadStillHolds(req[s])'
               /\ AmendingStepLeavesStock
    <3>1. \A s \in Requests : req'[s] = Idle /\ req[s].op = "idle" /\ req'[s].op = "idle"
      BY <1>7, <2>2 DEF Idle
    <3>2. QED
      BY <3>1 DEF OneUnderWay, ReadStillHolds, AmendingStepLeavesStock
  <2>3. ASSUME NEW w \in WorkOrders, End(w)
        PROVE  req' = req /\ PartsMatchLedger' /\ EndedStepKeepsParts
    <3>1. UNCHANGED <<onHand, ledger, part, req>>
      BY <2>3 DEF End
    <3>2. QED
      BY <1>4, <1>5, <3>1
  <2>5. QED
    BY <1>7, <2>1, <2>2, <2>3 DEF Start
<1>8. CASE UNCHANGED vars
  <2>1. UNCHANGED <<onHand, ledger, part, over, req>>
    BY <1>8 DEF vars
  <2>2. OneUnderWay' /\ \A s \in Requests : ReadStillHolds(req[s])'
    BY <1>2, <2>1 DEF OneUnderWay, ReadStillHolds, StillOpen, PartAsRead, Posted
  <2>3. QED
    BY <1>4, <1>5, <2>1, <2>2
<1>9. QED
  BY <1>6, <1>7, <1>8 DEF Next

LEMMA TurnInvInit ==
  Init => TurnInv
<1> SUFFICES ASSUME Init PROVE TurnInv
  OBVIOUS
<1>1. ledger = <<>> /\ part = <<>> /\ req = [r \in Requests |-> Idle]
  BY DEF Init
<1>2. \A r \in Requests : req[r] = Idle /\ req[r].op = "idle"
  BY <1>1 DEF Idle
<1>3. OneUnderWay /\ \A r \in Requests : ReadStillHolds(req[r])
  BY <1>2 DEF OneUnderWay, ReadStillHolds
<1>4. ASSUME NEW w \in WorkOrders
      PROVE  Moved(ledger, {w}) = 0 /\ SeqSum([n \in DOMAIN part |-> Held(part[n], w)]) = 0
  <2>1. /\ [i \in DOMAIN ledger |-> Share(ledger[i], {w})] = <<>>
        /\ [n \in DOMAIN part |-> Held(part[n], w)] = <<>>
    BY <1>1
  <2>2. QED
    BY <2>1, SumOfNothing DEF Moved
<1>5. PartsMatchLedger
  BY <1>4 DEF PartsMatchLedger
<1>6. QED
  BY <1>3, <1>5 DEF TurnInv

\* issue_part_to_work_order, issue_to_asset, adjust_on_hand and backfill_part_issue post under
\* unique keys with an increment in SQL: however requests read, insert and commit, the quantity on
\* hand is the sum of its ledger and what was issued to an asset comes back once;
\* pair_part_issue_times shows each part with its own issue unless two issues to its work order
\* overlapped; and when requests take turns, a work order's parts are what the ledger issued to it.
THEOREM StockHolds == Spec => []StockIsSound
<1>1. Inv /\ TurnInv => StockIsSound
  <2>1. Inv => TypeOK /\ OnHandMatchesLedger
    BY DEF Inv, Good, TypeOK, OnHandMatchesLedger, IdsInOrder
  <2>2. QED
    BY <2>1, IssuesReturnOnce, PartsAreShown DEF TurnInv, StockIsSound
<1>2. Inv /\ TurnInv /\ [Next]_vars => Inv' /\ TurnInv'
  BY NextKeepsInv, TurnStep
<1>3. QED
  BY <1>1, <1>2, InitInv, TurnInvInit, PTL DEF Spec

\* update_part_issue_quantity and update_asset_issue_quantity: when requests take turns, an
\* amendment never takes more than there is, and what a work order has used is fixed once it has
\* ended, history aside.
THEOREM AmendingHolds == Spec => AmendingIsGuarded
<1>1. Inv /\ TurnInv /\ [Next]_vars => [turns => AmendingStepLeavesStock /\ EndedStepKeepsParts]_vars
  BY TurnStep
<1>2. Inv /\ TurnInv /\ [Next]_vars => Inv' /\ TurnInv'
  BY NextKeepsInv, TurnStep
<1>3. QED
  BY <1>1, <1>2, InitInv, TurnInvInit, PTL DEF Spec, AmendingIsGuarded

-----------------------------------------------------------------------------
(***************************************************************************)
(* The back ends behind the gateway.  A job that has not ended has charged *)
(* nothing to the ledger and counted no question, and its stage says which *)
(* back end it runs on; from this each way to end is right.  Who is in a   *)
(* slot has entered where there was room.                                  *)
(***************************************************************************)
\* The stages of a job belong to one back end, and a call of the API to a turn of one.
StagesAreRight(k) ==
  /\ k.pc \in {"workdir", "child", "exited"} => backend = "codex"
  /\ k.pc \in {"tools", "turn", "closing"} => backend = "anthropic"
  /\ k.pc = "tools" => k.kind = "chat"
  /\ k.pc = "line" => Queues(k.kind)
  /\ k.pc \notin {"turn", "closing", "done"} => k.calls = 0
  /\ k.pc = "turn" => k.calls < MaxTurns
  /\ k.pc = "closing" => k.stop \in {"text", "empty", "refusal", "tool_use"}
  /\ k.pc # "done" => k.booked = 0 /\ ~k.counted
  /\ k.dir => k.pc \in {"workdir", "child", "exited"}

EndIsRight(k) ==
  k.pc = "done" =>
    /\ k.booked = IF k.cause \in {"tools", "time", "ledger"} THEN 0 ELSE k.calls
    /\ k.status = 200 =>
         k.stop = "text" \/ (backend = "anthropic" /\ k.kind = "chat" /\ k.stop = "refusal")
    /\ k.counted <=> (backend = "anthropic" /\ k.kind = "chat" /\ k.status = 200)

JobIsRight(k) == StagesAreRight(k) /\ EndIsRight(k)

RoomIsLeft == IsFiniteSet(InSlot) /\ Cardinality(InSlot) <= Slots

BackendsInv == BackendsTypeOK /\ (\A j \in Jobs : JobIsRight(job[j])) /\ RoomIsLeft

\* The stages in which a job holds a slot, if it needs one.
HoldsSlot(k) == k.pc \notin {"idle", "line", "done"} /\ Queues(k.kind)

JobBecomes(j, k) == job' = [job EXCEPT ![j] = k] /\ UNCHANGED backend

\* One job goes on, and takes no slot unless it has one or there is room.
LEMMA JobGoesOn ==
  ASSUME BackendsInv, NEW j \in Jobs, NEW k \in JobState, JobBecomes(j, k),
         JobIsRight(k), HoldsSlot(k) => j \in InSlot \/ Cardinality(InSlot) < Slots
  PROVE  BackendsInv'
<1>1. BackendsTypeOK /\ (\A i \in Jobs : JobIsRight(job[i])) /\ IsFiniteSet(InSlot) /\ Cardinality(InSlot) <= Slots
  BY DEF BackendsInv, RoomIsLeft
<1>2. job' \in [Jobs -> JobState] /\ job'[j] = k /\ (\A i \in Jobs : i # j => job'[i] = job[i]) /\ UNCHANGED backend
  BY <1>1 DEF BackendsTypeOK, JobBecomes
<1>3. BackendsTypeOK'
  BY <1>1, <1>2 DEF BackendsTypeOK
<1>4. \A i \in Jobs : JobIsRight(job[i])'
  <2>1. ASSUME NEW i \in Jobs PROVE JobIsRight(job'[i])
    BY <1>1, <1>2
  <2>2. \A w : (JobIsRight(w))' <=> JobIsRight(w)
    BY <1>2 DEF JobIsRight, StagesAreRight, EndIsRight, Queues
  <2>3. QED
    BY <1>2, <2>1 DEF JobIsRight, StagesAreRight, EndIsRight, Queues
<1>5. \A i : i \in InSlot <=> i \in Jobs /\ HoldsSlot(job[i])
  BY DEF InSlot, HoldsSlot
<1>6. \A i : i \in InSlot' <=> i \in Jobs /\ HoldsSlot(job'[i])
  BY <1>2 DEF InSlot, HoldsSlot, Queues
<1>7. InSlot' \subseteq InSlot \cup {j}
  BY <1>2, <1>5, <1>6
<1>8. RoomIsLeft'
  <2>1. CASE j \in InSlot \/ ~HoldsSlot(k)
    <3>1. InSlot' \subseteq InSlot
      BY <1>2, <1>6, <1>7, <2>1
    <3>2. IsFiniteSet(InSlot') /\ Cardinality(InSlot') <= Cardinality(InSlot)
      BY <1>1, <3>1, FS_Subset
    <3>3. Cardinality(InSlot) \in Nat /\ Cardinality(InSlot') \in Nat
      BY <1>1, <3>2, FS_CardinalityType
    <3>4. QED
      BY <1>1, <3>2, <3>3, BackendsAssumption DEF RoomIsLeft, BackendsAssumption
  <2>2. CASE j \notin InSlot /\ HoldsSlot(k)
    <3>1. IsFiniteSet(InSlot \cup {j}) /\ Cardinality(InSlot \cup {j}) = Cardinality(InSlot) + 1
      BY <1>1, <2>2, FS_AddElement
    <3>2. IsFiniteSet(InSlot') /\ Cardinality(InSlot') <= Cardinality(InSlot \cup {j})
      BY <1>7, <3>1, FS_Subset
    <3>3. Cardinality(InSlot) \in Nat /\ Cardinality(InSlot') \in Nat
      BY <1>1, <3>2, FS_CardinalityType
    <3>4. QED
      BY <2>2, <3>1, <3>2, <3>3, BackendsAssumption DEF RoomIsLeft, BackendsAssumption
  <2>3. QED
    BY <2>1, <2>2
<1>9. QED
  BY <1>3, <1>4, <1>8 DEF BackendsInv

\* What may be written in a job, and that it stays one.
JobStages == {"idle", "line", "workdir", "child", "exited", "tools", "turn", "closing", "done"}
JobStatuses == {0, 200, 401, 429, 500, 502, 503}
JobCauses == {"none", "gate", "answer", "backend", "tools", "time", "ledger"}

LEMMA JobFits ==
  ASSUME NEW old \in JobState
  PROVE  /\ \A pc \in JobStages : \A kind \in {"chat", "text"} : [old EXCEPT !.pc = pc, !.kind = kind] \in JobState
         /\ \A pc \in JobStages : \A dir \in BOOLEAN : [old EXCEPT !.pc = pc, !.dir = dir] \in JobState
         /\ \A pc \in JobStages : \A stop \in Stops : [old EXCEPT !.pc = pc, !.stop = stop] \in JobState
         /\ \A kind \in {"chat", "text"} : [old EXCEPT !.kind = kind] \in JobState
         /\ \A calls \in 0..MaxTurns : [old EXCEPT !.booked = calls] \in JobState
<1> DEFINE Kinds == {"chat", "text"}
           Counts == 0..MaxTurns
           Truths == BOOLEAN
<1>1. JobState = [pc : JobStages, kind : Kinds, calls : Counts, stop : Stops, dir : Truths, status : JobStatuses,
                  cause : JobCauses, booked : Counts, counted : Truths]
  BY DEF JobState, JobStages, JobStatuses, JobCauses
<1> HIDE DEF Kinds, Counts, Truths
<1>2. \A pc \in JobStages : \A kind \in Kinds : [old EXCEPT !.pc = pc, !.kind = kind] \in JobState
  BY <1>1
<1>3. \A pc \in JobStages : \A dir \in Truths : [old EXCEPT !.pc = pc, !.dir = dir] \in JobState
  BY <1>1
<1>4. \A pc \in JobStages : \A stop \in Stops : [old EXCEPT !.pc = pc, !.stop = stop] \in JobState
  BY <1>1
<1>5. /\ \A kind \in Kinds : [old EXCEPT !.kind = kind] \in JobState
      /\ \A calls \in Counts : [old EXCEPT !.booked = calls] \in JobState
  BY <1>1
<1>6. QED
  BY <1>2, <1>3, <1>4, <1>5 DEF Kinds, Counts, Truths

\* The same of an answer of the API, of an end, and of a counted question.
LEMMA JobAdvances ==
  ASSUME NEW old \in JobState, NEW pc \in JobStages, NEW stop \in Stops, NEW calls \in 0..MaxTurns
  PROVE  [old EXCEPT !.calls = calls, !.stop = stop, !.pc = pc] \in JobState
<1> DEFINE Kinds == {"chat", "text"}
           Counts == 0..MaxTurns
           Truths == BOOLEAN
<1>1. JobState = [pc : JobStages, kind : Kinds, calls : Counts, stop : Stops, dir : Truths, status : JobStatuses,
                  cause : JobCauses, booked : Counts, counted : Truths] /\ calls \in Counts
  BY DEF JobState, JobStages, JobStatuses, JobCauses
<1> HIDE DEF Kinds, Counts, Truths
<1>2. QED
  BY <1>1

LEMMA JobCounts ==
  ASSUME NEW old \in JobState, NEW counted \in BOOLEAN
  PROVE  [old EXCEPT !.counted = counted] \in JobState
<1> DEFINE Kinds == {"chat", "text"}
           Counts == 0..MaxTurns
           Truths == BOOLEAN
<1>1. JobState = [pc : JobStages, kind : Kinds, calls : Counts, stop : Stops, dir : Truths, status : JobStatuses,
                  cause : JobCauses, booked : Counts, counted : Truths] /\ counted \in Truths
  BY DEF JobState, JobStages, JobStatuses, JobCauses
<1> HIDE DEF Kinds, Counts, Truths
<1>2. QED
  BY <1>1

LEMMA JobEnds ==
  ASSUME NEW old \in JobState, NEW status \in JobStatuses, NEW cause \in JobCauses
  PROVE  [old EXCEPT !.pc = "done", !.dir = FALSE, !.status = status, !.cause = cause] \in JobState
<1> DEFINE Kinds == {"chat", "text"}
           Counts == 0..MaxTurns
           Truths == BOOLEAN
<1>1. JobState = [pc : JobStages, kind : Kinds, calls : Counts, stop : Stops, dir : Truths, status : JobStatuses,
                  cause : JobCauses, booked : Counts, counted : Truths]
  BY DEF JobState, JobStages, JobStatuses, JobCauses
<1>2. "done" \in JobStages /\ FALSE \in Truths
  BY DEF JobStages
<1> HIDE DEF Kinds, Counts, Truths
<1>3. ASSUME NEW pc \in JobStages, NEW dir \in Truths
      PROVE  [old EXCEPT !.pc = pc, !.dir = dir, !.status = status, !.cause = cause] \in JobState
  BY <1>1
<1>4. QED
  BY <1>2, <1>3

\* How a job ends, by what is recorded of it.
LEMMA EndedIs ==
  ASSUME BackendsInv, NEW j \in Jobs, NEW status \in {200, 401, 429, 500, 502, 503},
         NEW cause \in {"gate", "answer", "backend", "tools", "time", "ledger"}
  PROVE  \E k \in JobState : /\ k = Ended(j, status, cause) /\ k.pc = "done" /\ ~k.dir
                             /\ k.status = status /\ k.cause = cause /\ k.calls = job[j].calls
                             /\ k.stop = job[j].stop /\ k.kind = job[j].kind
                             /\ k.booked = job[j].booked /\ (k.counted <=> job[j].counted)
<1>1. PICK old \in JobState : old = job[j]
  BY DEF BackendsInv, BackendsTypeOK
<1>2. PICK k : k = [old EXCEPT !.pc = "done", !.dir = FALSE, !.status = status, !.cause = cause]
  OBVIOUS
<1>3. k.pc = "done" /\ ~k.dir /\ k.status = status /\ k.cause = cause
      /\ k.calls = old.calls /\ k.stop = old.stop /\ k.kind = old.kind /\ k.booked = old.booked
      /\ (k.counted <=> old.counted)
  BY <1>1, <1>2 DEF JobState, Stops
<1>4. k \in JobState
  <2>1. status \in JobStatuses /\ cause \in JobCauses
    BY DEF JobStatuses, JobCauses
  <2>2. old \in JobState
    BY <1>1
  <2>3. [old EXCEPT !.pc = "done", !.dir = FALSE, !.status = status, !.cause = cause] \in JobState
    BY <2>1, <2>2, JobEnds, ZenonT(30)
  <2>4. QED
    BY <1>2, <2>3
<1>5. k = Ended(j, status, cause)
  BY <1>1, <1>2 DEF Ended
<1>6. QED
  BY <1>1, <1>3, <1>4, <1>5

LEMMA BookedIs ==
  ASSUME BackendsInv, NEW j \in Jobs, NEW status \in {200, 502, 503}, NEW cause \in {"answer", "backend"}
  PROVE  \E k \in JobState : /\ k = Booked(j, status, cause) /\ k.pc = "done" /\ ~k.dir
                             /\ k.status = status /\ k.cause = cause /\ k.calls = job[j].calls
                             /\ k.stop = job[j].stop /\ k.kind = job[j].kind
                             /\ k.booked = k.calls /\ (k.counted <=> job[j].counted)
<1>1. PICK old \in JobState : /\ old = Ended(j, status, cause) /\ old.pc = "done" /\ ~old.dir
                             /\ old.status = status /\ old.cause = cause /\ old.calls = job[j].calls
                             /\ old.stop = job[j].stop /\ old.kind = job[j].kind
                             /\ (old.counted <=> job[j].counted)
  BY EndedIs
<1>2. PICK calls \in 0..MaxTurns : calls = job[j].calls
  BY <1>1 DEF JobState, Stops
<1>3. PICK k : k = [old EXCEPT !.booked = calls]
  OBVIOUS
<1>4. k = Booked(j, status, cause)
  BY <1>1, <1>2, <1>3 DEF Booked
<1>5. k \in JobState /\ k.pc = "done" /\ ~k.dir /\ k.status = status /\ k.cause = cause
      /\ k.calls = old.calls /\ k.stop = old.stop /\ k.kind = old.kind /\ k.booked = calls
      /\ (k.counted <=> old.counted)
  BY <1>1, <1>3 DEF JobState, Stops
<1>6. QED
  BY <1>1, <1>2, <1>4, <1>5

\* A job that ends without an answer gives up what it held, and what is booked is right.
LEMMA JobFails ==
  ASSUME BackendsInv, NEW j \in Jobs, NEW k \in JobState, JobBecomes(j, k), k.pc = "done", ~k.dir, EndIsRight(k)
  PROVE  BackendsInv'
<1>1. JobIsRight(k) /\ ~HoldsSlot(k)
  BY DEF JobIsRight, StagesAreRight, HoldsSlot
<1>2. QED
  BY <1>1, JobGoesOn

LEMMA JobIsTyped ==
  ASSUME BackendsInv, NEW j \in Jobs
  PROVE  /\ job[j] \in JobState /\ JobIsRight(job[j]) /\ backend \in {"codex", "anthropic"}
         /\ job[j].calls \in Nat /\ MaxTurns \in Nat \ {0} /\ (j \in InSlot <=> HoldsSlot(job[j]))
<1>1. job[j] \in JobState /\ JobIsRight(job[j]) /\ backend \in {"codex", "anthropic"}
  BY DEF BackendsInv, BackendsTypeOK
<1>2. MaxTurns \in Nat \ {0}
  BY BackendsAssumption DEF BackendsAssumption
<1>3. job[j].calls \in Nat
  BY <1>1, <1>2 DEF JobState, Stops
<1>4. QED
  BY <1>1, <1>2, <1>3 DEF InSlot, HoldsSlot

LEMMA JobIsEnded ==
  ASSUME BackendsInv, NEW j \in Jobs, NEW status \in {500, 502}, NEW cause \in {"backend", "tools", "time", "ledger"},
         JobBecomes(j, Ended(j, status, cause)), job[j].pc # "done",
         cause = "backend" => job[j].calls = 0
  PROVE  BackendsInv'
<1>1. JobIsRight(job[j])
  BY JobIsTyped
<1>2. job[j].booked = 0 /\ ~job[j].counted
  BY <1>1 DEF JobIsRight, StagesAreRight
<1>3. status \in {200, 401, 429, 500, 502, 503} /\ cause \in {"gate", "answer", "backend", "tools", "time", "ledger"}
  OBVIOUS
<1>4. PICK k \in JobState : /\ k = Ended(j, status, cause) /\ k.pc = "done" /\ ~k.dir
                            /\ k.status = status /\ k.cause = cause /\ k.calls = job[j].calls
                            /\ k.booked = job[j].booked /\ (k.counted <=> job[j].counted)
  BY <1>3, EndedIs
<1>5. EndIsRight(k)
  BY <1>2, <1>4 DEF EndIsRight
<1>6. JobBecomes(j, k)
  BY <1>4
<1>7. QED
  BY <1>4, <1>5, <1>6, JobFails

\* The gates, and the way in.
LEMMA JobBegins ==
  ASSUME BackendsInv, NEW j \in Jobs, NEW kind \in {"chat", "text"},
         Admit(j, kind) \/ Enter(j) \/ \E s \in Refusals(kind) : Refused(j, kind, s)
  PROVE  BackendsInv'
<1>1. PICK old \in JobState : /\ old = job[j] /\ JobIsRight(old) /\ backend \in {"codex", "anthropic"}
                              /\ MaxTurns \in Nat \ {0} /\ (j \in InSlot <=> HoldsSlot(old))
  BY JobIsTyped
<1>2. CASE Admit(j, kind)
  <2>1. PICK k : k = [old EXCEPT !.pc = IF Queues(kind) THEN "line" ELSE "turn", !.kind = kind]
    OBVIOUS
  <2>2. job' = [job EXCEPT ![j] = k] /\ UNCHANGED backend /\ old.pc = "idle"
    BY <1>1, <1>2, <2>1 DEF Admit, BackendsInv, BackendsTypeOK
  <2>3. /\ k \in JobState /\ k.pc = (IF Queues(kind) THEN "line" ELSE "turn") /\ k.kind = kind
        /\ k.calls = old.calls /\ k.booked = old.booked /\ (k.counted <=> old.counted) /\ (k.dir <=> old.dir)
    <3>1. (IF Queues(kind) THEN "line" ELSE "turn") \in JobStages
      BY DEF JobStages
    <3>2. k \in JobState
      BY <1>1, <2>1, <3>1, JobFits
    <3>3. QED
      BY <1>1, <2>1, <3>2 DEF JobState, Stops
  <2>4. old.calls = 0 /\ old.booked = 0 /\ ~old.counted /\ ~old.dir
    BY <1>1, <2>2 DEF JobIsRight, StagesAreRight
  <2>5. ~Queues(kind) => backend = "anthropic" /\ kind = "text"
    BY <1>1 DEF Queues
  <2>6. StagesAreRight(k)
    BY <1>1, <2>3, <2>4, <2>5 DEF StagesAreRight
  <2>7. JobIsRight(k) /\ ~HoldsSlot(k)
    BY <2>3, <2>6 DEF JobIsRight, EndIsRight, HoldsSlot
  <2>8. QED
    BY <2>2, <2>3, <2>7, JobGoesOn DEF JobBecomes
<1>3. CASE Enter(j)
  <2>0. PICK codex \in BOOLEAN : codex = (backend = "codex")
    OBVIOUS
  <2>1. PICK k : k = [old EXCEPT !.pc = IF backend = "codex" THEN "workdir" ELSE "tools", !.dir = codex]
    OBVIOUS
  <2>2. job' = [job EXCEPT ![j] = k] /\ UNCHANGED backend /\ old.pc = "line" /\ Cardinality(InSlot) < Slots
    <3>1. job' = [job EXCEPT ![j].pc = IF backend = "codex" THEN "workdir" ELSE "tools", ![j].dir = codex]
      BY <1>3, <2>0 DEF Enter
    <3>2. QED
      BY <1>1, <1>3, <2>1, <3>1 DEF Enter, BackendsInv, BackendsTypeOK
  <2>3. /\ k \in JobState /\ k.pc = (IF backend = "codex" THEN "workdir" ELSE "tools") /\ k.kind = old.kind
        /\ k.calls = old.calls /\ k.booked = old.booked /\ (k.counted <=> old.counted)
        /\ (k.dir <=> backend = "codex")
    <3>1. (IF backend = "codex" THEN "workdir" ELSE "tools") \in JobStages
      BY DEF JobStages
    <3>2. k \in JobState
      BY <1>1, <2>0, <2>1, <3>1, JobFits
    <3>3. /\ k.pc = (IF backend = "codex" THEN "workdir" ELSE "tools") /\ k.kind = old.kind
          /\ k.calls = old.calls /\ k.booked = old.booked /\ (k.counted <=> old.counted)
      BY <1>1, <2>1, <3>2 DEF JobState, Stops
    <3>4. k.dir <=> codex
      BY <1>1, <2>0, <2>1 DEF JobState
    <3>5. QED
      BY <2>0, <3>2, <3>3, <3>4
  <2>4. old.calls = 0 /\ old.booked = 0 /\ ~old.counted /\ Queues(old.kind)
    BY <1>1, <2>2 DEF JobIsRight, StagesAreRight
  <2>5. backend # "codex" => old.kind = "chat"
    BY <1>1, <2>4 DEF Queues
  <2>6. StagesAreRight(k)
    BY <1>1, <2>3, <2>4, <2>5 DEF StagesAreRight
  <2>7. JobIsRight(k)
    BY <2>3, <2>6 DEF JobIsRight, EndIsRight
  <2>8. QED
    BY <2>2, <2>3, <2>7, JobGoesOn DEF JobBecomes
<1>4. ASSUME NEW s \in Refusals(kind), Refused(j, kind, s) PROVE BackendsInv'
  <2>1. s \in {401, 429, 503}
    BY DEF Refusals
  <2>2. PICK end \in JobState : /\ end = Ended(j, s, "gate") /\ end.pc = "done" /\ ~end.dir
                                /\ end.status = s /\ end.cause = "gate" /\ end.calls = old.calls
                                /\ end.booked = old.booked /\ (end.counted <=> old.counted)
    BY <1>1, <2>1, EndedIs
  <2>3. PICK k : k = [end EXCEPT !.kind = kind]
    OBVIOUS
  <2>4. /\ k \in JobState /\ k.pc = "done" /\ ~k.dir /\ k.status = s /\ k.cause = "gate"
        /\ k.calls = end.calls /\ k.booked = end.booked /\ (k.counted <=> end.counted)
    <3>1. k \in JobState
      BY <2>2, <2>3, JobFits
    <3>2. QED
      BY <2>2, <2>3, <3>1 DEF JobState, Stops
  <2>5. job' = [job EXCEPT ![j] = k] /\ UNCHANGED backend /\ old.pc = "idle"
    BY <1>1, <1>4, <2>2, <2>3 DEF Refused
  <2>6. old.calls = 0 /\ old.booked = 0 /\ ~old.counted
    BY <1>1, <2>5 DEF JobIsRight, StagesAreRight
  <2>7. EndIsRight(k)
    BY <2>1, <2>2, <2>4, <2>6 DEF EndIsRight
  <2>8. k \in JobState /\ job' = [job EXCEPT ![j] = k] /\ UNCHANGED backend /\ k.pc = "done" /\ ~k.dir
    BY <2>4, <2>5
  <2>9. QED
    BY <2>7, <2>8, JobFails DEF JobBecomes
<1>5. QED
  BY <1>2, <1>3, <1>4

\* A child process.
LEMMA ChildRuns ==
  ASSUME BackendsInv, NEW j \in Jobs, Spawn(j) \/ Collect(j) \/ Kill(j) \/ \E stop \in Stops : ChildExits(j, stop)
  PROVE  BackendsInv'
<1>1. PICK old \in JobState : /\ old = job[j] /\ JobIsRight(old) /\ backend \in {"codex", "anthropic"}
                              /\ MaxTurns \in Nat \ {0} /\ (j \in InSlot <=> HoldsSlot(old))
  BY JobIsTyped
<1>2. /\ old.pc \in {"workdir", "child", "exited"} /\ UNCHANGED backend
  BY <1>1 DEF Spawn, Collect, Kill, ChildExits
<1>3. backend = "codex" /\ old.calls = 0 /\ old.booked = 0 /\ ~old.counted /\ j \in InSlot
  BY <1>1, <1>2 DEF JobIsRight, StagesAreRight, HoldsSlot, Queues
<1>4. ASSUME NEW status \in {500, 502}, NEW cause \in {"backend", "time"},
             job' = [job EXCEPT ![j] = Ended(j, status, cause)]
      PROVE  BackendsInv'
  <2>1. job[j].pc # "done" /\ (cause = "backend" => job[j].calls = 0)
    BY <1>1, <1>2, <1>3, <1>4
  <2>2. cause \in {"backend", "tools", "time", "ledger"}
    BY <1>4
  <2>3. JobBecomes(j, Ended(j, status, cause))
    BY <1>2, <1>4 DEF JobBecomes
  <2>4. QED
    BY <1>4, <2>1, <2>2, <2>3, JobIsEnded
<1>5. CASE Spawn(j)
  <2>1. CASE job' = [job EXCEPT ![j].pc = "child"]
    <3>1. PICK k : k = [old EXCEPT !.pc = "child"]
      OBVIOUS
    <3>2. k \in JobState /\ k.pc = "child" /\ k.calls = 0 /\ k.booked = 0 /\ ~k.counted
      BY <1>1, <1>3, <3>1 DEF JobState, Stops
    <3>3. job' = [job EXCEPT ![j] = k]
      BY <1>1, <2>1, <3>1 DEF BackendsInv, BackendsTypeOK
    <3>4. JobIsRight(k)
      BY <1>1, <1>3, <3>2 DEF JobIsRight, StagesAreRight, EndIsRight
    <3>5. QED
      BY <1>2, <1>3, <3>2, <3>3, <3>4, JobGoesOn DEF JobBecomes
  <2>2. CASE job' = [job EXCEPT ![j] = Ended(j, 500, "backend")]
    BY <1>4, <2>2
  <2>3. QED
    BY <1>5, <2>1, <2>2 DEF Spawn
<1>6. CASE Collect(j)
  <2>1. CASE old.stop = "text"
    <3>1. PICK k \in JobState : /\ k = Ended(j, 200, "answer") /\ k.pc = "done" /\ ~k.dir
                                /\ k.status = 200 /\ k.cause = "answer" /\ k.calls = old.calls /\ k.stop = old.stop
                                /\ k.booked = old.booked /\ (k.counted <=> old.counted)
      BY <1>1, EndedIs
    <3>2. job' = [job EXCEPT ![j] = k]
      BY <1>1, <1>6, <2>1, <3>1 DEF Collect
    <3>3. JobIsRight(k) /\ ~HoldsSlot(k)
      BY <1>3, <2>1, <3>1 DEF JobIsRight, StagesAreRight, EndIsRight, HoldsSlot
    <3>4. QED
      BY <1>2, <3>2, <3>3, JobGoesOn DEF JobBecomes
  <2>2. CASE old.stop # "text"
    BY <1>1, <1>4, <1>6, <2>2 DEF Collect
  <2>3. QED
    BY <2>1, <2>2
<1>7. CASE Kill(j)
  <2>1. PICK status \in {502} \cup IF job[j].pc = "exited" THEN {500} ELSE {} :
          job' = [job EXCEPT ![j] = Ended(j, status, "time")]
    BY <1>7 DEF Kill
  <2>2. status \in {500, 502}
    BY <2>1
  <2>3. CASE status = 500
    BY <1>4, <2>1, <2>3
  <2>4. CASE status = 502
    BY <1>4, <2>1, <2>4
  <2>5. QED
    BY <2>2, <2>3, <2>4
<1>8. ASSUME NEW stop \in Stops, ChildExits(j, stop) PROVE BackendsInv'
  <2>1. PICK k : k = [old EXCEPT !.pc = "exited", !.stop = stop]
    OBVIOUS
  <2>2. k \in JobState /\ k.pc = "exited" /\ k.calls = 0 /\ k.booked = 0 /\ ~k.counted
    <3>1. "exited" \in JobStages
      BY DEF JobStages
    <3>2. k \in JobState
      BY <1>1, <2>1, <3>1, JobFits
    <3>3. QED
      BY <1>1, <1>3, <2>1, <3>2 DEF JobState, Stops
  <2>3. job' = [job EXCEPT ![j] = k]
    BY <1>1, <1>8, <2>1 DEF ChildExits, BackendsInv, BackendsTypeOK
  <2>4. JobIsRight(k)
    BY <1>1, <1>3, <2>2 DEF JobIsRight, StagesAreRight, EndIsRight
  <2>5. QED
    BY <1>2, <1>3, <2>2, <2>3, <2>4, JobGoesOn DEF JobBecomes
<1>9. QED
  BY <1>5, <1>6, <1>7, <1>8

\* A turn of the API.
LEMMA TurnRuns ==
  ASSUME BackendsInv, NEW j \in Jobs,
         \/ OpenTools(j) \/ ToolsFail(j) \/ TimeUp(j) \/ Reply(j) \/ LedgerFails(j)
         \/ \E stop \in Stops : ApiAnswers(j, stop)
         \/ \E status \in {502, 503} : ApiFails(j, status)
  PROVE  BackendsInv'
<1>1. PICK old \in JobState : /\ old = job[j] /\ JobIsRight(old) /\ backend \in {"codex", "anthropic"}
                              /\ MaxTurns \in Nat \ {0} /\ (j \in InSlot <=> HoldsSlot(old)) /\ old.calls \in Nat
  BY JobIsTyped
<1>2. old.pc \in {"tools", "turn", "closing"} /\ UNCHANGED backend
  <2>1. OpenTools(j) => job[j].pc = "tools" /\ UNCHANGED backend
    BY DEF OpenTools
  <2>2. ToolsFail(j) \/ TimeUp(j) => job[j].pc \in {"tools", "turn", "closing"} /\ UNCHANGED backend
    BY DEF ToolsFail, TimeUp
  <2>3. Reply(j) => job[j].pc = "closing" /\ UNCHANGED backend
    BY DEF Reply
  <2>4. LedgerFails(j) => job[j].pc \in {"turn", "closing"} /\ UNCHANGED backend
    BY DEF LedgerFails
  <2>5. \A stop \in Stops : ApiAnswers(j, stop) => job[j].pc = "turn" /\ UNCHANGED backend
    BY DEF ApiAnswers
  <2>6. \A status \in {502, 503} : ApiFails(j, status) => job[j].pc = "turn" /\ UNCHANGED backend
    BY DEF ApiFails
  <2>7. QED
    BY <1>1, <2>1, <2>2, <2>3, <2>4, <2>5, <2>6
<1>3. /\ backend = "anthropic" /\ old.booked = 0 /\ ~old.counted /\ ~old.dir
      /\ (j \in InSlot <=> Queues(old.kind)) /\ (old.pc = "tools" => old.kind = "chat" /\ old.calls = 0)
      /\ (old.pc = "turn" => old.calls < MaxTurns)
      /\ (old.pc = "closing" => old.stop \in {"text", "empty", "refusal", "tool_use"})
  BY <1>1, <1>2 DEF JobIsRight, StagesAreRight, HoldsSlot
<1>4. ASSUME NEW status \in {500, 502}, NEW cause \in {"tools", "time", "ledger"},
             job' = [job EXCEPT ![j] = Ended(j, status, cause)]
      PROVE  BackendsInv'
  <2>1. job[j].pc # "done" /\ (cause = "backend" => job[j].calls = 0)
    BY <1>1, <1>2, <1>3, <1>4
  <2>2. cause \in {"backend", "tools", "time", "ledger"}
    BY <1>4
  <2>3. JobBecomes(j, Ended(j, status, cause))
    BY <1>2, <1>4 DEF JobBecomes
  <2>4. QED
    BY <1>4, <2>1, <2>2, <2>3, JobIsEnded
<1>5. ASSUME NEW status \in {502, 503}, job' = [job EXCEPT ![j] = Booked(j, status, "backend")]
      PROVE  BackendsInv'
  <2>1. PICK k \in JobState : /\ k = Booked(j, status, "backend") /\ k.pc = "done" /\ ~k.dir
                              /\ k.status = status /\ k.cause = "backend" /\ k.booked = k.calls
                              /\ (k.counted <=> old.counted)
    BY <1>1, BookedIs
  <2>2. EndIsRight(k)
    BY <1>3, <2>1 DEF EndIsRight
  <2>3. JobBecomes(j, k) /\ k.pc = "done" /\ ~k.dir
    BY <1>2, <1>5, <2>1 DEF JobBecomes
  <2>4. QED
    BY <2>1, <2>2, <2>3, JobFails
<1>6. CASE OpenTools(j)
  <2>1. PICK k : k = [old EXCEPT !.pc = "turn"]
    OBVIOUS
  <2>2. k \in JobState /\ k.pc = "turn" /\ k.kind = old.kind /\ k.calls = old.calls /\ k.booked = old.booked
        /\ (k.counted <=> old.counted) /\ (k.dir <=> old.dir)
    BY <1>1, <2>1 DEF JobState, Stops
  <2>3. job' = [job EXCEPT ![j] = k] /\ old.pc = "tools"
    BY <1>1, <1>6, <2>1 DEF OpenTools, BackendsInv, BackendsTypeOK
  <2>4. JobIsRight(k)
    BY <1>1, <1>3, <2>2, <2>3 DEF JobIsRight, StagesAreRight, EndIsRight
  <2>5. HoldsSlot(k) => j \in InSlot
    BY <1>3, <2>2 DEF HoldsSlot
  <2>6. QED
    BY <1>2, <2>2, <2>3, <2>4, <2>5, JobGoesOn DEF JobBecomes
<1>7. CASE ToolsFail(j) \/ TimeUp(j) \/ LedgerFails(j)
  BY <1>4, <1>7 DEF ToolsFail, TimeUp, LedgerFails
<1>8. ASSUME NEW status \in {502, 503}, ApiFails(j, status) PROVE BackendsInv'
  <2>1. job' = [job EXCEPT ![j] = Booked(j, status, "backend")]
    BY <1>8 DEF ApiFails
  <2>2. CASE status = 502
    BY <1>5, <2>1, <2>2
  <2>3. CASE status = 503
    BY <1>5, <2>1, <2>3
  <2>4. QED
    BY <1>8, <2>2, <2>3
<1>9. CASE Reply(j)
  <2>1. CASE FallsShort(old.kind, old.stop)
    BY <1>1, <1>5, <1>9, <2>1 DEF Reply
  <2>2. CASE ~FallsShort(old.kind, old.stop)
    <3>1. PICK end \in JobState : /\ end = Booked(j, 200, "answer") /\ end.pc = "done" /\ ~end.dir
                                  /\ end.status = 200 /\ end.cause = "answer" /\ end.stop = old.stop
                                  /\ end.kind = old.kind /\ end.booked = end.calls
      BY <1>1, BookedIs
    <3>0. PICK counted \in BOOLEAN : counted = (old.kind = "chat")
      OBVIOUS
    <3>2. PICK k : k = [end EXCEPT !.counted = counted]
      OBVIOUS
    <3>3. /\ k \in JobState /\ k.pc = "done" /\ ~k.dir /\ k.status = 200 /\ k.cause = "answer"
          /\ k.stop = old.stop /\ k.kind = old.kind /\ k.booked = k.calls /\ (k.counted <=> old.kind = "chat")
      <4>1. end \in JobState /\ counted \in BOOLEAN
        BY <3>0, <3>1
      <4>2. [end EXCEPT !.counted = counted] \in JobState
        BY <4>1, JobCounts, Zenon
      <4>3. k \in JobState
        BY <3>2, <4>2
      <4>4. k.counted <=> counted
        BY <3>2, <4>1 DEF JobState
      <4>5. QED
        BY <3>0, <3>1, <3>2, <4>3, <4>4 DEF JobState, Stops
    <3>4. job' = [job EXCEPT ![j] = k] /\ old.pc = "closing"
      <4>1. job' = [job EXCEPT ![j] = [Booked(j, 200, "answer") EXCEPT !.counted = job[j].kind = "chat"]] /\ old.pc = "closing"
        BY <1>1, <1>9, <2>2 DEF Reply
      <4>2. k = [Booked(j, 200, "answer") EXCEPT !.counted = job[j].kind = "chat"]
        BY <1>1, <3>0, <3>1, <3>2
      <4>3. QED
        BY <4>1, <4>2
    <3>5. old.stop = "text" \/ (old.stop = "refusal" /\ old.kind = "chat")
      BY <1>1, <1>3, <2>2, <3>4 DEF FallsShort, JobState
    <3>6. JobIsRight(k) /\ ~HoldsSlot(k)
      BY <1>3, <3>3, <3>5 DEF JobIsRight, StagesAreRight, EndIsRight, HoldsSlot
    <3>7. JobBecomes(j, k)
      BY <1>2, <3>4 DEF JobBecomes
    <3>8. QED
      BY <1>2, <3>3, <3>4, <3>6, <3>7, JobGoesOn
  <2>3. QED
    BY <2>1, <2>2
<1>10. ASSUME NEW stop \in Stops, ApiAnswers(j, stop) PROVE BackendsInv'
  <2>1. old.pc = "turn" /\ stop \in {"text", "empty", "refusal", "tool_use"}
    <3>1. job[j].pc = "turn" /\ stop \in {"text", "empty", "refusal", "tool_use"}
      BY <1>10 DEF ApiAnswers
    <3>2. QED
      BY <1>1, <3>1
  <2>2. PICK calls \in 0..MaxTurns : calls = old.calls + 1
    BY <1>1, <1>3, <2>1
  <2>3. PICK pc \in {"turn", "closing"} : pc = IF stop = "tool_use" /\ calls < MaxTurns THEN "turn" ELSE "closing"
    OBVIOUS
  <2>4. PICK k : k = [old EXCEPT !.calls = calls, !.stop = stop, !.pc = pc]
    OBVIOUS
  <2>5. k \in JobState /\ k.pc = pc /\ k.kind = old.kind /\ k.calls = calls /\ k.booked = old.booked
        /\ (k.counted <=> old.counted) /\ (k.dir <=> old.dir) /\ k.stop = stop
    <3>1. pc \in JobStages
      BY <2>3 DEF JobStages
    <3>2. k \in JobState
      <4>1. old \in JobState /\ calls \in 0..MaxTurns /\ stop \in Stops
        BY <1>1, <1>10, <2>2
      <4>2. [old EXCEPT !.calls = calls, !.stop = stop, !.pc = pc] \in JobState
        BY <3>1, <4>1, JobAdvances, Zenon
      <4>3. QED
        BY <2>4, <4>2
    <3>3. QED
      BY <1>1, <2>1, <2>4, <3>2 DEF JobState, Stops
  <2>6. job' = [job EXCEPT ![j] = k]
    <3>1. job' = [job EXCEPT ![j].calls = @ + 1, ![j].stop = stop,
                             ![j].pc = IF stop = "tool_use" /\ job[j].calls + 1 < MaxTurns THEN "turn" ELSE "closing"]
      BY <1>10 DEF ApiAnswers
    <3>2. pc = IF stop = "tool_use" /\ job[j].calls + 1 < MaxTurns THEN "turn" ELSE "closing"
      BY <1>1, <2>2, <2>3
    <3>3. job' = [job EXCEPT ![j].calls = @ + 1, ![j].stop = stop, ![j].pc = pc]
      BY <3>1, <3>2
    <3>4. job \in [Jobs -> JobState]
      BY DEF BackendsInv, BackendsTypeOK
    <3>5. old = job[j] /\ calls = old.calls + 1
      BY <1>1, <2>2
    <3>6. PICK first : first = [job EXCEPT ![j].calls = @ + 1]
      OBVIOUS
    <3>7. first = [job EXCEPT ![j] = [old EXCEPT !.calls = calls]]
      BY <3>4, <3>5, <3>6
    <3>8. job' = [first EXCEPT ![j].stop = stop, ![j].pc = pc]
      BY <3>3, <3>6
    <3>9. first[j] = [old EXCEPT !.calls = calls] /\ DOMAIN first = Jobs /\ \A i \in Jobs : i # j => first[i] = job[i]
      BY <3>4, <3>7
    <3>10. job'[j] = k
      <4>1. job'[j] = [first[j] EXCEPT !.stop = stop, !.pc = pc]
        BY <3>8, <3>9
      <4>2. QED
        BY <2>4, <3>9, <4>1
    <3>11. job' = [i \in Jobs |-> job'[i]] /\ \A i \in Jobs : i # j => job'[i] = job[i]
      <4>1. PICK second : second = [first EXCEPT ![j].stop = stop]
        OBVIOUS
      <4>2. DOMAIN second = Jobs /\ \A i \in Jobs : i # j => second[i] = first[i]
        BY <3>9, <4>1
      <4>3. job' = [second EXCEPT ![j].pc = pc]
        BY <3>8, <4>1
      <4>4. job' = [i \in Jobs |-> job'[i]]
        BY <4>2, <4>3
      <4>5. \A i \in Jobs : i # j => job'[i] = second[i]
        BY <4>2, <4>3
      <4>6. QED
        BY <3>9, <4>2, <4>4, <4>5
    <3>12. QED
      BY <3>4, <3>10, <3>11
  <2>7. JobIsRight(k)
    BY <1>3, <2>1, <2>3, <2>5 DEF JobIsRight, StagesAreRight, EndIsRight
  <2>8. HoldsSlot(k) => j \in InSlot
    BY <1>3, <2>5 DEF HoldsSlot
  <2>9. QED
    BY <1>2, <2>5, <2>6, <2>7, <2>8, JobGoesOn DEF JobBecomes
<1>11. QED
  BY <1>6, <1>7, <1>8, <1>9, <1>10

LEMMA BackendsStart == BackendsInit => BackendsInv
<1> SUFFICES ASSUME BackendsInit PROVE BackendsInv
  OBVIOUS
<1>1. MaxTurns \in Nat
  BY BackendsAssumption DEF BackendsAssumption
<1>2. NoJob \in JobState /\ JobIsRight(NoJob) /\ NoJob.pc = "idle"
  BY <1>1 DEF NoJob, JobState, Stops, JobIsRight, StagesAreRight, EndIsRight
<1>3. backend \in {"codex", "anthropic"} /\ job \in [Jobs -> JobState] /\ \A j \in Jobs : job[j] = NoJob
  BY <1>2 DEF BackendsInit
<1>4. InSlot = {}
  BY <1>2, <1>3 DEF InSlot
<1>5. IsFiniteSet(InSlot) /\ Cardinality(InSlot) = 0
  BY <1>4, FS_EmptySet
<1>6. RoomIsLeft
  BY <1>5, BackendsAssumption DEF RoomIsLeft, BackendsAssumption
<1>7. QED
  BY <1>2, <1>3, <1>6 DEF BackendsInv, BackendsTypeOK

LEMMA BackendsStep == BackendsInv /\ [BackendsNext]_backendVars => BackendsInv'
<1> SUFFICES ASSUME BackendsInv, [BackendsNext]_backendVars PROVE BackendsInv'
  OBVIOUS
<1>1. CASE BackendsNext
  <2>1. PICK j \in Jobs :
          \/ \E kind \in {"chat", "text"} : Admit(j, kind) \/ \E s \in Refusals(kind) : Refused(j, kind, s)
          \/ Enter(j) \/ Spawn(j) \/ Collect(j) \/ Kill(j)
          \/ \E stop \in Stops : ChildExits(j, stop) \/ ApiAnswers(j, stop)
          \/ OpenTools(j) \/ ToolsFail(j) \/ TimeUp(j) \/ Reply(j) \/ LedgerFails(j)
          \/ \E status \in {502, 503} : ApiFails(j, status)
    BY <1>1 DEF BackendsNext
  <2>2. CASE \E kind \in {"chat", "text"} : Admit(j, kind) \/ \E s \in Refusals(kind) : Refused(j, kind, s)
    BY <2>2, JobBegins
  <2>3. CASE Enter(j)
    <3>1. "chat" \in {"chat", "text"}
      OBVIOUS
    <3>2. QED
      BY <2>3, <3>1, JobBegins
  <2>4. CASE Spawn(j) \/ Collect(j) \/ Kill(j) \/ \E stop \in Stops : ChildExits(j, stop)
    BY <2>4, ChildRuns
  <2>5. CASE \/ OpenTools(j) \/ ToolsFail(j) \/ TimeUp(j) \/ Reply(j) \/ LedgerFails(j)
             \/ \E stop \in Stops : ApiAnswers(j, stop)
             \/ \E status \in {502, 503} : ApiFails(j, status)
    BY <2>5, TurnRuns
  <2>6. QED
    BY <2>1, <2>2, <2>3, <2>4, <2>5
<1>2. CASE UNCHANGED backendVars
  <2>1. job' = job /\ backend' = backend
    BY <1>2 DEF backendVars
  <2>2. InSlot' = InSlot
    BY <2>1 DEF InSlot, Queues
  <2>3. RoomIsLeft' /\ BackendsTypeOK'
    BY <2>1, <2>2 DEF BackendsInv, RoomIsLeft, BackendsTypeOK
  <2>4. \A j \in Jobs : JobIsRight(job[j])'
    BY <2>1 DEF BackendsInv, JobIsRight, StagesAreRight, EndIsRight, Queues
  <2>5. QED
    BY <2>3, <2>4 DEF BackendsInv
<1>3. QED
  BY <1>1, <1>2

LEMMA BackendsAreKept == BackendsInv => BackendsAreSound
<1> SUFFICES ASSUME BackendsInv PROVE BackendsAreSound
  OBVIOUS
<1>1. BackendsTypeOK /\ (\A j \in Jobs : JobIsRight(job[j])) /\ IsFiniteSet(InSlot) /\ Cardinality(InSlot) <= Slots
  BY DEF BackendsInv, RoomIsLeft
<1>2. ChargesAreBooked /\ AnswersAreEnds
  BY <1>1 DEF JobIsRight, EndIsRight, ChargesAreBooked, AnswersAreEnds
<1>3. PICK held : held = {j \in Jobs : \/ job[j].pc \in {"child", "exited", "tools"}
                                       \/ (job[j].kind = "chat" /\ job[j].pc \in {"turn", "closing"})}
  OBVIOUS
<1>4. held \subseteq InSlot
  BY <1>1, <1>3 DEF InSlot, Queues, JobIsRight, StagesAreRight
<1>5. Cardinality(held) <= Cardinality(InSlot) /\ IsFiniteSet(held)
  BY <1>1, <1>4, FS_Subset
<1>6. Cardinality(held) \in Nat /\ Cardinality(InSlot) \in Nat
  BY <1>1, <1>5, FS_CardinalityType
<1>7. Cardinality(held) <= Slots
  BY <1>1, <1>5, <1>6, BackendsAssumption DEF BackendsAssumption
<1>8. SlotsAreKept
  BY <1>1, <1>3, <1>7 DEF SlotsAreKept, JobIsRight, StagesAreRight
<1>9. QED
  BY <1>1, <1>2, <1>8 DEF BackendsAreSound

\* For any number of jobs, slots and turns of a chat: whatever ends a request, its charges are
\* booked, its answer is the end of a turn, nothing it held is left, and no more children and
\* tool sessions run than there are slots.
THEOREM BackendsHold == BackendsSpec => []BackendsAreSound
<1>1. BackendsInit => BackendsInv
  BY BackendsStart
<1>2. BackendsInv /\ [BackendsNext]_backendVars => BackendsInv'
  BY BackendsStep
<1>3. BackendsInv => BackendsAreSound
  BY BackendsAreKept
<1>4. QED
  BY <1>1, <1>2, <1>3, PTL DEF BackendsSpec

-----------------------------------------------------------------------------
(***************************************************************************)
(* The recursive functions of the replay and of the loaders, alike: each   *)
(* takes one step after another from where it begins, over a ledger, a     *)
(* batch of links or the rows of a file.  Then the replay.                 *)
(***************************************************************************)
Climb(edges, s) == s \cup UNION {ContainersIn(edges, b) : b \in s}
BindAt(d, relations, edges, n) == IF n \notin DOMAIN relations THEN edges ELSE Bound(d, edges, relations[n])
BookAt(good, d, n) ==
  IF n \notin DOMAIN good THEN d ELSE BackfillIssue(d, OccurrenceKey(good, n), good[n])

Step(kind, p, r, e) ==
  CASE kind = "keep"    -> Keep(r, e)
    [] kind = "foresee" -> Foresee(r, e)
    [] kind = "link"    -> Linked(r, p, e)
    [] kind = "climb"   -> Climb(p, r)
    [] kind = "bind"    -> BindAt(p[1], p[2], r, e)
    [] kind = "book"    -> BookAt(p, r, e)
    [] OTHER            -> Advance(r, e)

IsCourse(f, N, kind, p, b, x) ==
  f = [n \in 0..N |-> IF n = 0 THEN b ELSE Step(kind, p, f[n - 1], x[n])]

LEMMA CourseExists ==
  ASSUME NEW N \in Nat, NEW kind, NEW p, NEW b, NEW x
  PROVE  \E f : IsCourse(f, N, kind, p, b, x)
<1> DEFINE Is(f, k) == IsCourse(f, k, kind, p, b, x)
           G == {k \in 0..N : \E f : Is(f, k)}
<1>1. \E f : Is(f, 0)
  <2>1. PICK f : f = [n \in 0..0 |-> b]
    OBVIOUS
  <2>2. Is(f, 0)
    BY <2>1 DEF IsCourse
  <2>3. QED
    BY <2>2
<1>2. ASSUME NEW k \in 1..N, \E f : Is(f, k - 1) PROVE \E f : Is(f, k)
  <2>1. PICK f : Is(f, k - 1)
    BY <1>2
  <2>2. PICK g : g = [n \in 0..k |-> IF n = k THEN Step(kind, p, f[k - 1], x[k]) ELSE f[n]]
    OBVIOUS
  <2>3. k \in Nat /\ k # 0 /\ k - 1 \in 0..k /\ k - 1 # k
    OBVIOUS
  <2>4. g[k - 1] = f[k - 1]
    BY <2>2, <2>3
  <2>5. ASSUME NEW n \in 0..k
        PROVE  g[n] = IF n = 0 THEN b ELSE Step(kind, p, g[n - 1], x[n])
    <3>1. CASE n = k
      BY <2>2, <2>3, <2>4, <3>1
    <3>2. CASE n # k
      <4>1. n \in 0..(k - 1) /\ (n # 0 => n - 1 \in 0..k /\ n - 1 # k)
        BY <2>3, <2>5, <3>2
      <4>2. g[n] = f[n] /\ (n # 0 => g[n - 1] = f[n - 1])
        BY <2>2, <2>5, <3>2, <4>1
      <4>3. f[n] = IF n = 0 THEN b ELSE Step(kind, p, f[n - 1], x[n])
        BY <2>1, <4>1 DEF IsCourse
      <4>4. QED
        BY <4>2, <4>3
    <3>3. QED
      BY <3>1, <3>2
  <2>6. Is(g, k)
    BY <2>2, <2>5 DEF IsCourse
  <2>7. QED
    BY <2>6
<1> HIDE DEF Is
<1>3. 0 \in G /\ \A n \in 1..N : n - 1 \in G => n \in G
  BY <1>1, <1>2
<1>4. G \in SUBSET (0..N)
  OBVIOUS
<1> HIDE DEF G
<1>5. G = 0..N
  BY <1>3, <1>4, BoundedInduction
<1>6. \E f : Is(f, N)
  BY <1>5 DEF G
<1>7. QED
  BY <1>6 DEF Is

LEMMA CourseSteps ==
  ASSUME NEW N \in Nat, NEW kind, NEW p, NEW b, NEW x, NEW f, IsCourse(f, N, kind, p, b, x)
  PROVE  f[0] = b /\ \A n \in 1..N : f[n] = Step(kind, p, f[n - 1], x[n])
<1>1. f = [n \in 0..N |-> IF n = 0 THEN b ELSE Step(kind, p, f[n - 1], x[n])]
  BY DEF IsCourse
<1>2. f[0] = b
  <2>1. 0 \in 0..N
    OBVIOUS
  <2>2. QED
    BY <1>1, <2>1
<1>3. ASSUME NEW n \in 1..N PROVE f[n] = Step(kind, p, f[n - 1], x[n])
  <2>1. n \in 0..N /\ n # 0
    OBVIOUS
  <2>2. QED
    BY <1>1, <2>1
<1>4. QED
  BY <1>2, <1>3

LEMMA KeptStep ==
  ASSUME NEW lines, Len(lines) \in Nat
  PROVE  /\ Kept(lines)[0] = <<>>
         /\ \A n \in 1..Len(lines) : Kept(lines)[n] = Keep(Kept(lines)[n - 1], lines[n])
<1> DEFINE Is(f) == f = [n \in 0..Len(lines) |-> IF n = 0 THEN <<>> ELSE Keep(f[n - 1], lines[n])]
<1>1. \A f : Is(f) <=> IsCourse(f, Len(lines), "keep", <<>>, <<>>, lines)
  BY DEF IsCourse, Step
<1>2. Kept(lines) = CHOOSE f : Is(f)
  BY DEF Kept
<1> HIDE DEF Is
<1>3. \E f : Is(f)
  BY <1>1, CourseExists
<1>4. IsCourse(Kept(lines), Len(lines), "keep", <<>>, <<>>, lines)
  BY <1>1, <1>2, <1>3
<1>5. QED
  BY <1>4, CourseSteps DEF Step

LEMMA ForeseenStep ==
  ASSUME NEW events, Len(events) \in Nat
  PROVE  /\ Foreseen(events)[0] = [p |-> Fresh, applied |-> 0]
         /\ \A n \in 1..Len(events) :
              Foreseen(events)[n] = Foresee(Foreseen(events)[n - 1], events[n])
<1> DEFINE b == [p |-> Fresh, applied |-> 0]
           Is(f) == f = [n \in 0..Len(events) |-> IF n = 0 THEN b ELSE Foresee(f[n - 1], events[n])]
<1>1. Foreseen(events) = CHOOSE f : Is(f)
  BY DEF Foreseen
<1>2. \A f : Is(f) <=> IsCourse(f, Len(events), "foresee", <<>>, b, events)
  BY DEF IsCourse, Step
<1> HIDE DEF Is, b
<1>3. \E f : Is(f)
  BY <1>2, CourseExists
<1>4. IsCourse(Foreseen(events), Len(events), "foresee", <<>>, b, events)
  BY <1>1, <1>2, <1>3
<1>5. QED
  BY <1>4, CourseSteps DEF Step, b

LEMMA StraightStep ==
  ASSUME NEW events, Len(events) \in Nat
  PROVE  /\ Straight(events)[0] = Outset
         /\ \A n \in 1..Len(events) :
              Straight(events)[n] = Advance(Straight(events)[n - 1], events[n])
<1> DEFINE Is(f) == f = [n \in 0..Len(events) |-> IF n = 0 THEN Outset ELSE Advance(f[n - 1], events[n])]
<1>1. Straight(events) = CHOOSE f : Is(f)
  BY DEF Straight
<1>2. \A f : Is(f) <=> IsCourse(f, Len(events), "advance", <<>>, Outset, events)
  BY DEF IsCourse, Step
<1> HIDE DEF Is
<1>3. \E f : Is(f)
  BY <1>2, CourseExists
<1>4. IsCourse(Straight(events), Len(events), "advance", <<>>, Outset, events)
  BY <1>1, <1>2, <1>3
<1>5. QED
  BY <1>4, CourseSteps DEF Step

LEMMA LinkingStep ==
  ASSUME NEW s, NEW p, Len(p.links) \in Nat
  PROVE  /\ Linking(s, p)[0] = s
         /\ \A n \in 1..Len(p.links) :
              Linking(s, p)[n] = Linked(Linking(s, p)[n - 1], p, p.links[n])
<1> DEFINE N == Len(p.links)
           x == p.links
           Is(f) == f = [n \in 0..N |-> IF n = 0 THEN s ELSE Linked(f[n - 1], p, x[n])]
<1>1. Linking(s, p) = CHOOSE f : Is(f)
  BY DEF Linking
<1>2. \A f : Is(f) <=> IsCourse(f, N, "link", p, s, x)
  BY DEF IsCourse, Step
<1>3. N \in Nat
  OBVIOUS
<1> HIDE DEF Is, N, x
<1>4. \E f : Is(f)
  BY <1>2, <1>3, CourseExists
<1>5. IsCourse(Linking(s, p), N, "link", p, s, x)
  BY <1>1, <1>2, <1>4
<1>6. QED
  BY <1>3, <1>5, CourseSteps DEF Step, N, x

-----------------------------------------------------------------------------
\* What the reader has kept: events, in order of seq and of time.
Sorted(events) ==
  /\ events \in Seq(Line)
  /\ \A m, n \in 1..Len(events) : m < n => events[m].seq < events[n].seq /\ events[m].at <= events[n].at

LEMMA LineFits ==
  ASSUME NEW l \in Line
  PROVE  /\ l.seq \in Nat /\ l.seq # 0 /\ l.at \in Nat
         /\ l.asset \in Machines /\ l.parent \in Machines \cup {Nil}
         /\ l.kind = "item" => l.item \in SeedItems
         /\ l.kind = "open" => l.wo \in SeedOrders
BY DEF Line

LEMMA KeepSorts ==
  ASSUME NEW kept, Sorted(kept), NEW l \in Line
  PROVE  Sorted(Keep(kept, l))
<1>1. kept \in Seq(Line) /\ Len(kept) \in Nat
  BY DEF Sorted
<1>2. CASE Keep(kept, l) = kept
  BY <1>2
<1>3. CASE Keep(kept, l) # kept
  <2>1. PICK k : k = Append(kept, l)
    OBVIOUS
  <2>2. Keep(kept, l) = k /\ (kept # <<>> => l.seq > kept[Len(kept)].seq /\ l.at >= kept[Len(kept)].at)
    BY <1>3, <2>1 DEF Keep, Last
  <2>3. k \in Seq(Line) /\ Len(k) = Len(kept) + 1 /\ k[Len(kept) + 1] = l
        /\ \A n \in 1..Len(kept) : k[n] = kept[n]
    BY <1>1, <2>1
  <2>4. ASSUME NEW m \in 1..Len(k), NEW n \in 1..Len(k), m < n
        PROVE  k[m].seq < k[n].seq /\ k[m].at <= k[n].at
    <3>1. m \in 1..Len(kept) /\ k[m] = kept[m]
      BY <1>1, <2>3, <2>4
    <3>2. CASE n \in 1..Len(kept)
      BY <2>3, <2>4, <3>1, <3>2 DEF Sorted
    <3>3. CASE n \notin 1..Len(kept)
      <4>1. n = Len(kept) + 1 /\ k[n] = l
        BY <1>1, <2>3, <2>4, <3>3
      <4>2. Len(kept) \in 1..Len(kept) /\ kept # <<>> /\ (m < Len(kept) \/ m = Len(kept))
        BY <1>1, <3>1
      <4>3. kept[m].seq <= kept[Len(kept)].seq /\ kept[m].at <= kept[Len(kept)].at
        <5>1. kept[m] \in Line
          BY <1>1, <3>1
        <5>2. kept[m].seq \in Nat /\ kept[m].at \in Nat
          BY <5>1, LineFits
        <5>3. CASE m = Len(kept)
          BY <5>2, <5>3
        <5>4. CASE m < Len(kept)
          <6>1. kept[Len(kept)] \in Line
            BY <1>1, <4>2
          <6>2. kept[Len(kept)].seq \in Nat
            BY <6>1, LineFits
          <6>3. kept[m].seq < kept[Len(kept)].seq /\ kept[m].at <= kept[Len(kept)].at
            BY <3>1, <4>2, <5>4 DEF Sorted
          <6>4. QED
            BY <5>2, <6>2, <6>3
        <5>5. QED
          BY <4>2, <5>3, <5>4
      <4>4. kept[m] \in Line /\ kept[Len(kept)] \in Line
        BY <1>1, <3>1, <4>2
      <4>5. kept[m].seq \in Nat /\ kept[Len(kept)].seq \in Nat /\ l.seq \in Nat
            /\ kept[m].at \in Nat /\ kept[Len(kept)].at \in Nat /\ l.at \in Nat
        BY <4>4, LineFits
      <4>6. l.seq > kept[Len(kept)].seq /\ l.at >= kept[Len(kept)].at
        BY <2>2, <4>2
      <4>7. kept[m].seq < l.seq /\ kept[m].at <= l.at
        BY <4>3, <4>5, <4>6, SMTT(30)
      <4>8. QED
        BY <3>1, <4>1, <4>7
    <3>4. QED
      BY <3>2, <3>3
  <2>5. QED
    BY <2>2, <2>3, <2>4 DEF Sorted
<1>4. QED
  BY <1>2, <1>3

LEMMA KeptIsSorted ==
  ASSUME NEW lines \in Seq(Line)
  PROVE  \A n \in 0..Len(lines) : Sorted(Kept(lines)[n])
<1> DEFINE N == Len(lines)
           G == {n \in 0..N : Sorted(Kept(lines)[n])}
<1>1. N \in Nat
  OBVIOUS
<1>2. Sorted(<<>>)
  BY DEF Sorted
<1>3. 0 \in G
  BY <1>1, <1>2, KeptStep
<1>4. ASSUME NEW n \in 1..N, n - 1 \in G PROVE n \in G
  <2>1. Kept(lines)[n] = Keep(Kept(lines)[n - 1], lines[n]) /\ lines[n] \in Line
    BY <1>1, <1>4, KeptStep
  <2>2. Sorted(Kept(lines)[n - 1])
    BY <1>4
  <2>3. Sorted(Kept(lines)[n])
    BY <2>1, <2>2, KeepSorts
  <2>4. QED
    BY <1>1, <1>4, <2>3
<1>5. G \in SUBSET (0..N)
  OBVIOUS
<1> HIDE DEF G
<1>6. G = 0..N
  BY <1>1, <1>3, <1>4, <1>5, BoundedInduction
<1>7. QED
  BY <1>6 DEF G

LEMMA LedgerIsSorted ==
  ASSUME NEW lines \in Seq(Line)
  PROVE  Sorted(ReadLedger(lines))
<1>1. Len(lines) \in 0..Len(lines)
  OBVIOUS
<1>2. QED
  BY <1>1, KeptIsSorted DEF ReadLedger

\* Numbers that never fall are up to a bound first and above it afterwards.
LEMMA CutExists ==
  ASSUME NEW N \in Nat, NEW v, \A n \in 1..N : v[n] \in Nat,
         \A m, n \in 1..N : m < n => v[m] <= v[n], NEW b \in Nat
  PROVE  \E k \in 0..N : \A n \in 1..N : n <= k <=> v[n] <= b
<1> DEFINE Above == {n \in 1..N : v[n] > b}
<1>1. CASE Above = {}
  <2>1. N \in 0..N /\ \A n \in 1..N : n <= N /\ v[n] <= b
    BY <1>1
  <2>2. QED
    BY <2>1
<1>2. CASE Above # {}
  <2>1. Above \in SUBSET Nat
    OBVIOUS
  <2> HIDE DEF Above
  <2>2. PICK k \in Above : \A m \in Above : k <= m
    BY <1>2, <2>1, LeastOf
  <2>3. k \in 1..N /\ v[k] > b /\ v[k] \in Nat
    BY <2>2 DEF Above
  <2>4. ASSUME NEW n \in 1..N PROVE n <= k - 1 <=> v[n] <= b
    <3>1. CASE n < k
      <4>1. n \notin Above
        BY <2>2, <2>3, <2>4, <3>1
      <4>2. QED
        BY <2>3, <2>4, <3>1, <4>1 DEF Above
    <3>2. CASE n = k
      BY <2>3, <3>2
    <3>3. CASE k < n
      <4>1. v[k] <= v[n] /\ v[n] \in Nat
        BY <2>3, <2>4, <3>3
      <4>2. QED
        BY <2>3, <2>4, <3>3, <4>1
    <3>4. QED
      BY <2>3, <2>4, <3>1, <3>2, <3>3
  <2>5. k - 1 \in 0..N
    BY <2>3
  <2>6. QED
    BY <2>4, <2>5
<1>3. QED
  BY <1>1, <1>2

LEMMA ConsumedIs ==
  ASSUME NEW events, Sorted(events), NEW after \in Nat
  PROVE  /\ Consumed(events, after) \in 0..Len(events)
         /\ \A n \in 1..Len(events) : n <= Consumed(events, after) <=> events[n].seq <= after
<1>1. events \in Seq(Line) /\ Len(events) \in Nat
  BY DEF Sorted
<1>2. PICK v : v = [n \in 1..Len(events) |-> events[n].seq]
  OBVIOUS
<1>3. \A n \in 1..Len(events) : events[n] \in Line /\ v[n] = events[n].seq
  BY <1>1, <1>2
<1>4. \A n \in 1..Len(events) : v[n] \in Nat
  BY <1>3, LineFits
<1>5. \A m, n \in 1..Len(events) : m < n => v[m] < v[n]
  BY <1>3 DEF Sorted
<1>6. \A m, n \in 1..Len(events) : m < n => v[m] <= v[n]
  BY <1>4, <1>5
<1>7. \E k \in 0..Len(events) : \A n \in 1..Len(events) : n <= k <=> v[n] <= after
  BY <1>1, <1>4, <1>6, CutExists
<1>8. \E k \in 0..Len(events) : \A n \in 1..Len(events) : n <= k <=> events[n].seq <= after
  BY <1>3, <1>7
<1>9. QED
  BY <1>8 DEF Consumed

LEMMA DueIs ==
  ASSUME NEW events, Sorted(events), NEW until \in Nat
  PROVE  /\ Due(events, until) \in 0..Len(events)
         /\ \A n \in 1..Len(events) : n <= Due(events, until) <=> events[n].at <= until
<1>1. events \in Seq(Line) /\ Len(events) \in Nat
  BY DEF Sorted
<1>2. PICK v : v = [n \in 1..Len(events) |-> events[n].at]
  OBVIOUS
<1>3. \A n \in 1..Len(events) : events[n] \in Line /\ v[n] = events[n].at
  BY <1>1, <1>2
<1>4. \A n \in 1..Len(events) : v[n] \in Nat
  BY <1>3, LineFits
<1>5. \A m, n \in 1..Len(events) : m < n => v[m] <= v[n]
  BY <1>3 DEF Sorted
<1>6. \E k \in 0..Len(events) : \A n \in 1..Len(events) : n <= k <=> v[n] <= until
  BY <1>1, <1>4, <1>5, CutExists
<1>7. \E k \in 0..Len(events) : \A n \in 1..Len(events) : n <= k <=> events[n].at <= until
  BY <1>3, <1>6
<1>8. QED
  BY <1>7 DEF Due

\* Before the first event, and once an event has been consumed.
LEMMA ConsumedMoves ==
  ASSUME NEW events, Sorted(events)
  PROVE  /\ Consumed(events, 0) = 0
         /\ \A n \in 1..Len(events) : Consumed(events, events[n].seq) = n
<1>1. events \in Seq(Line) /\ Len(events) \in Nat
  BY DEF Sorted
<1>2. \A n \in 1..Len(events) : events[n].seq \in Nat /\ events[n].seq # 0
  <2> SUFFICES ASSUME NEW n \in 1..Len(events) PROVE events[n].seq \in Nat /\ events[n].seq # 0
    OBVIOUS
  <2>1. events[n] \in Line
    BY <1>1
  <2>2. QED
    BY <2>1, LineFits
<1>3. Consumed(events, 0) = 0
  <2>1. PICK k : k = Consumed(events, 0)
    OBVIOUS
  <2>2. k \in 0..Len(events) /\ \A n \in 1..Len(events) : n <= k <=> events[n].seq <= 0
    BY <2>1, ConsumedIs
  <2>3. k \notin 1..Len(events)
    <3>1. SUFFICES ASSUME k \in 1..Len(events) PROVE FALSE
      OBVIOUS
    <3>2. events[k].seq <= 0
      BY <2>2, <3>1
    <3>3. QED
      BY <1>2, <3>1, <3>2
  <2>4. QED
    BY <1>1, <2>1, <2>2, <2>3
<1>4. ASSUME NEW n \in 1..Len(events) PROVE Consumed(events, events[n].seq) = n
  <2>1. PICK k : k = Consumed(events, events[n].seq)
    OBVIOUS
  <2>2. k \in 0..Len(events) /\ \A m \in 1..Len(events) : m <= k <=> events[m].seq <= events[n].seq
    BY <1>2, <1>4, <2>1, ConsumedIs
  <2>3. n <= k
    BY <1>2, <1>4, <2>2
  <2>4. ~(n < k)
    <3>1. SUFFICES ASSUME n < k PROVE FALSE
      OBVIOUS
    <3>2. k \in 1..Len(events)
      BY <1>1, <1>4, <2>2, <3>1
    <3>3. events[k].seq <= events[n].seq
      BY <2>2, <3>2
    <3>4. events[n].seq < events[k].seq
      BY <1>4, <3>1, <3>2 DEF Sorted
    <3>5. QED
      BY <1>2, <1>4, <3>2, <3>3, <3>4
  <2>5. QED
    BY <1>1, <1>4, <2>1, <2>2, <2>3, <2>4
<1>5. QED
  BY <1>3, <1>4

-----------------------------------------------------------------------------
(***************************************************************************)
(* The links.  A batch is flushed at the end of every run, whole or in     *)
(* part, and again with what is defined later: what an earlier flush has   *)
(* joined, the last one joins as well.                                     *)
(***************************************************************************)
IsShop(s) ==
  /\ s = [assets |-> s.assets, above |-> s.above, stock |-> s.stock, wos |-> s.wos]
  /\ s.assets \subseteq Machines /\ s.above \in [Machines -> Machines \cup {Nil}]
  /\ DOMAIN s.stock \subseteq SeedItems /\ DOMAIN s.wos \subseteq SeedOrders

SameElse(s, t) == s.assets = t.assets /\ s.stock = t.stock /\ s.wos = t.wos

\* Who is below an asset in the one is below it in the other.
Within(s, t) == \A c \in Machines : s.above[c] # Nil => t.above[c] = s.above[c]

Between(x, low, high) == IsShop(x) /\ SameElse(x, low) /\ Within(low, x) /\ Within(x, high)

Forest(s) == \A c \in Machines : s.above[c] # Nil => c \notin AncestorsOf(s, s.above[c])

Joins(s, p, link) ==
  /\ link[1] \in p.assets /\ {link[1], link[2]} \subseteq s.assets
  /\ s.above[link[2]] = Nil /\ link[2] \notin AncestorsOf(s, link[1])

LEMMA NotAncestor ==
  ASSUME NEW s, NEW a, NEW b \in Machines
  PROVE  b \notin AncestorsOf(s, a) <=> \E set \in SUBSET Machines : a \in set /\ Upward(s, set) /\ b \notin set
BY DEF AncestorsOf

LEMMA AncestorsGrow ==
  ASSUME NEW s, NEW t, Within(s, t), NEW a
  PROVE  AncestorsOf(s, a) \subseteq AncestorsOf(t, a)
<1>1. ASSUME NEW set \in SUBSET Machines, Upward(t, set) PROVE Upward(s, set)
  BY <1>1 DEF Upward, Within
<1>2. QED
  BY <1>1 DEF AncestorsOf

LEMMA LinkedIs ==
  ASSUME NEW s, IsShop(s), NEW p, NEW link \in Machines \X Machines
  PROVE  /\ IsShop(Linked(s, p, link)) /\ SameElse(s, Linked(s, p, link))
         /\ Within(s, Linked(s, p, link))
         /\ ~Joins(s, p, link) => Linked(s, p, link) = s
         /\ Joins(s, p, link) => Linked(s, p, link).above = [s.above EXCEPT ![link[2]] = link[1]]
<1>1. link[1] \in Machines /\ link[2] \in Machines
  OBVIOUS
<1>2. CASE ~Joins(s, p, link)
  <2>1. Linked(s, p, link) = s
    BY <1>2 DEF Linked, Joins
  <2>2. QED
    BY <1>2, <2>1 DEF SameElse, Within
<1>3. CASE Joins(s, p, link)
  <2>1. PICK t : t = [s EXCEPT !.above[link[2]] = link[1]]
    OBVIOUS
  <2>2. Linked(s, p, link) = t
    BY <1>3, <2>1 DEF Linked, Joins
  <2>3. t = [assets |-> s.assets, above |-> [s.above EXCEPT ![link[2]] = link[1]],
             stock |-> s.stock, wos |-> s.wos]
    BY <2>1 DEF IsShop
  <2>4. t.above = [s.above EXCEPT ![link[2]] = link[1]] /\ SameElse(s, t)
    BY <2>3 DEF SameElse
  <2>5. t.above \in [Machines -> Machines \cup {Nil}]
    BY <1>1, <2>4 DEF IsShop
  <2>6. IsShop(t)
    BY <2>3, <2>4, <2>5 DEF IsShop
  <2>7. Within(s, t)
    <3>1. s.above[link[2]] = Nil
      BY <1>3 DEF Joins
    <3>2. QED
      BY <2>4, <3>1 DEF Within, IsShop
  <2>8. QED
    BY <1>3, <2>2, <2>4, <2>6, <2>7
<1>4. QED
  BY <1>2, <1>3

LEMMA LinkedStaysForest ==
  ASSUME NEW s, IsShop(s), Forest(s), NEW p, NEW link \in Machines \X Machines
  PROVE  Forest(Linked(s, p, link))
<1>1. CASE ~Joins(s, p, link)
  <2>1. Linked(s, p, link) = s
    BY <1>1, LinkedIs
  <2>2. QED
    BY <2>1
<1>2. CASE Joins(s, p, link)
  <2>1. PICK t : t = Linked(s, p, link)
    OBVIOUS
  <2>2. PICK up : up = link[1]
    OBVIOUS
  <2>3. PICK c : c = link[2]
    OBVIOUS
  <2>4. up \in Machines /\ c \in Machines /\ t.above = [s.above EXCEPT ![c] = up]
    BY <1>2, <2>1, <2>2, <2>3, LinkedIs
  <2>5. s.above \in [Machines -> Machines \cup {Nil}]
    BY DEF IsShop
  <2>6. t.above[c] = up /\ \A d \in Machines : d # c => t.above[d] = s.above[d]
    BY <2>4, <2>5
  <2>7. c \notin AncestorsOf(s, up)
    BY <1>2, <2>2, <2>3 DEF Joins
  <2>8. PICK u \in SUBSET Machines : up \in u /\ Upward(s, u) /\ c \notin u
    BY <2>4, <2>7, NotAncestor
  <2>9. ASSUME NEW d \in Machines, t.above[d] # Nil
        PROVE  d \notin AncestorsOf(t, t.above[d])
    <3>1. CASE d = c
      <4>1. Upward(t, u)
        BY <2>6, <2>8 DEF Upward
      <4>2. QED
        BY <2>4, <2>6, <2>8, <3>1, <4>1, NotAncestor
    <3>2. CASE d # c
      <4>1. t.above[d] = s.above[d]
        BY <2>6, <2>9, <3>2
      <4>2. d \notin AncestorsOf(s, s.above[d])
        BY <2>9, <4>1 DEF Forest
      <4>3. PICK w \in SUBSET Machines : s.above[d] \in w /\ Upward(s, w) /\ d \notin w
        BY <2>9, <4>2, NotAncestor
      <4>4. CASE d \in u
        <5>1. PICK x \in SUBSET Machines : x = u \cap w
          OBVIOUS
        <5>2. s.above[d] \in x /\ d \notin x
          BY <2>8, <2>9, <4>1, <4>3, <4>4, <5>1 DEF Upward
        <5>3. Upward(t, x)
          BY <2>6, <2>8, <4>3, <5>1 DEF Upward
        <5>4. QED
          BY <2>9, <4>1, <5>2, <5>3, NotAncestor
      <4>5. CASE d \notin u
        <5>1. PICK x \in SUBSET Machines : x = u \cup w
          OBVIOUS
        <5>2. s.above[d] \in x /\ d \notin x
          BY <4>3, <4>5, <5>1
        <5>3. Upward(t, x)
          BY <2>6, <2>8, <4>3, <5>1 DEF Upward
        <5>4. QED
          BY <2>9, <4>1, <5>2, <5>3, NotAncestor
      <4>6. QED
        BY <4>4, <4>5
    <3>3. QED
      BY <3>1, <3>2
  <2>10. Forest(t)
    BY <2>9 DEF Forest
  <2>11. QED
    BY <2>1, <2>10
<1>3. QED
  BY <1>1, <1>2

\* Of two shops that are alike and hold each other's links, there is one.
LEMMA BetweenTwins ==
  ASSUME NEW x, NEW f, IsShop(f), Between(x, f, f)
  PROVE  x = f
<1>1. IsShop(x) /\ SameElse(x, f) /\ Within(f, x) /\ Within(x, f)
  BY DEF Between
<1>2. \A c \in Machines : x.above[c] = f.above[c]
  BY <1>1 DEF Within
<1>3. x.above \in [Machines -> Machines \cup {Nil}] /\ f.above \in [Machines -> Machines \cup {Nil}]
  BY <1>1 DEF IsShop
<1>4. x.above = f.above
  BY <1>2, <1>3
<1>5. QED
  BY <1>1, <1>4 DEF IsShop, SameElse

LEMMA WithinGoesOn ==
  ASSUME NEW s, NEW t, NEW u, Within(s, t), Within(t, u)
  PROVE  Within(s, u)
BY DEF Within

\* A batch of links that waits: each asset is linked once, and is not linked yet.
IsChecker(p) ==
  /\ p = [assets |-> p.assets, items |-> p.items, wos |-> p.wos, links |-> p.links]
  /\ p.links \in Seq(Machines \X Machines)

Waiting(s, p) ==
  /\ IsShop(s) /\ Forest(s) /\ IsChecker(p) /\ p.assets = s.assets
  /\ \A c \in Machines : s.above[c] # Nil => c \in s.assets
  /\ \A n \in 1..Len(p.links) : p.links[n][2] \in s.assets /\ s.above[p.links[n][2]] = Nil
  /\ \A m, n \in 1..Len(p.links) : p.links[m][2] = p.links[n][2] => m = n

\* The links of a batch, one by one.
LEMMA LinkingIs ==
  ASSUME NEW s, NEW p, Waiting(s, p)
  PROVE  /\ Len(p.links) \in Nat
         /\ \A n \in 0..Len(p.links) : IsShop(Linking(s, p)[n]) /\ SameElse(s, Linking(s, p)[n])
                                       /\ Forest(Linking(s, p)[n]) /\ Within(s, Linking(s, p)[n])
         /\ \A n \in 1..Len(p.links) :
              /\ p.links[n] \in Machines \X Machines
              /\ Linking(s, p)[n] = Linked(Linking(s, p)[n - 1], p, p.links[n])
              /\ Within(Linking(s, p)[n - 1], Linking(s, p)[n])
<1> DEFINE N == Len(p.links)
           L == Linking(s, p)
           G == {n \in 0..N : IsShop(L[n]) /\ SameElse(s, L[n]) /\ Forest(L[n]) /\ Within(s, L[n])}
<1>1. N \in Nat /\ \A n \in 1..N : p.links[n] \in Machines \X Machines
  BY DEF Waiting, IsChecker
<1>2. L[0] = s /\ \A n \in 1..N : L[n] = Linked(L[n - 1], p, p.links[n])
  BY <1>1, LinkingStep
<1>3. 0 \in G
  BY <1>1, <1>2 DEF Waiting, SameElse, Within
<1> HIDE DEF L
<1>4. ASSUME NEW n \in 1..N, n - 1 \in G PROVE n \in G
  <2>1. IsShop(L[n - 1]) /\ SameElse(s, L[n - 1]) /\ Forest(L[n - 1]) /\ Within(s, L[n - 1])
    BY <1>4
  <2>2. p.links[n] \in Machines \X Machines /\ L[n] = Linked(L[n - 1], p, p.links[n])
    BY <1>1, <1>2, <1>4
  <2>3. PICK low : low = L[n - 1]
    OBVIOUS
  <2>4. PICK link \in Machines \X Machines : link = p.links[n]
    BY <2>2
  <2>5. IsShop(low) /\ Forest(low) /\ L[n] = Linked(low, p, link)
    BY <2>1, <2>2, <2>3, <2>4
  <2>6. IsShop(Linked(low, p, link)) /\ SameElse(low, Linked(low, p, link))
         /\ Within(low, Linked(low, p, link)) /\ Forest(Linked(low, p, link))
    BY <2>5, LinkedIs, LinkedStaysForest
  <2>7. IsShop(L[n]) /\ SameElse(L[n - 1], L[n]) /\ Within(L[n - 1], L[n])
    BY <2>3, <2>5, <2>6
  <2>8. Forest(L[n])
    BY <2>5, <2>6
  <2>9. Within(s, L[n]) /\ SameElse(s, L[n])
    BY <2>1, <2>7, WithinGoesOn DEF SameElse
  <2>10. QED
    BY <1>1, <1>4, <2>7, <2>8, <2>9
<1>5. G \in SUBSET (0..N)
  OBVIOUS
<1> HIDE DEF G
<1>6. G = 0..N
  BY <1>1, <1>3, <1>4, <1>5, BoundedInduction
<1>7. ASSUME NEW n \in 1..N PROVE Within(L[n - 1], L[n])
  <2>1. n - 1 \in G
    BY <1>1, <1>6, <1>7
  <2>2. IsShop(L[n - 1]) /\ p.links[n] \in Machines \X Machines
        /\ L[n] = Linked(L[n - 1], p, p.links[n])
    BY <1>1, <1>2, <1>7, <2>1 DEF G
  <2>3. PICK low : low = L[n - 1]
    OBVIOUS
  <2>4. PICK link \in Machines \X Machines : link = p.links[n]
    BY <2>2
  <2>5. IsShop(low) /\ L[n] = Linked(low, p, link)
    BY <2>2, <2>3, <2>4
  <2>6. Within(low, Linked(low, p, link))
    BY <2>5, LinkedIs
  <2>7. QED
    BY <2>3, <2>5, <2>6
<1>8. \A n \in 0..N : IsShop(L[n]) /\ SameElse(s, L[n]) /\ Forest(L[n]) /\ Within(s, L[n])
  BY <1>6 DEF G
<1>9. QED
  BY <1>1, <1>2, <1>7, <1>8 DEF L

\* Each step of the batch is within its end.
LEMMA LinkingIsWithin ==
  ASSUME NEW s, NEW p, Waiting(s, p)
  PROVE  \A n \in 0..Len(p.links) : Within(Linking(s, p)[n], AllLinked(s, p))
<1> DEFINE N == Len(p.links)
           L == Linking(s, p)
           G == {n \in 0..N : \A m \in 0..n : Within(L[m], L[n])}
<1>1. N \in Nat /\ \A n \in 1..N : Within(L[n - 1], L[n])
  BY LinkingIs
<1> HIDE DEF L
<1>2. 0 \in G
  BY <1>1 DEF Within
<1>3. ASSUME NEW n \in 1..N, n - 1 \in G PROVE n \in G
  <2>1. SUFFICES ASSUME NEW m \in 0..n PROVE Within(L[m], L[n])
    BY <1>1, <1>3
  <2>2. CASE m = n
    BY <2>2 DEF Within
  <2>3. CASE m # n
    <3>1. m \in 0..(n - 1)
      BY <1>3, <2>1, <2>3
    <3>2. Within(L[m], L[n - 1])
      BY <1>3, <3>1
    <3>3. QED
      BY <1>1, <1>3, <3>2, WithinGoesOn
  <2>4. QED
    BY <2>2, <2>3
<1>4. G \in SUBSET (0..N)
  OBVIOUS
<1> HIDE DEF G
<1>5. G = 0..N
  BY <1>1, <1>2, <1>3, <1>4, BoundedInduction
<1>6. N \in G
  BY <1>1, <1>5
<1>7. QED
  BY <1>6 DEF G, L, N, AllLinked

\* A shop that an earlier flush has left between two steps of the batch goes on to the next.
LEMMA LinkCatchesUp ==
  ASSUME NEW s, NEW p, Waiting(s, p), NEW n \in 1..Len(p.links), NEW x,
         Between(x, Linking(s, p)[n - 1], AllLinked(s, p))
  PROVE  Between(Linked(x, p, p.links[n]), Linking(s, p)[n], AllLinked(s, p))
<1>1. PICK f : f = AllLinked(s, p)
  OBVIOUS
<1>2. PICK low : low = Linking(s, p)[n - 1]
  OBVIOUS
<1>3. PICK t : t = Linking(s, p)[n]
  OBVIOUS
<1>4. PICK link : link = p.links[n]
  OBVIOUS
<1>5. PICK y : y = Linked(x, p, link)
  OBVIOUS
<1>6. Len(p.links) \in Nat /\ n - 1 \in 0..Len(p.links) /\ n \in 0..Len(p.links) /\ Len(p.links) \in 0..Len(p.links)
  BY LinkingIs
<1>7. IsShop(low) /\ SameElse(s, low) /\ IsShop(f) /\ Forest(f) /\ SameElse(s, f)
  BY <1>1, <1>2, <1>6, LinkingIs DEF AllLinked
<1>8. link \in Machines \X Machines /\ t = Linked(low, p, link) /\ IsShop(t)
  BY <1>2, <1>3, <1>4, <1>6, LinkingIs
<1>9. Within(low, f) /\ Within(t, f)
  BY <1>1, <1>2, <1>3, <1>6, LinkingIsWithin
<1>10. IsShop(x) /\ SameElse(x, low) /\ Within(low, x) /\ Within(x, f)
  BY <1>1, <1>2 DEF Between
<1>11. PICK c : c = link[2]
  OBVIOUS
<1>12. PICK up : up = link[1]
  OBVIOUS
<1>13. c \in Machines /\ up \in Machines
  BY <1>8, <1>11, <1>12
<1>14. IsShop(y) /\ SameElse(x, y) /\ Within(x, y)
       /\ (~Joins(x, p, link) => y = x)
       /\ (Joins(x, p, link) => y.above = [x.above EXCEPT ![c] = up])
  BY <1>5, <1>8, <1>10, <1>11, <1>12, LinkedIs
<1>15. SameElse(low, t)
       /\ (~Joins(low, p, link) => t = low)
       /\ (Joins(low, p, link) => t.above = [low.above EXCEPT ![c] = up])
  BY <1>7, <1>8, <1>11, <1>12, LinkedIs
<1>16. SameElse(y, t)
  BY <1>10, <1>14, <1>15 DEF SameElse
<1>17. CASE Joins(low, p, link)
  <2>1. t.above[c] = up /\ \A d \in Machines : d # c => t.above[d] = low.above[d]
    BY <1>7, <1>13, <1>15, <1>17 DEF IsShop
  <2>2. up # Nil
    BY <1>13, SeedAssumption DEF SeedAssumption
  <2>3. f.above[c] = up
    BY <1>9, <1>13, <2>1, <2>2 DEF Within
  <2>4. CASE x.above[c] # Nil
    <3>1. x.above[c] = up
      BY <1>10, <1>13, <2>3, <2>4 DEF Within
    <3>2. ~Joins(x, p, link)
      BY <1>11, <2>4 DEF Joins
    <3>3. Within(t, x)
      BY <1>10, <2>1, <3>1 DEF Within
    <3>4. QED
      BY <1>1, <1>3, <1>4, <1>5, <1>10, <1>14, <1>16, <3>2, <3>3 DEF Between
  <2>5. CASE x.above[c] = Nil
    <3>1. c \notin AncestorsOf(f, up)
      BY <1>7, <1>13, <2>2, <2>3 DEF Forest
    <3>2. c \notin AncestorsOf(x, up)
      BY <1>10, <3>1, AncestorsGrow
    <3>3. Joins(x, p, link)
      BY <1>10, <1>11, <1>12, <1>17, <2>5, <3>2 DEF Joins, SameElse
    <3>4. y.above[c] = up /\ \A d \in Machines : d # c => y.above[d] = x.above[d]
      BY <1>10, <1>13, <1>14, <3>3 DEF IsShop
    <3>5. Within(t, y)
      BY <1>10, <2>1, <3>4 DEF Within
    <3>6. Within(y, f)
      BY <1>10, <2>3, <3>4 DEF Within
    <3>7. QED
      BY <1>1, <1>3, <1>4, <1>5, <1>14, <1>16, <3>5, <3>6 DEF Between
  <2>6. QED
    BY <2>4, <2>5
<1>18. CASE ~Joins(low, p, link)
  <2>1. t = low
    BY <1>15, <1>18
  <2>2. ~Joins(x, p, link)
    <3>1. SUFFICES ASSUME Joins(x, p, link) PROVE FALSE
      OBVIOUS
    <3>2. link[1] \in p.assets /\ {link[1], link[2]} \subseteq low.assets
          /\ x.above[c] = Nil /\ c \notin AncestorsOf(x, up)
      BY <1>10, <1>11, <1>12, <3>1 DEF Joins, SameElse
    <3>3. low.above[c] = Nil
      BY <1>10, <1>13, <3>2 DEF Within
    <3>4. c \notin AncestorsOf(low, up)
      BY <1>10, <3>2, AncestorsGrow
    <3>5. QED
      BY <1>11, <1>12, <1>18, <3>2, <3>3, <3>4 DEF Joins
  <2>3. y = x
    BY <1>14, <2>2
  <2>4. QED
    BY <1>1, <1>3, <1>4, <1>5, <1>10, <1>16, <2>1, <2>3 DEF Between
<1>19. QED
  BY <1>17, <1>18

\* What the batch links is in the master data.
LEMMA LinkingKnows ==
  ASSUME NEW s, NEW p, Waiting(s, p)
  PROVE  \A n \in 0..Len(p.links) : \A c \in Machines : Linking(s, p)[n].above[c] # Nil => c \in s.assets
<1> DEFINE N == Len(p.links)
           L == Linking(s, p)
           Ok(n) == \A c \in Machines : L[n].above[c] # Nil => c \in s.assets
           G == {n \in 0..N : Ok(n)}
<1>1. N \in Nat
  BY LinkingIs
<1>2. Ok(0)
  BY <1>1, LinkingStep DEF Waiting
<1>3. ASSUME NEW n \in 1..N, Ok(n - 1) PROVE Ok(n)
  <2>1. PICK low : low = L[n - 1]
    OBVIOUS
  <2>2. PICK t : t = L[n]
    OBVIOUS
  <2>3. n - 1 \in 0..N
    BY <1>1, <1>3
  <2>4. IsShop(low) /\ SameElse(s, low) /\ p.links[n] \in Machines \X Machines
        /\ t = Linked(low, p, p.links[n])
    BY <1>3, <2>1, <2>2, <2>3, LinkingIs
  <2>5. PICK link \in Machines \X Machines : link = p.links[n]
    BY <2>4
  <2>6. /\ ~Joins(low, p, link) => t = low
        /\ Joins(low, p, link) => t.above = [low.above EXCEPT ![link[2]] = link[1]]
    <3>1. IsShop(low) /\ t = Linked(low, p, link)
      BY <2>4, <2>5
    <3>2. QED
      BY <2>5, <3>1, LinkedIs
  <2>7. \A c \in Machines : low.above[c] # Nil => c \in s.assets
    BY <1>3, <2>1
  <2>8. CASE Joins(low, p, link)
    <3>1. link[2] \in s.assets
      BY <2>4, <2>8 DEF Joins, SameElse
    <3>2. \A c \in Machines : c # link[2] => t.above[c] = low.above[c]
      BY <2>4, <2>6, <2>8 DEF IsShop
    <3>3. QED
      BY <2>2, <2>7, <3>1, <3>2
  <2>9. CASE ~Joins(low, p, link)
    BY <2>2, <2>6, <2>7, <2>9
  <2>10. QED
    BY <2>8, <2>9
<1> HIDE DEF Ok
<1>4. 0 \in G /\ \A n \in 1..N : n - 1 \in G => n \in G
  BY <1>1, <1>2, <1>3
<1>5. G \in SUBSET (0..N)
  OBVIOUS
<1> HIDE DEF G
<1>6. G = 0..N
  BY <1>1, <1>4, <1>5, BoundedInduction
<1>7. QED
  BY <1>6 DEF G, Ok

\* An asset more, and perhaps its link at the end of the batch.
Grows(s, p, a, t, q) ==
  /\ Waiting(s, p) /\ Waiting(t, q)
  /\ a \in Machines /\ a \notin s.assets
  /\ t.assets = s.assets \cup {a} /\ t.above = s.above
  /\ Len(p.links) <= Len(q.links) /\ \A n \in 1..Len(p.links) : q.links[n] = p.links[n]

\* With a defined, the longer batch has joined what the shorter one joins, and beyond that only
\* assets below a, which is itself not linked yet.
Ahead(low, high, a, later) ==
  /\ Within(low, high)
  /\ \A c \in Machines : high.above[c] # Nil => high.above[c] = low.above[c] \/ high.above[c] = a
  /\ high.above[a] = Nil
  /\ \A c \in later : high.above[c] = Nil

LEMMA LinkStaysAhead ==
  ASSUME NEW low, NEW high, NEW a \in Machines, NEW later \in SUBSET Machines,
         Ahead(low, high, a, later), IsShop(low), IsShop(high),
         high.assets = low.assets \cup {a}, a \notin low.assets,
         NEW p, NEW q, p.assets = low.assets, q.assets = high.assets,
         NEW link \in Machines \X Machines, link[2] \in later, link[2] \in low.assets
  PROVE  Ahead(Linked(low, p, link), Linked(high, q, link), a, later \ {link[2]})
<1>1. PICK up \in Machines : up = link[1]
  OBVIOUS
<1>2. PICK c \in Machines : c = link[2]
  OBVIOUS
<1>3. PICK l : l = Linked(low, p, link)
  OBVIOUS
<1>4. PICK h : h = Linked(high, q, link)
  OBVIOUS
<1>5. /\ ~Joins(low, p, link) => l = low
      /\ Joins(low, p, link) => l.above = [low.above EXCEPT ![c] = up]
  BY <1>1, <1>2, <1>3, LinkedIs
<1>6. /\ ~Joins(high, q, link) => h = high
      /\ Joins(high, q, link) => h.above = [high.above EXCEPT ![c] = up]
  BY <1>1, <1>2, <1>4, LinkedIs
<1>7. c # a /\ high.above[c] = Nil /\ low.above[c] = Nil /\ c \in low.assets
  BY <1>2 DEF Ahead, Within
<1>8. low.above \in [Machines -> Machines \cup {Nil}] /\ high.above \in [Machines -> Machines \cup {Nil}]
  BY DEF IsShop
<1>9. CASE Joins(low, p, link)
  <2>1. up \in low.assets /\ c \notin AncestorsOf(low, up)
    BY <1>1, <1>2, <1>9 DEF Joins
  <2>2. PICK set \in SUBSET Machines : up \in set /\ Upward(low, set) /\ c \notin set
    BY <1>2, <2>1, NotAncestor
  <2>3. PICK more \in SUBSET Machines : more = set \cup {a}
    OBVIOUS
  <2>4. Upward(high, more)
    BY <2>2, <2>3 DEF Upward, Ahead
  <2>5. c \notin AncestorsOf(high, up)
    BY <1>2, <1>7, <2>2, <2>3, <2>4, NotAncestor
  <2>6. Joins(high, q, link)
    BY <1>1, <1>2, <1>7, <2>1, <2>5 DEF Joins
  <2>7. l.above[c] = up /\ h.above[c] = up
        /\ \A d \in Machines : d # c => l.above[d] = low.above[d] /\ h.above[d] = high.above[d]
    BY <1>2, <1>5, <1>6, <1>8, <1>9, <2>6
  <2>8. Within(l, h) /\ h.above[a] = Nil
    BY <1>7, <2>7 DEF Within, Ahead
  <2>9. \A d \in Machines : h.above[d] # Nil => h.above[d] = l.above[d] \/ h.above[d] = a
    BY <2>7 DEF Ahead
  <2>10. \A d \in later \ {c} : h.above[d] = Nil
    BY <2>7 DEF Ahead
  <2>11. QED
    BY <1>2, <1>3, <1>4, <2>8, <2>9, <2>10 DEF Ahead
<1>10. CASE ~Joins(low, p, link) /\ Joins(high, q, link)
  <2>1. up \in low.assets \cup {a} /\ c \notin AncestorsOf(high, up)
    BY <1>1, <1>2, <1>10 DEF Joins
  <2>2. c \notin AncestorsOf(low, up)
    BY <2>1, AncestorsGrow DEF Ahead
  <2>3. up = a
    BY <1>1, <1>2, <1>7, <1>10, <2>1, <2>2 DEF Joins
  <2>4. l = low /\ h.above[c] = a /\ \A d \in Machines : d # c => h.above[d] = high.above[d]
    BY <1>2, <1>5, <1>6, <1>8, <1>10, <2>3
  <2>5. Within(l, h) /\ h.above[a] = Nil
    BY <1>7, <2>4 DEF Within, Ahead
  <2>6. \A d \in Machines : h.above[d] # Nil => h.above[d] = l.above[d] \/ h.above[d] = a
    BY <2>4 DEF Ahead
  <2>7. \A d \in later \ {c} : h.above[d] = Nil
    BY <2>4 DEF Ahead
  <2>8. QED
    BY <1>2, <1>3, <1>4, <2>5, <2>6, <2>7 DEF Ahead
<1>11. CASE ~Joins(low, p, link) /\ ~Joins(high, q, link)
  <2>1. l = low /\ h = high
    BY <1>5, <1>6, <1>11
  <2>2. QED
    BY <1>3, <1>4, <2>1 DEF Ahead
<1>12. QED
  BY <1>9, <1>10, <1>11

LEMMA GrownBatchJoinsMore ==
  ASSUME NEW s, NEW p, NEW a, NEW t, NEW q, Grows(s, p, a, t, q)
  PROVE  Within(AllLinked(s, p), AllLinked(t, q))
<1>0. /\ Waiting(s, p) /\ Waiting(t, q)
      /\ a \in Machines /\ a \notin s.assets
      /\ t.assets = s.assets \cup {a} /\ t.above = s.above
      /\ Len(p.links) <= Len(q.links) /\ \A n \in 1..Len(p.links) : q.links[n] = p.links[n]
  BY DEF Grows
<1> DEFINE N == Len(p.links)
           L == Linking(s, p)
           H == Linking(t, q)
           Later(n) == {p.links[m][2] : m \in (n + 1)..N}
           Ok(n) == Ahead(L[n], H[n], a, Later(n))
           G == {n \in 0..N : Ok(n)}
<1>1. N \in Nat /\ Len(q.links) \in Nat
      /\ \A n \in 1..N : p.links[n] \in Machines \X Machines
  BY <1>0, LinkingIs
<1>2. \A n \in 0..N : Later(n) \in SUBSET Machines
  BY <1>1
<1>3. Ok(0)
  <2>1. L[0] = s /\ H[0] = t
    BY <1>1, LinkingStep
  <2>2. s.above[a] = Nil
    BY <1>0 DEF Waiting
  <2>3. \A c \in Later(0) : s.above[c] = Nil
    BY <1>0 DEF Waiting
  <2>4. QED
    BY <1>0, <2>1, <2>2, <2>3 DEF Ahead, Within
<1>4. ASSUME NEW n \in 1..N, Ok(n - 1) PROVE Ok(n)
  <2>1. n - 1 \in 0..N /\ n - 1 \in 0..Len(q.links) /\ n \in 1..Len(q.links) /\ n \in 0..N
    BY <1>0, <1>1, <1>4
  <2>2. PICK low : low = L[n - 1]
    OBVIOUS
  <2>3. PICK high : high = H[n - 1]
    OBVIOUS
  <2>4. PICK link \in Machines \X Machines : link = p.links[n]
    BY <1>1, <1>4
  <2>5. q.links[n] = link
    BY <1>0, <1>4, <2>4
  <2>6. IsShop(low) /\ SameElse(s, low) /\ L[n] = Linked(low, p, link)
    BY <1>0, <1>4, <2>1, <2>2, <2>4, LinkingIs
  <2>7. IsShop(high) /\ SameElse(t, high) /\ H[n] = Linked(high, q, link)
    BY <1>0, <2>1, <2>3, <2>5, LinkingIs
  <2>8. PICK later \in SUBSET Machines : later = Later(n - 1)
    BY <1>2, <2>1
  <2>9. Ahead(low, high, a, later)
    BY <1>4, <2>2, <2>3, <2>8
  <2>10. high.assets = low.assets \cup {a} /\ a \notin low.assets /\ a \in Machines
    BY <1>0, <2>6, <2>7 DEF SameElse
  <2>11. p.assets = low.assets /\ q.assets = high.assets
    BY <1>0, <2>6, <2>7 DEF SameElse, Waiting
  <2>12. link[2] \in low.assets
    BY <1>0, <1>4, <2>4, <2>6 DEF SameElse, Waiting
  <2>13. link[2] \in later
    <3>1. n \in (n - 1 + 1)..N
      BY <1>1, <1>4
    <3>2. QED
      BY <2>4, <2>8, <3>1
  <2>14. Ahead(L[n], H[n], a, later \ {link[2]})
    <3>1. IsShop(low) /\ IsShop(high) /\ a \in Machines
      BY <2>6, <2>7, <2>10
    <3>2. Ahead(Linked(low, p, link), Linked(high, q, link), a, later \ {link[2]})
      BY <2>9, <2>10, <2>11, <2>12, <2>13, <3>1, LinkStaysAhead
    <3>3. QED
      BY <2>6, <2>7, <3>2
  <2>15. Later(n) \subseteq later \ {link[2]}
    <3>1. SUFFICES ASSUME NEW m \in (n + 1)..N
                   PROVE  p.links[m][2] \in Later(n - 1) /\ p.links[m][2] # link[2]
      BY <2>8
    <3>2. m \in (n - 1 + 1)..N /\ m \in 1..N /\ m # n
      BY <1>1, <1>4, <3>1
    <3>3. p.links[m][2] # p.links[n][2]
      BY <1>0, <1>4, <3>2 DEF Waiting
    <3>4. QED
      BY <2>4, <3>2, <3>3
  <2>16. QED
    BY <2>14, <2>15 DEF Ahead
<1> HIDE DEF Ok
<1>5. 0 \in G /\ \A n \in 1..N : n - 1 \in G => n \in G
  BY <1>1, <1>3, <1>4
<1>6. G \in SUBSET (0..N)
  OBVIOUS
<1> HIDE DEF G
<1>7. G = 0..N
  BY <1>1, <1>5, <1>6, BoundedInduction
<1>8. N \in G
  BY <1>1, <1>7
<1>9. Within(L[N], H[N])
  BY <1>8 DEF G, Ok, Ahead
<1>10. N \in 0..Len(q.links)
  BY <1>0, <1>1
<1>11. Within(H[N], AllLinked(t, q))
  BY <1>0, <1>10, LinkingIsWithin
<1>12. QED
  BY <1>9, <1>11, WithinGoesOn DEF AllLinked

-----------------------------------------------------------------------------
(***************************************************************************)
(* One run that is never interrupted, event by event.                      *)
(***************************************************************************)
LEMMA ForestIsOfLinks ==
  ASSUME NEW s, NEW t, s.above = t.above, Forest(s)
  PROVE  Forest(t)
BY DEF Forest, AncestorsOf, Upward

LEMMA PlannedKinds ==
  ASSUME NEW p, NEW e, Planned(p, e)
  PROVE  /\ e.kind \in {"define", "item", "open", "status", "part"}
         /\ e.kind = "define" => e.asset \notin p.assets
BY DEF Planned

LEMMA EffectIs ==
  ASSUME NEW s, IsShop(s), NEW e \in Line, NEW again,
         e.kind \in {"define", "item", "open", "status", "part"}
  PROVE  /\ IsShop(Effect(s, e, again)) /\ Effect(s, e, again).above = s.above
         /\ e.kind # "define" => Effect(s, e, again).assets = s.assets
         /\ e.kind = "define" => /\ Effect(s, e, again).assets = s.assets \cup {e.asset}
                                 /\ Effect(s, e, again).stock = s.stock
                                 /\ Effect(s, e, again).wos = s.wos
<1>1. PICK t : t = Effect(s, e, again)
  OBVIOUS
<1>2. /\ s = [assets |-> s.assets, above |-> s.above, stock |-> s.stock, wos |-> s.wos]
      /\ s.assets \subseteq Machines /\ s.above \in [Machines -> Machines \cup {Nil}]
      /\ DOMAIN s.stock \subseteq SeedItems /\ DOMAIN s.wos \subseteq SeedOrders
  BY DEF IsShop
<1>3. CASE e.kind = "define"
  <2>1. t = [assets |-> s.assets \cup {e.asset}, above |-> s.above, stock |-> s.stock, wos |-> s.wos]
    BY <1>1, <1>2, <1>3 DEF Effect
  <2>2. e.asset \in Machines
    BY LineFits
  <2>3. QED
    BY <1>1, <1>2, <1>3, <2>1, <2>2 DEF IsShop
<1>4. CASE e.kind = "item"
  <2>1. t = [assets |-> s.assets, above |-> s.above, stock |-> Put(s.stock, e.item, 0), wos |-> s.wos]
    BY <1>1, <1>2, <1>4 DEF Effect
  <2>2. e.item \in SeedItems
    BY <1>4, LineFits
  <2>3. DOMAIN Put(s.stock, e.item, 0) \subseteq SeedItems
    BY <1>2, <2>2 DEF Put
  <2>4. QED
    BY <1>1, <1>2, <1>4, <2>1, <2>3 DEF IsShop
<1>5. CASE e.kind = "open"
  <2>1. PICK wo : wo = [status |-> "OPEN", asset |-> e.asset, opener |-> e.role]
    OBVIOUS
  <2>2. t = [assets |-> s.assets, above |-> s.above, stock |-> s.stock, wos |-> Put(s.wos, e.wo, wo)]
    BY <1>1, <1>2, <1>5, <2>1 DEF Effect
  <2>3. e.wo \in SeedOrders
    BY <1>5, LineFits
  <2>4. DOMAIN Put(s.wos, e.wo, wo) \subseteq SeedOrders
    BY <1>2, <2>3 DEF Put
  <2>5. QED
    BY <1>1, <1>2, <1>5, <2>2, <2>4 DEF IsShop
<1>6. CASE e.kind = "status"
  <2>1. PICK w : w = [s.wos EXCEPT ![e.wo].status = Target(e)]
    OBVIOUS
  <2>2. t = [assets |-> s.assets, above |-> s.above, stock |-> s.stock, wos |-> w]
    BY <1>1, <1>2, <1>6, <2>1 DEF Effect
  <2>3. DOMAIN w = DOMAIN s.wos
    BY <2>1
  <2>4. QED
    BY <1>1, <1>2, <1>6, <2>2, <2>3 DEF IsShop
<1>7. CASE e.kind = "part" /\ ~again
  <2>1. PICK k : k = [s.stock EXCEPT ![e.item] = @ - 1]
    OBVIOUS
  <2>2. t = [assets |-> s.assets, above |-> s.above, stock |-> k, wos |-> s.wos]
    BY <1>1, <1>2, <1>7, <2>1 DEF Effect
  <2>3. DOMAIN k = DOMAIN s.stock
    BY <2>1
  <2>4. QED
    BY <1>1, <1>2, <1>7, <2>2, <2>3 DEF IsShop
<1>8. CASE e.kind = "part" /\ again
  <2>1. t = s
    BY <1>1, <1>8 DEF Effect
  <2>2. QED
    BY <1>1, <1>8, <2>1
<1>9. QED
  BY <1>3, <1>4, <1>5, <1>6, <1>7, <1>8

LEMMA AdjustIs ==
  ASSUME NEW s, IsShop(s), NEW item
  PROVE  IsShop(AdjustOnHand(s, item)) /\ AdjustOnHand(s, item).above = s.above
         /\ AdjustOnHand(s, item).assets = s.assets
<1>1. PICK k : k = [s.stock EXCEPT ![item] = OnHandSeed]
  OBVIOUS
<1>2. AdjustOnHand(s, item) = [assets |-> s.assets, above |-> s.above, stock |-> k, wos |-> s.wos]
  BY <1>1 DEF AdjustOnHand, IsShop
<1>3. DOMAIN k = DOMAIN s.stock
  BY <1>1
<1>4. QED
  BY <1>2, <1>3 DEF IsShop

LEMMA DoneIs ==
  ASSUME NEW s, IsShop(s), NEW e \in Line,
         e.kind \in {"define", "item", "open", "status", "part"}
  PROVE  /\ IsShop(Done(s, e)) /\ Done(s, e).above = s.above
         /\ e.kind # "define" => Done(s, e).assets = s.assets
         /\ e.kind = "define" => /\ Done(s, e).assets = s.assets \cup {e.asset}
                                 /\ Done(s, e).stock = s.stock /\ Done(s, e).wos = s.wos
<1>1. PICK again : again = FALSE
  OBVIOUS
<1>2. PICK t : t = Effect(s, e, again)
  OBVIOUS
<1>3. /\ IsShop(t) /\ t.above = s.above
      /\ e.kind # "define" => t.assets = s.assets
      /\ e.kind = "define" => t.assets = s.assets \cup {e.asset} /\ t.stock = s.stock /\ t.wos = s.wos
  BY <1>2, EffectIs
<1>4. CASE e.kind = "item"
  <2>1. Done(s, e) = AdjustOnHand(t, e.item)
    BY <1>1, <1>2, <1>4 DEF Done
  <2>2. QED
    BY <1>3, <1>4, <2>1, AdjustIs
<1>5. CASE e.kind # "item"
  <2>1. Done(s, e) = t
    BY <1>1, <1>2, <1>5 DEF Done
  <2>2. QED
    BY <1>3, <2>1
<1>6. QED
  BY <1>4, <1>5

LEMMA ConfirmIs ==
  ASSUME NEW p, IsChecker(p), NEW e \in Line, Planned(p, e)
  PROVE  /\ IsChecker(Confirm(p, e))
         /\ e.kind # "define" => Confirm(p, e).assets = p.assets /\ Confirm(p, e).links = p.links
         /\ e.kind = "define" =>
              /\ Confirm(p, e).assets = p.assets \cup {e.asset}
              /\ Confirm(p, e).links = IF e.parent = Nil THEN p.links
                                       ELSE Append(p.links, <<e.parent, e.asset>>)
<1>1. PICK t : t = Confirm(p, e)
  OBVIOUS
<1>2. /\ p = [assets |-> p.assets, items |-> p.items, wos |-> p.wos, links |-> p.links]
      /\ p.links \in Seq(Machines \X Machines)
  BY DEF IsChecker
<1>3. CASE e.kind = "define"
  <2>1. PICK l : l = IF e.parent = Nil THEN p.links ELSE Append(p.links, <<e.parent, e.asset>>)
    OBVIOUS
  <2>2. t = [assets |-> p.assets \cup {e.asset}, items |-> p.items, wos |-> p.wos, links |-> l]
    BY <1>1, <1>2, <1>3, <2>1 DEF Confirm
  <2>3. e.asset \in Machines /\ e.parent \in Machines \cup {Nil}
    BY LineFits
  <2>4. l \in Seq(Machines \X Machines)
    <3>1. CASE e.parent = Nil
      BY <1>2, <2>1, <3>1
    <3>2. CASE e.parent # Nil
      <4>1. <<e.parent, e.asset>> \in Machines \X Machines
        BY <2>3, <3>2
      <4>2. QED
        BY <1>2, <2>1, <3>2, <4>1
    <3>3. QED
      BY <3>1, <3>2
  <2>5. QED
    BY <1>1, <1>3, <2>1, <2>2, <2>4 DEF IsChecker
<1>4. CASE e.kind = "item"
  <2>1. t = [assets |-> p.assets, items |-> p.items \cup {e.item}, wos |-> p.wos, links |-> p.links]
    BY <1>1, <1>2, <1>4 DEF Confirm
  <2>2. QED
    BY <1>1, <1>2, <1>4, <2>1 DEF IsChecker
<1>5. CASE e.kind = "open"
  <2>1. PICK w : w = Put(p.wos, e.wo, [status |-> "OPEN", asset |-> e.asset])
    OBVIOUS
  <2>2. t = [assets |-> p.assets, items |-> p.items, wos |-> w, links |-> p.links]
    BY <1>1, <1>2, <1>5, <2>1 DEF Confirm
  <2>3. QED
    BY <1>1, <1>2, <1>5, <2>2 DEF IsChecker
<1>6. CASE e.kind = "status"
  <2>1. PICK w : w = [p.wos EXCEPT ![e.wo].status = Target(e)]
    OBVIOUS
  <2>2. t = [assets |-> p.assets, items |-> p.items, wos |-> w, links |-> p.links]
    BY <1>1, <1>2, <1>6, <2>1 DEF Confirm
  <2>3. QED
    BY <1>1, <1>2, <1>6, <2>2 DEF IsChecker
<1>7. CASE e.kind = "part"
  <2>1. t = p
    BY <1>1, <1>7 DEF Confirm
  <2>2. QED
    BY <1>1, <1>7, <2>1
<1>8. QED
  BY <1>3, <1>4, <1>5, <1>6, <1>7, PlannedKinds

-----------------------------------------------------------------------------
IsRun(r) ==
  /\ r = [p |-> r.p, shop |-> r.shop, refused |-> r.refused, applied |-> r.applied]
  /\ Waiting(r.shop, r.p) /\ r.applied \in Nat

\* The run as the next event finds it.
Met(r, e) == IF e.kind = "define" THEN r ELSE Flushed(r)

LEMMA FlushedIs ==
  ASSUME NEW r, IsRun(r)
  PROVE  /\ IsRun(Flushed(r))
         /\ Flushed(r).shop = AllLinked(r.shop, r.p) /\ Flushed(r).p = [r.p EXCEPT !.links = <<>>]
         /\ Flushed(r).p.links = <<>> /\ Flushed(r).p.assets = r.p.assets
         /\ Flushed(r).refused = r.refused /\ Flushed(r).applied = r.applied
<1>1. PICK f : f = Flushed(r)
  OBVIOUS
<1>2. PICK q : q = [r.p EXCEPT !.links = <<>>]
  OBVIOUS
<1>3. PICK t : t = AllLinked(r.shop, r.p)
  OBVIOUS
<1>4. r = [p |-> r.p, shop |-> r.shop, refused |-> r.refused, applied |-> r.applied]
      /\ Waiting(r.shop, r.p) /\ r.applied \in Nat
  BY DEF IsRun
<1>5. f = [p |-> q, shop |-> t, refused |-> r.refused, applied |-> r.applied]
  BY <1>1, <1>2, <1>3, <1>4 DEF Flushed
<1>6. IsShop(r.shop) /\ IsChecker(r.p) /\ r.p.assets = r.shop.assets
  BY <1>4 DEF Waiting
<1>7. q = [assets |-> r.p.assets, items |-> r.p.items, wos |-> r.p.wos, links |-> <<>>]
  BY <1>2, <1>6 DEF IsChecker
<1>8. IsChecker(q) /\ q.links = <<>> /\ q.assets = r.p.assets
  BY <1>7 DEF IsChecker
<1>9. IsShop(t) /\ SameElse(r.shop, t) /\ Forest(t) /\ \A c \in Machines : t.above[c] # Nil => c \in r.shop.assets
  <2>1. Len(r.p.links) \in Nat
    BY <1>4, LinkingIs
  <2>2. Len(r.p.links) \in 0..Len(r.p.links)
    BY <2>1
  <2>3. QED
    BY <1>3, <1>4, <2>2, LinkingIs, LinkingKnows DEF AllLinked
<1>10. Waiting(t, q)
  <2>1. Len(q.links) = 0
    BY <1>8
  <2>2. q.assets = t.assets
    BY <1>6, <1>8, <1>9 DEF SameElse
  <2>3. \A c \in Machines : t.above[c] # Nil => c \in t.assets
    BY <1>9 DEF SameElse
  <2>4. QED
    BY <1>8, <1>9, <2>1, <2>2, <2>3 DEF Waiting
<1>11. IsRun(f)
  BY <1>4, <1>5, <1>10 DEF IsRun
<1>12. f.shop = t /\ f.p = q /\ f.refused = r.refused /\ f.applied = r.applied
  BY <1>5
<1>13. IsRun(f) /\ f.shop = AllLinked(r.shop, r.p) /\ f.p = [r.p EXCEPT !.links = <<>>]
       /\ f.p.links = <<>> /\ f.p.assets = r.p.assets
  BY <1>2, <1>3, <1>8, <1>11, <1>12
<1>14. QED
  BY <1>1, <1>12, <1>13

LEMMA NothingWaits ==
  ASSUME NEW r, IsRun(r), r.p.links = <<>>
  PROVE  AllLinked(r.shop, r.p) = r.shop
<1>1. Len(r.p.links) = 0
  OBVIOUS
<1>2. QED
  BY <1>1, LinkingStep DEF AllLinked

LEMMA AdvanceIs ==
  ASSUME NEW r, IsRun(r), NEW e
  PROVE  /\ IsRun(Met(r, e))
         /\ ~Planned(Met(r, e).p, e) => Advance(r, e) = Met(r, e)
         /\ Planned(Met(r, e).p, e) /\ Accepts(Met(r, e).shop, e) =>
              Advance(r, e) = [p |-> Confirm(Met(r, e).p, e), shop |-> Done(Met(r, e).shop, e),
                               refused |-> Met(r, e).refused, applied |-> Met(r, e).applied + 1]
         /\ Planned(Met(r, e).p, e) /\ ~Accepts(Met(r, e).shop, e) =>
              Advance(r, e) = [p |-> Met(r, e).p, shop |-> Met(r, e).shop,
                               refused |-> Met(r, e).refused \cup {e.seq}, applied |-> Met(r, e).applied]
<1>1. PICK q : q = Met(r, e)
  OBVIOUS
<1>2. IsRun(q)
  BY <1>1, FlushedIs DEF Met
<1>3. q = [p |-> q.p, shop |-> q.shop, refused |-> q.refused, applied |-> q.applied]
  BY <1>2 DEF IsRun
<1>4. Advance(r, e) =
        IF ~Planned(q.p, e) THEN q
        ELSE IF Accepts(q.shop, e)
             THEN [q EXCEPT !.p = Confirm(@, e), !.shop = Done(@, e), !.applied = @ + 1]
             ELSE [q EXCEPT !.refused = @ \cup {e.seq}]
  BY <1>1 DEF Advance, Met
<1>5. CASE ~Planned(q.p, e)
  BY <1>1, <1>2, <1>4, <1>5
<1>6. CASE Planned(q.p, e) /\ Accepts(q.shop, e)
  <2>1. Advance(r, e) = [q EXCEPT !.p = Confirm(@, e), !.shop = Done(@, e), !.applied = @ + 1]
    BY <1>4, <1>6
  <2>2. Advance(r, e) = [p |-> Confirm(q.p, e), shop |-> Done(q.shop, e),
                         refused |-> q.refused, applied |-> q.applied + 1]
    BY <1>3, <2>1
  <2>3. QED
    BY <1>1, <1>2, <1>6, <2>2
<1>7. CASE Planned(q.p, e) /\ ~Accepts(q.shop, e)
  <2>1. Advance(r, e) = [q EXCEPT !.refused = @ \cup {e.seq}]
    BY <1>4, <1>7
  <2>2. Advance(r, e) = [p |-> q.p, shop |-> q.shop, refused |-> q.refused \cup {e.seq},
                         applied |-> q.applied]
    BY <1>3, <2>1
  <2>3. QED
    BY <1>1, <1>2, <1>7, <2>2
<1>8. QED
  BY <1>5, <1>6, <1>7

\* The shop and the pre-checker after an event that a service has accepted.
LEMMA AcceptedIs ==
  ASSUME NEW q, IsRun(q), NEW e \in Line, Planned(q.p, e)
  PROVE  /\ Waiting(Done(q.shop, e), Confirm(q.p, e))
         /\ e.kind = "define" => Grows(q.shop, q.p, e.asset, Done(q.shop, e), Confirm(q.p, e))
         /\ e.kind # "define" => /\ Confirm(q.p, e).links = q.p.links
                                 /\ Done(q.shop, e).above = q.shop.above
<1>1. PICK s : s = q.shop
  OBVIOUS
<1>2. PICK p : p = q.p
  OBVIOUS
<1>3. PICK t : t = Done(s, e)
  OBVIOUS
<1>4. PICK c : c = Confirm(p, e)
  OBVIOUS
<1>5. Waiting(s, p)
  BY <1>1, <1>2 DEF IsRun
<1>6. IsShop(s) /\ Forest(s) /\ IsChecker(p) /\ p.assets = s.assets
      /\ (\A a \in Machines : s.above[a] # Nil => a \in s.assets)
      /\ (\A n \in 1..Len(p.links) : p.links[n][2] \in s.assets /\ s.above[p.links[n][2]] = Nil)
      /\ (\A m, n \in 1..Len(p.links) : p.links[m][2] = p.links[n][2] => m = n)
  BY <1>5 DEF Waiting
<1>7. Planned(p, e) /\ e.kind \in {"define", "item", "open", "status", "part"}
      /\ (e.kind = "define" => e.asset \notin p.assets)
  BY <1>2, PlannedKinds
<1>8. /\ IsShop(t) /\ t.above = s.above
      /\ e.kind # "define" => t.assets = s.assets
      /\ e.kind = "define" => t.assets = s.assets \cup {e.asset}
  BY <1>3, <1>6, <1>7, DoneIs
<1>9. /\ IsChecker(c)
      /\ e.kind # "define" => c.assets = p.assets /\ c.links = p.links
      /\ e.kind = "define" =>
           /\ c.assets = p.assets \cup {e.asset}
           /\ c.links = IF e.parent = Nil THEN p.links ELSE Append(p.links, <<e.parent, e.asset>>)
  BY <1>4, <1>6, <1>7, ConfirmIs
<1>10. Forest(t)
  BY <1>6, <1>8, ForestIsOfLinks
<1>11. CASE e.kind # "define"
  <2>1. Waiting(t, c)
    BY <1>6, <1>8, <1>9, <1>10, <1>11 DEF Waiting
  <2>2. QED
    BY <1>1, <1>2, <1>3, <1>4, <1>8, <1>9, <1>11, <2>1
<1>12. CASE e.kind = "define"
  <2>1. PICK a \in Machines : a = e.asset
    BY LineFits
  <2>2. a \notin s.assets /\ t.assets = s.assets \cup {a} /\ c.assets = t.assets
    BY <1>6, <1>7, <1>8, <1>9, <1>12, <2>1
  <2>3. s.above[a] = Nil
    BY <1>6, <2>1, <2>2
  <2>4. PICK N : N = Len(p.links)
    OBVIOUS
  <2>5. PICK l : l = p.links
    OBVIOUS
  <2>6. l \in Seq(Machines \X Machines) /\ N \in Nat /\ N = Len(l)
    BY <1>6, <2>4, <2>5 DEF IsChecker
  <2>7. /\ Len(c.links) \in Nat /\ N <= Len(c.links)
        /\ \A n \in 1..N : c.links[n] = l[n]
        /\ \A n \in 1..Len(c.links) : n \in 1..N \/ (n = N + 1 /\ c.links[n][2] = a)
    <3>1. CASE e.parent = Nil
      <4>1. c.links = l
        BY <1>9, <1>12, <2>5, <3>1
      <4>2. QED
        BY <2>6, <4>1
    <3>2. CASE e.parent # Nil
      <4>1. PICK k \in Machines \X Machines : k = <<e.parent, e.asset>>
        BY <3>2, LineFits
      <4>2. k[2] = a
        BY <2>1, <4>1
      <4>3. c.links = Append(l, k)
        BY <1>9, <1>12, <2>5, <3>2, <4>1
      <4>4. /\ Len(c.links) = N + 1 /\ c.links[N + 1] = k
            /\ \A n \in 1..N : c.links[n] = l[n]
        BY <2>6, <4>3
      <4>5. \A n \in 1..(N + 1) : n \in 1..N \/ n = N + 1
        BY <2>6
      <4>6. QED
        BY <2>6, <4>2, <4>4, <4>5
    <3>3. QED
      BY <3>1, <3>2
  <2>8. \A n \in 1..N : l[n][2] \in s.assets /\ s.above[l[n][2]] = Nil
    BY <1>6, <2>4, <2>5
  <2>9. ASSUME NEW n \in 1..Len(c.links)
        PROVE  c.links[n][2] \in t.assets /\ t.above[c.links[n][2]] = Nil
    <3>1. CASE n \in 1..N
      BY <1>8, <2>2, <2>7, <2>8, <3>1
    <3>2. CASE n \notin 1..N
      BY <1>8, <2>2, <2>3, <2>7, <2>9, <3>2
    <3>3. QED
      BY <3>1, <3>2
  <2>10. ASSUME NEW m \in 1..Len(c.links), NEW n \in 1..Len(c.links), c.links[m][2] = c.links[n][2]
         PROVE  m = n
    <3>1. CASE m \in 1..N /\ n \in 1..N
      BY <1>6, <2>4, <2>5, <2>7, <2>10, <3>1
    <3>2. CASE m \in 1..N /\ n \notin 1..N
      BY <2>2, <2>7, <2>8, <2>10, <3>2
    <3>3. CASE m \notin 1..N /\ n \in 1..N
      BY <2>2, <2>7, <2>8, <2>10, <3>3
    <3>4. CASE m \notin 1..N /\ n \notin 1..N
      BY <2>7, <2>10, <3>4
    <3>5. QED
      BY <3>1, <3>2, <3>3, <3>4
  <2>11. \A b \in Machines : t.above[b] # Nil => b \in t.assets
    BY <1>6, <1>8, <2>2
  <2>12. Waiting(t, c)
    BY <1>8, <1>9, <1>10, <2>2, <2>9, <2>10, <2>11 DEF Waiting
  <2>13. Grows(s, p, a, t, c)
    BY <1>5, <1>8, <2>1, <2>2, <2>4, <2>5, <2>7, <2>12 DEF Grows
  <2>14. QED
    BY <1>1, <1>2, <1>3, <1>4, <1>12, <2>1, <2>12, <2>13
<1>13. QED
  BY <1>11, <1>12

LEMMA AdvanceStaysRun ==
  ASSUME NEW r, IsRun(r), NEW e \in Line
  PROVE  /\ IsRun(Advance(r, e)) /\ r.refused \subseteq Advance(r, e).refused
<1>1. PICK q : q = Met(r, e)
  OBVIOUS
<1>2. PICK a : a = Advance(r, e)
  OBVIOUS
<1>3. IsRun(q)
      /\ (~Planned(q.p, e) => a = q)
      /\ (Planned(q.p, e) /\ Accepts(q.shop, e) =>
            a = [p |-> Confirm(q.p, e), shop |-> Done(q.shop, e),
                 refused |-> q.refused, applied |-> q.applied + 1])
      /\ (Planned(q.p, e) /\ ~Accepts(q.shop, e) =>
            a = [p |-> q.p, shop |-> q.shop, refused |-> q.refused \cup {e.seq}, applied |-> q.applied])
  BY <1>1, <1>2, AdvanceIs
<1>4. q.refused = r.refused
  BY <1>1, FlushedIs DEF Met
<1>5. CASE ~Planned(q.p, e)
  BY <1>2, <1>3, <1>4, <1>5
<1>6. CASE Planned(q.p, e) /\ Accepts(q.shop, e)
  <2>1. Waiting(Done(q.shop, e), Confirm(q.p, e))
    BY <1>3, <1>6, AcceptedIs
  <2>2. q.applied + 1 \in Nat
    BY <1>3 DEF IsRun
  <2>3. a = [p |-> Confirm(q.p, e), shop |-> Done(q.shop, e),
             refused |-> q.refused, applied |-> q.applied + 1]
    BY <1>3, <1>6
  <2>4. IsRun(a)
    BY <2>1, <2>2, <2>3 DEF IsRun
  <2>5. QED
    BY <1>2, <1>4, <2>3, <2>4
<1>7. CASE Planned(q.p, e) /\ ~Accepts(q.shop, e)
  <2>1. a = [p |-> q.p, shop |-> q.shop, refused |-> q.refused \cup {e.seq}, applied |-> q.applied]
    BY <1>3, <1>7
  <2>2. IsRun(a)
    BY <1>3, <2>1 DEF IsRun
  <2>3. QED
    BY <1>2, <1>4, <2>1, <2>2
<1>8. QED
  BY <1>5, <1>6, <1>7

LEMMA StraightIs ==
  ASSUME NEW events, Sorted(events)
  PROVE  /\ \A n \in 0..Len(events) : IsRun(Straight(events)[n])
         /\ \A n \in 1..Len(events) : Straight(events)[n - 1].refused \subseteq Straight(events)[n].refused
<1> DEFINE N == Len(events)
           R == Straight(events)
           G == {n \in 0..N : IsRun(R[n])}
<1>1. N \in Nat /\ \A n \in 1..N : events[n] \in Line
  BY DEF Sorted
<1>2. R[0] = Outset /\ \A n \in 1..N : R[n] = Advance(R[n - 1], events[n])
  BY <1>1, StraightStep
<1>3. IsRun(Outset)
  <2>1. IsShop(Empty)
    <3>1. \A a \in Machines : Empty.above[a] = Nil
      BY DEF Empty
    <3>2. DOMAIN <<>> = {}
      OBVIOUS
    <3>3. Empty.above \in [Machines -> Machines \cup {Nil}]
      BY DEF Empty
    <3>4. QED
      BY <3>2, <3>3 DEF IsShop, Empty
  <2>2. \A a \in Machines : Empty.above[a] = Nil
    BY DEF Empty
  <2>3. IsChecker(Fresh) /\ Fresh.links = <<>> /\ Fresh.assets = {} /\ Empty.assets = {}
    BY DEF IsChecker, Fresh, Empty
  <2>4. Waiting(Empty, Fresh)
    BY <2>1, <2>2, <2>3 DEF Waiting, Forest
  <2>5. QED
    BY <2>4 DEF IsRun, Outset
<1> HIDE DEF R
<1>4. ASSUME NEW n \in 1..N, n - 1 \in G PROVE n \in G
  <2>1. PICK r : r = R[n - 1]
    OBVIOUS
  <2>2. PICK e \in Line : e = events[n]
    BY <1>1, <1>4
  <2>3. IsRun(r) /\ R[n] = Advance(r, e)
    BY <1>2, <1>4, <2>1, <2>2
  <2>4. IsRun(Advance(r, e))
    BY <2>3, AdvanceStaysRun
  <2>5. QED
    BY <1>1, <1>4, <2>3, <2>4
<1>5. 0 \in G
  BY <1>1, <1>2, <1>3
<1>6. G \in SUBSET (0..N)
  OBVIOUS
<1> HIDE DEF G
<1>7. G = 0..N
  BY <1>1, <1>4, <1>5, <1>6, BoundedInduction
<1>8. ASSUME NEW n \in 1..N PROVE R[n - 1].refused \subseteq R[n].refused
  <2>1. PICK r : r = R[n - 1]
    OBVIOUS
  <2>2. PICK e \in Line : e = events[n]
    BY <1>1, <1>8
  <2>3. n - 1 \in G
    BY <1>1, <1>7, <1>8
  <2>4. IsRun(r) /\ R[n] = Advance(r, e)
    BY <1>2, <1>8, <2>1, <2>2, <2>3 DEF G
  <2>5. r.refused \subseteq Advance(r, e).refused
    BY <2>4, AdvanceStaysRun
  <2>6. QED
    BY <2>1, <2>4, <2>5
<1>9. \A n \in 0..N : IsRun(R[n])
  BY <1>7 DEF G
<1>10. QED
  BY <1>8, <1>9 DEF R

\* Where nothing has been refused, taking each plan as done is what has happened.
LEMMA ForeseenComesTrue ==
  ASSUME NEW events, Sorted(events)
  PROVE  \A n \in 0..Len(events) :
           Straight(events)[n].refused = {} =>
             /\ Foreseen(events)[n].p = Straight(events)[n].p
             /\ Foreseen(events)[n].applied = Straight(events)[n].applied
<1> DEFINE N == Len(events)
           R == Straight(events)
           F == Foreseen(events)
           Ok(n) == R[n].refused = {} => F[n] = [p |-> R[n].p, applied |-> R[n].applied]
           G == {n \in 0..N : Ok(n)}
<1>1. N \in Nat /\ \A n \in 1..N : events[n] \in Line
  BY DEF Sorted
<1>2. R[0] = Outset /\ \A n \in 1..N : R[n] = Advance(R[n - 1], events[n])
  BY <1>1, StraightStep
<1>3. F[0] = [p |-> Fresh, applied |-> 0] /\ \A n \in 1..N : F[n] = Foresee(F[n - 1], events[n])
  BY <1>1, ForeseenStep
<1>4. /\ \A n \in 0..N : IsRun(R[n])
      /\ \A n \in 1..N : R[n - 1].refused \subseteq R[n].refused
  BY StraightIs
<1> HIDE DEF R, F
<1>5. Ok(0)
  BY <1>2, <1>3 DEF Outset
<1>6. ASSUME NEW n \in 1..N, Ok(n - 1) PROVE Ok(n)
  <2>1. SUFFICES ASSUME R[n].refused = {} PROVE F[n] = [p |-> R[n].p, applied |-> R[n].applied]
    OBVIOUS
  <2>2. PICK r : r = R[n - 1]
    OBVIOUS
  <2>3. PICK e \in Line : e = events[n]
    BY <1>1, <1>6
  <2>4. PICK q : q = Met(r, e)
    OBVIOUS
  <2>5. n - 1 \in 0..N
    BY <1>1, <1>6
  <2>6. IsRun(r) /\ R[n] = Advance(r, e) /\ F[n] = Foresee(F[n - 1], e)
    BY <1>2, <1>3, <1>4, <1>6, <2>2, <2>3, <2>5
  <2>7. r.refused = {}
    BY <1>4, <1>6, <2>1, <2>2
  <2>8. F[n - 1] = [p |-> r.p, applied |-> r.applied]
    BY <1>6, <2>2, <2>7
  <2>9. IsRun(q) /\ q.refused = {} /\ q.applied = r.applied /\ q.p = Ready(r.p, e)
    BY <2>4, <2>6, <2>7, FlushedIs DEF Met, Ready
  <2>10. F[n] = IF Planned(q.p, e) THEN [p |-> Confirm(q.p, e), applied |-> q.applied + 1]
                ELSE [p |-> q.p, applied |-> q.applied]
    BY <2>6, <2>8, <2>9 DEF Foresee
  <2>11. (~Planned(q.p, e) => R[n] = q)
         /\ (Planned(q.p, e) /\ Accepts(q.shop, e) =>
               R[n] = [p |-> Confirm(q.p, e), shop |-> Done(q.shop, e),
                       refused |-> q.refused, applied |-> q.applied + 1])
         /\ (Planned(q.p, e) /\ ~Accepts(q.shop, e) =>
               R[n] = [p |-> q.p, shop |-> q.shop, refused |-> q.refused \cup {e.seq}, applied |-> q.applied])
    BY <2>4, <2>6, AdvanceIs
  <2>12. CASE ~Planned(q.p, e)
    BY <2>10, <2>11, <2>12
  <2>13. CASE Planned(q.p, e) /\ Accepts(q.shop, e)
    BY <2>10, <2>11, <2>13
  <2>14. CASE Planned(q.p, e) /\ ~Accepts(q.shop, e)
    <3>1. R[n].refused = q.refused \cup {e.seq}
      BY <2>11, <2>14
    <3>2. QED
      BY <2>1, <3>1
  <2>15. QED
    BY <2>12, <2>13, <2>14
<1> HIDE DEF Ok
<1>7. 0 \in G /\ \A n \in 1..N : n - 1 \in G => n \in G
  BY <1>1, <1>5, <1>6
<1>8. G \in SUBSET (0..N)
  OBVIOUS
<1> HIDE DEF G
<1>9. G = 0..N
  BY <1>1, <1>7, <1>8, BoundedInduction
<1>10. ASSUME NEW n \in 0..N, R[n].refused = {}
       PROVE  F[n].p = R[n].p /\ F[n].applied = R[n].applied
  <2>1. F[n] = [p |-> R[n].p, applied |-> R[n].applied]
    BY <1>9, <1>10 DEF G, Ok
  <2>2. QED
    BY <2>1
<1>11. QED
  BY <1>10 DEF R, F

-----------------------------------------------------------------------------
(***************************************************************************)
(* The runs.  The shop is where the straight run over the events consumed  *)
(* would be, but for the batch of links that waits: between none of it and *)
(* all of it, and at least as far as the process has flushed.              *)
(***************************************************************************)
Position(E) == Consumed(E, world.last)
Course(E) == Straight(E)[Position(E)]

SeedShapes ==
  /\ SeedTypeOK /\ IsShop(shop)
  /\ eventLog \in Ledgers \cup Others
  /\ world = [print |-> world.print, last |-> world.last, until |-> world.until]
  /\ replay = [pc |-> replay.pc, all |-> replay.all, next |-> replay.next, end |-> replay.end,
               checker |-> replay.checker, until |-> replay.until, after |-> replay.after,
               applied |-> replay.applied]

NothingYet ==
  world = NoWorld /\ replay = NoReplay /\ shop = Empty /\ posted = {} /\ refused = {}

\* The process reads the ledger of the world, and is where the progress says.
RunIsHere(E) ==
  /\ replay.all = E /\ replay.next = Position(E) + 1
  /\ replay.until \in CutOffs /\ replay.end = Due(E, replay.until)
  /\ replay.after = 0 => replay.next <= replay.end + 1
  /\ IsChecker(replay.checker)
  /\ replay.pc = "adjust" => MoreEvents /\ NextEvent.kind = "item"

\* The pre-checker has n links of the batch behind it.
Amid(r, n) ==
  /\ n \in 0..Len(r.p.links)
  /\ replay.checker = [r.p EXCEPT !.links = SubSeq(@, n + 1, Len(@))]
  /\ Between(shop, Linking(r.shop, r.p)[n], AllLinked(r.shop, r.p))
  /\ MoreEvents /\ NextEvent.kind = "define" => n = 0

\* The item is there, and has no quantity yet.
HalfDone(r) ==
  /\ Planned(Flushed(r).p, NextEvent) /\ Accepts(Flushed(r).shop, NextEvent)
  /\ replay.checker = Flushed(r).p /\ shop = Effect(Flushed(r).shop, NextEvent, FALSE)

Resting(r) ==
  r.refused = {} => refused = {} /\ Between(shop, r.shop, AllLinked(r.shop, r.p))

Running(r) ==
  replay.after = 0 \/ r.refused = {} =>
    /\ refused = r.refused
    /\ replay.after = 0 => replay.applied = r.applied
    /\ replay.pc = "run" => \E n \in 0..Len(r.p.links) : Amid(r, n)
    /\ replay.pc = "adjust" => HalfDone(r)

InWorld(E) ==
  /\ world.last = 0 \/ \E n \in 1..Len(E) : E[n].seq = world.last
  /\ \A s \in posted : s <= world.last
  /\ replay.pc # "none" => RunIsHere(E)
  /\ torn = {} => IF replay.pc = "none" THEN Resting(Course(E)) ELSE Running(Course(E))

\* The one ledger is what the other begins with.
Begins(k, l) == Len(k) <= Len(l) /\ \A n \in 1..Len(k) : k[n] = l[n]

\* The ledger the shop was last read from: the one there may have grown since, or given way to
\* that of another world.
Reading(l) ==
  /\ l.print = world.print
  /\ eventLog.print = l.print => Begins(l.lines, eventLog.lines)
  /\ InWorld(ReadLedger(l.lines))

SeedInv == SeedShapes /\ (NothingYet \/ \E l \in Ledgers \cup Others : Reading(l))

LEMMA CourseIs ==
  ASSUME SeedShapes, NEW E, Sorted(E)
  PROVE  /\ Len(E) \in Nat
         /\ Position(E) \in 0..Len(E) /\ IsRun(Course(E))
         /\ \A n \in 1..Len(E) : n <= Position(E) <=> E[n].seq <= world.last
         /\ world.last = 0 => Position(E) = 0 /\ Course(E) = Outset
<1>1. Len(E) \in Nat
  BY DEF Sorted
<1>2. world.last \in Nat
  BY DEF SeedShapes, SeedTypeOK
<1>3. Position(E) = Consumed(E, world.last) /\ Course(E) = Straight(E)[Position(E)]
  BY DEF Position, Course
<1>4. Position(E) \in 0..Len(E) /\ \A n \in 1..Len(E) : n <= Position(E) <=> E[n].seq <= world.last
  BY <1>1, <1>2, <1>3, ConsumedIs
<1>5. IsRun(Course(E))
  BY <1>1, <1>3, <1>4, StraightIs
<1>6. ASSUME world.last = 0 PROVE Position(E) = 0 /\ Course(E) = Outset
  BY <1>1, <1>3, <1>6, ConsumedMoves, StraightStep
<1>7. QED
  BY <1>1, <1>4, <1>5, <1>6

\* Between two events the progress stays where it is.
LEMMA CourseStays ==
  ASSUME NEW E, world'.last = world.last
  PROVE  Position(E)' = Position(E) /\ Course(E)' = Course(E)
<1>1. Position(E)' = Position(E)
  BY DEF Position
<1>2. QED
  BY <1>1 DEF Course

\* What a run does within the world leaves the ledger it reads as it is.
LEMMA ReadingStays ==
  ASSUME NEW l \in Ledgers \cup Others, Reading(l), SeedShapes', InWorld(ReadLedger(l.lines))',
         eventLog' = eventLog, world'.print = world.print
  PROVE  SeedInv'
<1>1. Reading(l)'
  BY DEF Reading
<1>2. QED
  BY <1>1 DEF SeedInv

\* The next event, and what the straight run makes of it.
LEMMA EventIsNext ==
  ASSUME SeedShapes, NEW E, Sorted(E), InWorld(E), replay.pc # "none", MoreEvents
  PROVE  /\ NextEvent \in Line /\ world.last < NextEvent.seq
         /\ Position(E) + 1 \in 1..Len(E) /\ NextEvent = E[Position(E) + 1]
         /\ Consumed(E, NextEvent.seq) = Position(E) + 1
         /\ Straight(E)[Position(E) + 1] = Advance(Course(E), NextEvent)
         /\ Course(E).refused \subseteq Advance(Course(E), NextEvent).refused
<1>1. PICK i : i = Position(E)
  OBVIOUS
<1>2. /\ Sorted(E) /\ Len(E) \in Nat /\ i \in 0..Len(E) /\ IsRun(Course(E))
      /\ \A n \in 1..Len(E) : n <= i <=> E[n].seq <= world.last
  BY <1>1, CourseIs
<1>3. replay.all = E /\ replay.next = i + 1 /\ replay.until \in Nat /\ replay.end = Due(E, replay.until)
  BY <1>1, SeedAssumption DEF InWorld, RunIsHere, SeedAssumption
<1>4. replay.end \in 0..Len(E)
  BY <1>2, <1>3, DueIs
<1>5. i + 1 \in 1..Len(E) /\ NextEvent = E[i + 1]
  BY <1>2, <1>3, <1>4 DEF MoreEvents, NextEvent
<1>6. NextEvent \in Line
  BY <1>2, <1>5 DEF Sorted
<1>7. NextEvent.seq \in Nat /\ world.last \in Nat
  BY <1>6, LineFits DEF SeedShapes, SeedTypeOK
<1>8. ~(i + 1 <= i)
  BY <1>2
<1>9. world.last < NextEvent.seq
  BY <1>2, <1>5, <1>7, <1>8
<1>10. Consumed(E, NextEvent.seq) = i + 1
  BY <1>2, <1>5, ConsumedMoves
<1>11. (i + 1) - 1 = i
  BY <1>2
<1>12. Straight(E)[i + 1] = Advance(Straight(E)[i], E[i + 1])
  BY <1>2, <1>5, <1>11, StraightStep
<1>13. Course(E) = Straight(E)[i]
  BY <1>1 DEF Course
<1>14. Course(E).refused \subseteq Advance(Course(E), NextEvent).refused
  BY <1>2, <1>6, AdvanceStaysRun
<1>15. QED
  BY <1>1, <1>5, <1>6, <1>9, <1>10, <1>12, <1>13, <1>14

Consumes(c, a) ==
  /\ world' = [world EXCEPT !.last = NextEvent.seq]
  /\ replay' = [replay EXCEPT !.pc = "run", !.next = @ + 1, !.checker = c, !.applied = a]

\* Whatever is made of an event, the progress moves past it.
LEMMA EventIsConsumed ==
  ASSUME SeedShapes, NEW E, Sorted(E), InWorld(E), replay.pc # "none", MoreEvents,
         NEW c, IsChecker(c), NEW a, Consumes(c, a), IsShop(shop'),
         posted' \subseteq posted \cup {NextEvent.seq}, refused' \subseteq refused \cup {NextEvent.seq},
         torn' = torn, crashes' = crashes, eventLog' = eventLog,
         Course(E)' = Advance(Course(E), NextEvent) => (torn = {} => Running(Course(E))')
  PROVE  SeedShapes' /\ InWorld(E)'
<1>1. PICK e : e = NextEvent
  OBVIOUS
<1>2. PICK i : i = Position(E)
  OBVIOUS
<1>3. /\ e \in Line /\ world.last < e.seq /\ i + 1 \in 1..Len(E) /\ e = E[i + 1]
      /\ Consumed(E, e.seq) = i + 1 /\ Straight(E)[i + 1] = Advance(Course(E), e)
  BY <1>1, <1>2, EventIsNext
<1>4. e.seq \in Nat /\ world.last \in Nat
  BY <1>3, LineFits DEF SeedShapes, SeedTypeOK
<1>5. world' = [print |-> world.print, last |-> e.seq, until |-> world.until]
  BY <1>1 DEF Consumes, SeedShapes
<1>6. replay' = [pc |-> "run", all |-> replay.all, next |-> replay.next + 1, end |-> replay.end,
                 checker |-> c, until |-> replay.until, after |-> replay.after, applied |-> a]
  BY DEF Consumes, SeedShapes
<1>7. Position(E)' = i + 1
  BY <1>3, <1>5 DEF Position
<1>8. Course(E)' = Advance(Course(E), e)
  BY <1>3, <1>7 DEF Course
<1>9. SeedShapes'
  <2>1. SeedTypeOK'
    <3>1. shop'.assets \subseteq Machines /\ shop'.above \in [Machines -> Machines \cup {Nil}]
          /\ DOMAIN shop'.stock \subseteq SeedItems /\ DOMAIN shop'.wos \subseteq SeedOrders
      BY DEF IsShop
    <3>2. posted' \cup refused' \cup torn' \subseteq Nat /\ crashes' \in 0..MaxCrashes
          /\ world.until \in CutOffs \cup {0}
      BY <1>1, <1>4 DEF SeedShapes, SeedTypeOK
    <3>3. QED
      BY <1>4, <1>5, <1>6, <3>1, <3>2 DEF SeedTypeOK
  <2>2. (world = [print |-> world.print, last |-> world.last, until |-> world.until])'
    BY <1>5
  <2>3. (replay = [pc |-> replay.pc, all |-> replay.all, next |-> replay.next, end |-> replay.end,
                   checker |-> replay.checker, until |-> replay.until, after |-> replay.after,
                   applied |-> replay.applied])'
    BY <1>6
  <2>4. (eventLog \in Ledgers \cup Others)'
    BY DEF SeedShapes
  <2>5. QED
    BY <2>1, <2>2, <2>3, <2>4 DEF SeedShapes
<1>10. RunIsHere(E)'
  <2>1. RunIsHere(E) /\ replay.next = i + 1 /\ replay.all = E
    BY <1>2 DEF InWorld, RunIsHere
  <2>2. Sorted(E) /\ Len(E) \in Nat /\ Position(E) \in 0..Len(E)
    BY CourseIs
  <2>3. i \in Nat
    BY <1>2, <2>2
  <2>4. replay.end \in Nat /\ replay.next \in Nat
    <3>1. PICK b \in Nat : b = replay.until
      BY <2>1, SeedAssumption DEF RunIsHere, SeedAssumption
    <3>2. Due(E, b) \in 0..Len(E)
      BY <2>2, DueIs
    <3>3. replay.end \in Nat
      BY <2>1, <2>2, <3>1, <3>2 DEF RunIsHere
    <3>4. QED
      BY <2>1, <2>3, <3>3
  <2>5. replay'.next <= replay'.end + 1
    BY <1>6, <2>4 DEF MoreEvents
  <2>6. replay'.all = E /\ replay'.next = Position(E)' + 1 /\ replay'.until \in CutOffs
        /\ replay'.end = Due(E, replay'.until) /\ IsChecker(replay'.checker)
        /\ replay'.pc = "run"
    BY <1>6, <1>7, <2>1 DEF RunIsHere
  <2>7. QED
    BY <2>5, <2>6 DEF RunIsHere
<1>11. torn' = {} => Running(Course(E))'
  BY <1>1, <1>8
<1>12. InWorld(E)'
  <2>1. \E n \in 1..Len(E) : E[n].seq = world'.last
    BY <1>3, <1>5
  <2>2. \A s \in posted' : s <= world'.last
    <3>1. SUFFICES ASSUME NEW s \in posted' PROVE s <= e.seq
      BY <1>5
    <3>2. CASE s \in posted
      <4>1. s <= world.last /\ s \in Nat
        BY <3>2 DEF InWorld, SeedShapes, SeedTypeOK
      <4>2. QED
        BY <1>3, <1>4, <4>1
    <3>3. CASE s = e.seq
      BY <1>4, <3>3
    <3>4. QED
      BY <1>1, <3>1, <3>2, <3>3
  <2>3. replay'.pc = "run"
    BY <1>6
  <2>4. QED
    BY <1>10, <1>11, <2>1, <2>2, <2>3 DEF InWorld
<1>13. QED
  BY <1>9, <1>12

LEMMA RunsOn ==
  ASSUME NEW r, IsRun(r), replay'.pc = "run", replay'.checker = r.p, refused' = r.refused,
         replay'.after = 0 => replay'.applied = r.applied,
         Between(shop', r.shop, AllLinked(r.shop, r.p))
  PROVE  Running(r)'
<1>1. IsChecker(r.p) /\ r.p.links \in Seq(Machines \X Machines) /\ Waiting(r.shop, r.p)
  BY DEF IsRun, Waiting, IsChecker
<1>2. PICK l \in Seq(Machines \X Machines) : l = r.p.links
  BY <1>1
<1>3. Len(l) \in Nat /\ SubSeq(l, 1, Len(l)) = l
  OBVIOUS
<1>4. r.p = [r.p EXCEPT !.links = SubSeq(@, 0 + 1, Len(@))]
  BY <1>1, <1>2, <1>3 DEF IsChecker
<1>5. Linking(r.shop, r.p)[0] = r.shop /\ 0 \in 0..Len(r.p.links)
  BY <1>2, <1>3, LinkingStep
<1>6. Amid(r, 0)'
  BY <1>4, <1>5 DEF Amid
<1>7. QED
  BY <1>5, <1>6 DEF Running

\* What is left of a sequence is empty once all of it is behind.
LEMMA RestIsEmpty ==
  ASSUME NEW S, NEW l \in Seq(S), NEW n \in 0..Len(l), SubSeq(l, n + 1, Len(l)) = <<>>
  PROVE  n = Len(l)
<1>1. SUFFICES ASSUME n # Len(l) PROVE FALSE
  OBVIOUS
<1>2. n + 1 \in Nat /\ n + 1 <= Len(l)
  BY <1>1
<1>3. Len(SubSeq(l, n + 1, Len(l))) = Len(l) - (n + 1) + 1
  BY <1>2
<1>4. PICK m : m = Len(SubSeq(l, n + 1, Len(l)))
  OBVIOUS
<1>5. m = Len(l) - (n + 1) + 1
  BY <1>3, <1>4
<1>6. Len(<<>>) = 0
  OBVIOUS
<1>7. m = 0
  BY <1>4, <1>6
<1>8. QED
  BY <1>2, <1>5, <1>7

\* A batch of which nothing has been flushed.
LEMMA WholeBatch ==
  ASSUME NEW p, IsChecker(p)
  PROVE  [p EXCEPT !.links = SubSeq(@, 0 + 1, Len(@))] = p
<1>1. PICK a, i, w, l : p = [assets |-> a, items |-> i, wos |-> w, links |-> l]
  BY DEF IsChecker
<1>2. l \in Seq(Machines \X Machines)
  BY <1>1 DEF IsChecker
<1>3. SubSeq(l, 0 + 1, Len(l)) = l
  BY <1>2
<1>4. QED
  BY <1>1, <1>3

\* At an event the process and the straight run agree: before a definition the links may be
\* ahead, before anything else they have been flushed.
LEMMA EventIsMet ==
  ASSUME SeedShapes, NEW E, Sorted(E), InWorld(E), AtEvent, torn = {},
         replay.after = 0 \/ Course(E).refused = {}, NEW q, q = Met(Course(E), NextEvent)
  PROVE  /\ IsRun(q) /\ replay.checker = q.p /\ refused = q.refused /\ q.refused = Course(E).refused
         /\ replay.after = 0 => replay.applied = q.applied
         /\ Between(shop, q.shop, AllLinked(q.shop, q.p))
         /\ NextEvent.kind # "define" => shop = q.shop /\ q.p.links = <<>>
<1>1. PICK r : r = Course(E)
  OBVIOUS
<1>2. IsRun(r)
  BY <1>1, CourseIs
<1>3. replay.pc = "run" /\ MoreEvents /\ (NextEvent.kind = "define" \/ replay.checker.links = <<>>)
  BY DEF AtEvent
<1>4. Running(r)
  BY <1>1, <1>3 DEF InWorld
<1>5. refused = r.refused /\ (replay.after = 0 => replay.applied = r.applied)
  BY <1>1, <1>4 DEF Running
<1>6. PICK n \in 0..Len(r.p.links) : Amid(r, n)
  BY <1>1, <1>3, <1>4 DEF Running
<1>7. PICK l : l = r.p.links
  OBVIOUS
<1>8. /\ l \in Seq(Machines \X Machines) /\ Waiting(r.shop, r.p) /\ IsChecker(r.p)
      /\ Len(l) \in Nat /\ n \in 0..Len(l)
  BY <1>2, <1>6, <1>7 DEF IsRun, Waiting, IsChecker
<1>9. replay.checker = [r.p EXCEPT !.links = SubSeq(l, n + 1, Len(l))]
      /\ Between(shop, Linking(r.shop, r.p)[n], AllLinked(r.shop, r.p))
      /\ (NextEvent.kind = "define" => n = 0)
  BY <1>3, <1>6, <1>7 DEF Amid
<1>10. CASE NextEvent.kind = "define"
  <2>1. q = r /\ n = 0
    BY <1>1, <1>9, <1>10 DEF Met
  <2>2. [r.p EXCEPT !.links = SubSeq(@, 0 + 1, Len(@))] = r.p
    BY <1>8, WholeBatch
  <2>3. replay.checker = r.p
    BY <1>7, <1>9, <2>1, <2>2
  <2>4. Linking(r.shop, r.p)[0] = r.shop
    BY <1>7, <1>8, LinkingStep
  <2>5. QED
    BY <1>1, <1>2, <1>5, <1>9, <1>10, <2>1, <2>3, <2>4
<1>11. CASE NextEvent.kind # "define"
  <2>1. q = Flushed(r)
    BY <1>1, <1>11 DEF Met
  <2>2. PICK f : f = AllLinked(r.shop, r.p)
    OBVIOUS
  <2>3. /\ IsRun(q) /\ q.shop = f /\ q.p = [r.p EXCEPT !.links = <<>>] /\ q.p.links = <<>>
        /\ q.refused = r.refused /\ q.applied = r.applied
    BY <1>2, <2>1, <2>2, FlushedIs
  <2>4. SubSeq(l, n + 1, Len(l)) = <<>>
    BY <1>3, <1>8, <1>9, <1>11 DEF IsChecker
  <2>5. n = Len(l)
    BY <1>8, <2>4, RestIsEmpty
  <2>6. replay.checker = q.p
    BY <1>9, <2>3, <2>4
  <2>7. Between(shop, f, f)
    BY <1>7, <1>9, <2>2, <2>5 DEF AllLinked
  <2>8. IsShop(f)
    BY <2>3 DEF IsRun, Waiting
  <2>9. shop = f
    BY <2>7, <2>8, BetweenTwins
  <2>10. AllLinked(q.shop, q.p) = f
    BY <2>3, NothingWaits
  <2>11. QED
    BY <1>1, <1>5, <1>11, <2>3, <2>6, <2>7, <2>9, <2>10
<1>12. QED
  BY <1>10, <1>11

\* What a service accepts does not depend on the links.
LEMMA AcceptsAlike ==
  ASSUME NEW s, NEW t, SameElse(s, t), NEW e
  PROVE  Accepts(s, e) <=> Accepts(t, e)
BY DEF Accepts, SameElse, MayMove

-----------------------------------------------------------------------------
LEMMA EventIsPassed ==
  ASSUME SeedShapes, NEW E, Sorted(E), InWorld(E), Pass
  PROVE  SeedShapes' /\ InWorld(E)'
<1>1. /\ AtEvent /\ replay.pc = "run" /\ MoreEvents /\ ~Planned(replay.checker, NextEvent)
      /\ UNCHANGED <<eventLog, shop, posted, refused, torn, crashes>>
  BY DEF Pass, AtEvent
<1>2. PICK c : c = replay.checker
  OBVIOUS
<1>3. PICK a : a = replay.applied
  OBVIOUS
<1>4. PICK e : e = NextEvent
  OBVIOUS
<1>5. Consumes(c, a)
  <2>1. world' = [world EXCEPT !.last = NextEvent.seq]
    BY DEF Pass, Consume
  <2>2. replay' = [replay EXCEPT !.pc = "run", !.next = @ + 1, !.checker = @, !.applied = @]
    BY DEF Pass, Consume
  <2>3. QED
    BY <1>2, <1>3, <2>1, <2>2 DEF Consumes
<1>6. IsChecker(c) /\ IsShop(shop)
  BY <1>1, <1>2 DEF InWorld, RunIsHere, SeedShapes
<1>7. ASSUME Course(E)' = Advance(Course(E), e), torn = {} PROVE Running(Course(E))'
  <2>1. PICK r : r = Course(E)
    OBVIOUS
  <2>2. PICK t : t = Advance(r, e)
    OBVIOUS
  <2>3. replay'.pc = "run" /\ replay'.checker = c /\ replay'.applied = a /\ replay'.after = replay.after
    BY <1>2, <1>3, <1>5 DEF Consumes, SeedShapes
  <2>4. IsRun(r) /\ r.refused \subseteq t.refused
    BY <1>1, <1>4, <2>1, <2>2, CourseIs, EventIsNext
  <2>5. SUFFICES ASSUME replay.after = 0 \/ t.refused = {} PROVE Running(t)'
    BY <1>7, <2>1, <2>2, <2>3 DEF Running
  <2>6. PICK q : q = Met(r, e)
    OBVIOUS
  <2>7. /\ IsRun(q) /\ c = q.p /\ refused = q.refused
        /\ replay.after = 0 => a = q.applied
        /\ Between(shop, q.shop, AllLinked(q.shop, q.p))
    BY <1>1, <1>2, <1>3, <1>4, <1>7, <2>1, <2>4, <2>5, <2>6, EventIsMet
  <2>8. t = q
    BY <1>1, <1>2, <1>4, <2>2, <2>4, <2>6, <2>7, AdvanceIs
  <2>9. Running(q)'
    BY <1>1, <2>3, <2>7, RunsOn
  <2>10. QED
    BY <2>8, <2>9
<1>8. QED
  BY <1>1, <1>4, <1>5, <1>6, <1>7, EventIsConsumed

LEMMA EventIsRefused ==
  ASSUME SeedShapes, NEW E, Sorted(E), InWorld(E), Refuse
  PROVE  SeedShapes' /\ InWorld(E)'
<1>1. /\ AtEvent /\ replay.pc = "run" /\ MoreEvents
      /\ Planned(replay.checker, NextEvent) /\ ~Accepts(shop, NextEvent)
      /\ refused' = refused \cup {NextEvent.seq}
      /\ UNCHANGED <<eventLog, shop, posted, torn, crashes>>
  BY DEF Refuse, AtEvent
<1>2. PICK c : c = replay.checker
  OBVIOUS
<1>3. PICK a : a = replay.applied
  OBVIOUS
<1>4. PICK e : e = NextEvent
  OBVIOUS
<1>5. Consumes(c, a)
  <2>1. world' = [world EXCEPT !.last = NextEvent.seq]
    BY DEF Refuse, Consume
  <2>2. replay' = [replay EXCEPT !.pc = "run", !.next = @ + 1, !.checker = @, !.applied = @]
    BY DEF Refuse, Consume
  <2>3. QED
    BY <1>2, <1>3, <2>1, <2>2 DEF Consumes
<1>6. IsChecker(c) /\ IsShop(shop)
  BY <1>1, <1>2 DEF InWorld, RunIsHere, SeedShapes
<1>7. ASSUME Course(E)' = Advance(Course(E), e), torn = {} PROVE Running(Course(E))'
  <2>1. PICK r : r = Course(E)
    OBVIOUS
  <2>2. PICK t : t = Advance(r, e)
    OBVIOUS
  <2>3. replay'.pc = "run" /\ replay'.checker = c /\ replay'.applied = a /\ replay'.after = replay.after
    BY <1>2, <1>3, <1>5 DEF Consumes, SeedShapes
  <2>4. IsRun(r) /\ r.refused \subseteq t.refused /\ e \in Line
    BY <1>1, <1>4, <2>1, <2>2, CourseIs, EventIsNext
  <2>5. SUFFICES ASSUME replay.after = 0 \/ t.refused = {} PROVE Running(t)'
    BY <1>7, <2>1, <2>2, <2>3 DEF Running
  <2>6. PICK q : q = Met(r, e)
    OBVIOUS
  <2>7. /\ IsRun(q) /\ c = q.p /\ refused = q.refused
        /\ replay.after = 0 => a = q.applied
        /\ Between(shop, q.shop, AllLinked(q.shop, q.p))
    BY <1>1, <1>2, <1>3, <1>4, <1>7, <2>1, <2>4, <2>5, <2>6, EventIsMet
  <2>8. PICK s : s = shop
    OBVIOUS
  <2>9. PICK u : u = q.shop
    OBVIOUS
  <2>10. SameElse(s, u)
    BY <2>7, <2>8, <2>9 DEF Between
  <2>11. ~Accepts(u, e)
    BY <1>1, <1>4, <2>8, <2>10, AcceptsAlike
  <2>12. t = [p |-> q.p, shop |-> q.shop, refused |-> q.refused \cup {e.seq}, applied |-> q.applied]
    BY <1>1, <1>2, <1>4, <2>2, <2>4, <2>6, <2>7, <2>9, <2>11, AdvanceIs
  <2>13. IsRun(t)
    BY <2>2, <2>4, AdvanceStaysRun
  <2>14. t.p = q.p /\ t.shop = q.shop /\ t.refused = refused' /\ t.applied = q.applied
    BY <1>1, <1>4, <2>7, <2>12
  <2>15. Between(shop', t.shop, AllLinked(t.shop, t.p))
    BY <1>1, <2>7, <2>14
  <2>16. QED
    BY <2>3, <2>7, <2>13, <2>14, <2>15, RunsOn
<1>8. QED
  BY <1>1, <1>4, <1>5, <1>6, <1>7, EventIsConsumed

\* The links a process has flushed do not come between an event and what it does.
LEMMA EffectStaysBetween ==
  ASSUME NEW q, IsRun(q), NEW e \in Line, Planned(q.p, e), e.kind # "item",
         NEW x, Between(x, q.shop, AllLinked(q.shop, q.p)),
         e.kind # "define" => x = q.shop /\ q.p.links = <<>>,
         NEW t, t = Done(q.shop, e), NEW c, c = Confirm(q.p, e),
         NEW again, again = FALSE, NEW y, y = Effect(x, e, again)
  PROVE  Between(y, t, AllLinked(t, c))
<1>1. PICK s : s = q.shop
  OBVIOUS
<1>2. PICK p : p = q.p
  OBVIOUS
<1>3. /\ IsShop(s) /\ IsShop(x) /\ SameElse(x, s) /\ Within(s, x) /\ Within(x, AllLinked(s, p))
      /\ e.kind \in {"define", "item", "open", "status", "part"}
  BY <1>1, <1>2, PlannedKinds DEF Between, IsRun, Waiting
<1>4. /\ IsShop(y) /\ y.above = x.above
      /\ e.kind = "define" => y.assets = x.assets \cup {e.asset} /\ y.stock = x.stock /\ y.wos = x.wos
  BY <1>3, EffectIs
<1>5. /\ IsShop(t) /\ t.above = s.above
      /\ e.kind = "define" => t.assets = s.assets \cup {e.asset} /\ t.stock = s.stock /\ t.wos = s.wos
  BY <1>1, <1>3, DoneIs
<1>6. /\ Waiting(t, c)
      /\ e.kind = "define" => Grows(s, p, e.asset, t, c)
      /\ e.kind # "define" => c.links = p.links
  BY <1>1, <1>2, AcceptedIs
<1>7. CASE e.kind = "define"
  <2>1. SameElse(y, t)
    BY <1>3, <1>4, <1>5, <1>7 DEF SameElse
  <2>2. Within(t, y)
    BY <1>3, <1>4, <1>5 DEF Within
  <2>3. PICK b : b = e.asset
    OBVIOUS
  <2>4. Grows(s, p, b, t, c)
    BY <1>6, <1>7, <2>3
  <2>5. Within(AllLinked(s, p), AllLinked(t, c))
    BY <2>4, GrownBatchJoinsMore
  <2>6. Within(y, AllLinked(s, p))
    BY <1>3, <1>4 DEF Within
  <2>7. PICK f : f = AllLinked(s, p)
    OBVIOUS
  <2>8. PICK g : g = AllLinked(t, c)
    OBVIOUS
  <2>9. Within(y, g)
    BY <2>5, <2>6, <2>7, <2>8, WithinGoesOn
  <2>10. QED
    BY <1>4, <2>1, <2>2, <2>8, <2>9 DEF Between
<1>8. CASE e.kind # "define"
  <2>1. y = t
    BY <1>1, <1>8 DEF Done
  <2>2. Len(c.links) = 0
    BY <1>2, <1>6, <1>8
  <2>3. AllLinked(t, c) = t
    BY <2>2, LinkingStep DEF AllLinked
  <2>4. QED
    BY <1>4, <2>1, <2>3 DEF Between, SameElse, Within
<1>9. QED
  BY <1>7, <1>8

LEMMA EventIsApplied ==
  ASSUME SeedShapes, NEW E, Sorted(E), InWorld(E), Apply
  PROVE  SeedShapes' /\ InWorld(E)'
<1>1. /\ AtEvent /\ replay.pc = "run" /\ MoreEvents
      /\ Planned(replay.checker, NextEvent) /\ NextEvent.kind # "item" /\ Accepts(shop, NextEvent)
      /\ shop' = Effect(shop, NextEvent, NextEvent.seq \in posted)
      /\ posted' \subseteq posted \cup {NextEvent.seq}
      /\ UNCHANGED <<eventLog, refused, torn, crashes>>
  BY DEF Apply, AtEvent
<1>2. PICK p : p = replay.checker
  OBVIOUS
<1>3. PICK e : e = NextEvent
  OBVIOUS
<1>4. e \in Line /\ world.last < e.seq
  BY <1>1, <1>3, EventIsNext
<1>5. PICK again : again = FALSE
  OBVIOUS
<1>6. shop' = Effect(shop, e, again)
  <2>1. e.seq \notin posted
    <3>1. SUFFICES ASSUME e.seq \in posted PROVE FALSE
      OBVIOUS
    <3>2. e.seq <= world.last
      BY <3>1 DEF InWorld
    <3>3. e.seq \in Nat /\ world.last \in Nat
      BY <1>4, LineFits DEF SeedShapes, SeedTypeOK
    <3>4. QED
      BY <1>4, <3>2, <3>3
  <2>2. (e.seq \in posted) = FALSE
    BY <2>1
  <2>3. QED
    BY <1>1, <1>3, <1>5, <2>2
<1>7. PICK c : c = Confirm(p, e)
  OBVIOUS
<1>8. PICK a : a = replay.applied + 1
  OBVIOUS
<1>9. Consumes(c, a)
  <2>1. world' = [world EXCEPT !.last = NextEvent.seq]
    BY DEF Apply, Consume
  <2>2. replay' = [replay EXCEPT !.pc = "run", !.next = @ + 1,
                                 !.checker = Confirm(@, NextEvent), !.applied = @ + 1]
    BY DEF Apply, Consume
  <2>3. QED
    BY <1>2, <1>3, <1>7, <1>8, <2>1, <2>2 DEF Consumes
<1>10. IsChecker(p) /\ IsShop(shop)
  BY <1>1, <1>2 DEF InWorld, RunIsHere, SeedShapes
<1>11. IsChecker(c)
  BY <1>1, <1>2, <1>3, <1>4, <1>7, <1>10, ConfirmIs
<1>12. IsShop(shop')
  <2>1. PICK s : s = shop
    OBVIOUS
  <2>2. e.kind \in {"define", "item", "open", "status", "part"} /\ IsShop(s)
    BY <1>1, <1>2, <1>3, <1>10, <2>1, PlannedKinds
  <2>3. IsShop(Effect(s, e, again))
    BY <1>4, <2>2, EffectIs
  <2>4. QED
    BY <1>6, <2>1, <2>3
<1>13. ASSUME Course(E)' = Advance(Course(E), e), torn = {} PROVE Running(Course(E))'
  <2>1. PICK r : r = Course(E)
    OBVIOUS
  <2>2. PICK t : t = Advance(r, e)
    OBVIOUS
  <2>3. replay'.pc = "run" /\ replay'.checker = c /\ replay'.applied = a /\ replay'.after = replay.after
    BY <1>9 DEF Consumes, SeedShapes
  <2>4. IsRun(r) /\ r.refused \subseteq t.refused
    BY <1>1, <1>3, <2>1, <2>2, CourseIs, EventIsNext
  <2>5. SUFFICES ASSUME replay.after = 0 \/ t.refused = {} PROVE Running(t)'
    BY <1>13, <2>1, <2>2, <2>3 DEF Running
  <2>6. PICK q : q = Met(r, e)
    OBVIOUS
  <2>7. /\ IsRun(q) /\ p = q.p /\ refused = q.refused
        /\ replay.after = 0 => replay.applied = q.applied
        /\ Between(shop, q.shop, AllLinked(q.shop, q.p))
        /\ e.kind # "define" => shop = q.shop /\ q.p.links = <<>>
    BY <1>1, <1>2, <1>3, <1>13, <2>1, <2>4, <2>5, <2>6, EventIsMet
  <2>8. PICK s : s = shop
    OBVIOUS
  <2>9. PICK u : u = q.shop
    OBVIOUS
  <2>10. SameElse(s, u)
    BY <2>7, <2>8, <2>9 DEF Between
  <2>11. Accepts(u, e)
    BY <1>1, <1>3, <2>8, <2>10, AcceptsAlike
  <2>12. t = [p |-> Confirm(q.p, e), shop |-> Done(q.shop, e),
              refused |-> q.refused, applied |-> q.applied + 1]
    BY <1>1, <1>2, <1>3, <2>2, <2>4, <2>6, <2>7, <2>9, <2>11, AdvanceIs
  <2>13. IsRun(t)
    BY <1>4, <2>2, <2>4, AdvanceStaysRun
  <2>14. t.p = c /\ t.shop = Done(q.shop, e) /\ t.refused = refused' /\ t.applied = q.applied + 1
    BY <1>1, <1>7, <2>7, <2>12
  <2>15. replay.after = 0 => a = t.applied
    BY <1>8, <2>7, <2>14
  <2>16. PICK y : y = Effect(s, e, again)
    OBVIOUS
  <2>17. PICK d : d = Done(q.shop, e)
    OBVIOUS
  <2>18. /\ IsRun(q) /\ Planned(q.p, e) /\ e.kind # "item"
         /\ Between(s, q.shop, AllLinked(q.shop, q.p))
         /\ e.kind # "define" => s = q.shop /\ q.p.links = <<>>
         /\ c = Confirm(q.p, e)
    BY <1>1, <1>2, <1>3, <1>7, <2>7, <2>8
  <2>19. Between(y, d, AllLinked(d, c))
    BY <1>4, <1>5, <2>16, <2>17, <2>18, EffectStaysBetween
  <2>20. Between(shop', t.shop, AllLinked(t.shop, t.p))
    BY <1>6, <2>8, <2>14, <2>16, <2>17, <2>19
  <2>21. QED
    BY <1>1, <2>3, <2>13, <2>14, <2>15, <2>20, RunsOn
<1>14. QED
  BY <1>1, <1>3, <1>9, <1>11, <1>12, <1>13, EventIsConsumed

-----------------------------------------------------------------------------
LEMMA RunGoesOn ==
  ASSUME SeedShapes, NEW E, Sorted(E), InWorld(E), replay.pc # "none", IsShop(shop'),
         UNCHANGED <<eventLog, posted, world, refused, torn, crashes>>,
         NEW pc \in {"run", "adjust"}, NEW c, IsChecker(c),
         replay' = [replay EXCEPT !.pc = pc, !.checker = c],
         pc = "adjust" => MoreEvents /\ NextEvent.kind = "item",
         NEW r, r = Course(E), torn = {} => Running(r)'
  PROVE  SeedShapes' /\ InWorld(E)'
<1>1. Position(E)' = Position(E) /\ Course(E)' = Course(E)
  BY CourseStays
<1>2. replay' = [pc |-> pc, all |-> replay.all, next |-> replay.next, end |-> replay.end,
                 checker |-> c, until |-> replay.until, after |-> replay.after,
                 applied |-> replay.applied]
  BY DEF SeedShapes
<1>3. SeedShapes'
  <2>1. SeedTypeOK'
    BY <1>2 DEF SeedTypeOK, SeedShapes, IsShop
  <2>2. (replay = [pc |-> replay.pc, all |-> replay.all, next |-> replay.next, end |-> replay.end,
                   checker |-> replay.checker, until |-> replay.until, after |-> replay.after,
                   applied |-> replay.applied])'
    BY <1>2
  <2>3. QED
    BY <2>1, <2>2 DEF SeedShapes
<1>4. RunIsHere(E)'
  <2>1. RunIsHere(E)
    BY DEF InWorld
  <2>2. pc = "adjust" => (MoreEvents /\ NextEvent.kind = "item")'
    BY <1>2 DEF MoreEvents, NextEvent
  <2>3. QED
    BY <1>1, <1>2, <2>1, <2>2 DEF RunIsHere
<1>5. torn' = {} => Running(Course(E))'
  <2>1. SUFFICES ASSUME torn' = {} PROVE Running(Course(E))'
    OBVIOUS
  <2>2. Running(r)' /\ Course(E)' = r
    BY <1>1, <2>1
  <2>3. QED
    BY <2>2 DEF Running
<1>6. replay'.pc # "none"
  BY <1>2
<1>7. InWorld(E)'
  BY <1>1, <1>4, <1>5, <1>6 DEF InWorld
<1>8. QED
  BY <1>3, <1>7

LEMMA ItemIsCreated ==
  ASSUME SeedShapes, NEW E, Sorted(E), InWorld(E), CreateItem
  PROVE  SeedShapes' /\ InWorld(E)'
<1>1. /\ AtEvent /\ replay.pc = "run" /\ MoreEvents
      /\ Planned(replay.checker, NextEvent) /\ NextEvent.kind = "item" /\ Accepts(shop, NextEvent)
      /\ shop' = Effect(shop, NextEvent, FALSE)
      /\ replay' = [replay EXCEPT !.pc = "adjust"]
      /\ UNCHANGED <<eventLog, posted, world, refused, torn, crashes>>
  BY DEF CreateItem, AtEvent
<1>2. PICK c : c = replay.checker
  OBVIOUS
<1>3. PICK e : e = NextEvent
  OBVIOUS
<1>4. e \in Line
  BY <1>1, <1>3, EventIsNext
<1>5. PICK s : s = shop
  OBVIOUS
<1>6. PICK again : again = FALSE
  OBVIOUS
<1>7. IsChecker(c) /\ IsShop(s)
  BY <1>1, <1>2, <1>5 DEF InWorld, RunIsHere, SeedShapes
<1>8. IsShop(shop')
  <2>1. IsShop(Effect(s, e, again))
    BY <1>1, <1>3, <1>4, <1>7, EffectIs
  <2>2. QED
    BY <1>1, <1>3, <1>5, <1>6, <2>1
<1>9. PICK pc \in {"run", "adjust"} : pc = "adjust"
  OBVIOUS
<1>10. replay' = [replay EXCEPT !.pc = pc, !.checker = c]
  BY <1>1, <1>2, <1>9 DEF SeedShapes
<1>11. replay' = [pc |-> "adjust", all |-> replay.all, next |-> replay.next, end |-> replay.end,
                  checker |-> c, until |-> replay.until, after |-> replay.after,
                  applied |-> replay.applied]
  BY <1>1, <1>2 DEF SeedShapes
<1>12. PICK r : r = Course(E)
  OBVIOUS
<1>13. ASSUME torn = {} PROVE Running(r)'
  <2>1. SUFFICES ASSUME replay.after = 0 \/ r.refused = {} PROVE Running(r)'
    BY <1>11 DEF Running
  <2>2. PICK q : q = Met(r, e)
    OBVIOUS
  <2>3. /\ IsRun(q) /\ c = q.p /\ refused = q.refused /\ q.refused = r.refused
        /\ replay.after = 0 => replay.applied = q.applied
        /\ Between(shop, q.shop, AllLinked(q.shop, q.p))
        /\ e.kind # "define" => shop = q.shop
    BY <1>1, <1>2, <1>3, <1>12, <1>13, <2>1, <2>2, EventIsMet
  <2>4. q = Flushed(r) /\ shop = q.shop
    BY <1>1, <1>3, <2>2, <2>3 DEF Met
  <2>5. Running(r)
    BY <1>1, <1>12, <1>13 DEF InWorld
  <2>6. NextEvent' = e
    BY <1>3, <1>11 DEF NextEvent
  <2>7. Planned(q.p, e) /\ Accepts(q.shop, e) /\ shop' = Effect(q.shop, e, FALSE)
    BY <1>1, <1>2, <1>3, <2>3, <2>4
  <2>8. HalfDone(r)'
    BY <1>11, <2>3, <2>4, <2>6, <2>7 DEF HalfDone
  <2>9. QED
    BY <1>1, <1>11, <2>1, <2>5, <2>8 DEF Running
<1>14. QED
  BY <1>1, <1>7, <1>8, <1>9, <1>10, <1>12, <1>13, RunGoesOn

LEMMA ItemIsStocked ==
  ASSUME SeedShapes, NEW E, Sorted(E), InWorld(E), StockItem
  PROVE  SeedShapes' /\ InWorld(E)'
<1>1. /\ replay.pc = "adjust" /\ MoreEvents /\ NextEvent.kind = "item"
      /\ shop' = AdjustOnHand(shop, NextEvent.item)
      /\ UNCHANGED <<eventLog, posted, refused, torn, crashes>>
  BY DEF StockItem, InWorld, RunIsHere
<1>2. PICK p : p = replay.checker
  OBVIOUS
<1>3. PICK e : e = NextEvent
  OBVIOUS
<1>4. e \in Line
  BY <1>1, <1>3, EventIsNext
<1>5. PICK c : c = Confirm(p, e)
  OBVIOUS
<1>6. PICK a : a = replay.applied + 1
  OBVIOUS
<1>7. Consumes(c, a)
  <2>1. world' = [world EXCEPT !.last = NextEvent.seq]
    BY DEF StockItem, Consume
  <2>2. replay' = [replay EXCEPT !.pc = "run", !.next = @ + 1,
                                 !.checker = Confirm(@, NextEvent), !.applied = @ + 1]
    BY DEF StockItem, Consume
  <2>3. QED
    BY <1>2, <1>3, <1>5, <1>6, <2>1, <2>2 DEF Consumes
<1>8. IsChecker(p) /\ IsShop(shop)
  BY <1>1, <1>2 DEF InWorld, RunIsHere, SeedShapes
<1>9. IsChecker(c)
  <2>1. c = [assets |-> p.assets, items |-> p.items \cup {e.item}, wos |-> p.wos, links |-> p.links]
    BY <1>1, <1>3, <1>5, <1>8 DEF Confirm, IsChecker
  <2>2. QED
    BY <1>8, <2>1 DEF IsChecker
<1>10. IsShop(shop')
  <2>1. PICK s : s = shop
    OBVIOUS
  <2>2. PICK i : i = e.item
    OBVIOUS
  <2>3. IsShop(AdjustOnHand(s, i))
    BY <1>8, <2>1, AdjustIs
  <2>4. QED
    BY <1>1, <1>3, <2>1, <2>2, <2>3
<1>11. ASSUME Course(E)' = Advance(Course(E), e), torn = {} PROVE Running(Course(E))'
  <2>1. PICK r : r = Course(E)
    OBVIOUS
  <2>2. PICK t : t = Advance(r, e)
    OBVIOUS
  <2>3. replay'.pc = "run" /\ replay'.checker = c /\ replay'.applied = a /\ replay'.after = replay.after
    BY <1>7 DEF Consumes, SeedShapes
  <2>4. IsRun(r) /\ r.refused \subseteq t.refused
    BY <1>1, <1>3, <2>1, <2>2, CourseIs, EventIsNext
  <2>5. SUFFICES ASSUME replay.after = 0 \/ t.refused = {} PROVE Running(t)'
    BY <1>11, <2>1, <2>2, <2>3 DEF Running
  <2>6. PICK q : q = Met(r, e)
    OBVIOUS
  <2>7. q = Flushed(r)
    BY <1>1, <1>3, <2>6 DEF Met
  <2>8. /\ IsRun(q) /\ q.p.links = <<>> /\ q.refused = r.refused /\ q.applied = r.applied
    BY <2>4, <2>7, FlushedIs
  <2>9. Running(r)
    BY <1>1, <1>11, <2>1 DEF InWorld
  <2>10. replay.after = 0 \/ r.refused = {}
    BY <2>4, <2>5
  <2>11. refused = q.refused /\ (replay.after = 0 => replay.applied = q.applied)
    BY <2>8, <2>9, <2>10 DEF Running
  <2>12. /\ Planned(q.p, e) /\ Accepts(q.shop, e)
         /\ p = q.p /\ shop = Effect(q.shop, e, FALSE)
    BY <1>1, <1>2, <1>3, <2>7, <2>9, <2>10 DEF Running, HalfDone
  <2>13. t = [p |-> Confirm(q.p, e), shop |-> Done(q.shop, e),
              refused |-> q.refused, applied |-> q.applied + 1]
    BY <2>2, <2>4, <2>6, <2>12, AdvanceIs
  <2>14. IsRun(t)
    BY <1>4, <2>2, <2>4, AdvanceStaysRun
  <2>15. t.p = c /\ t.shop = Done(q.shop, e) /\ t.refused = refused' /\ t.applied = q.applied + 1
    BY <1>1, <1>5, <2>11, <2>12, <2>13
  <2>16. replay.after = 0 => a = t.applied
    BY <1>6, <2>11, <2>15
  <2>17. shop' = t.shop
    BY <1>1, <1>3, <2>12, <2>15 DEF Done
  <2>18. t.p.links = <<>>
    <3>1. t.p.links = p.links
      BY <1>1, <1>3, <1>5, <1>8, <2>15 DEF Confirm, IsChecker
    <3>2. QED
      BY <2>8, <2>12, <3>1
  <2>19. AllLinked(t.shop, t.p) = t.shop
    BY <2>14, <2>18, NothingWaits
  <2>20. Between(shop', t.shop, AllLinked(t.shop, t.p))
    BY <1>10, <2>17, <2>19 DEF Between, SameElse, Within
  <2>21. QED
    BY <2>3, <2>14, <2>15, <2>16, <2>20, RunsOn
<1>12. QED
  BY <1>1, <1>3, <1>7, <1>9, <1>10, <1>11, EventIsConsumed

LEMMA TailOfRest ==
  ASSUME NEW S, NEW l \in Seq(S), NEW m \in 1..Len(l)
  PROVE  Tail(SubSeq(l, m, Len(l))) = SubSeq(l, m + 1, Len(l))
<1>1. PICK N \in Nat : N = Len(l)
  OBVIOUS
<1>2. m \in Int /\ m + 1 \in Int /\ N \in Int /\ m <= N /\ m >= 1
  BY <1>1
<1>3. \A i \in m..N : l[i] \in S
  BY <1>1
<1>4. PICK j \in Int : j = m + 1
  BY <1>2
<1>5. \A i \in j..N : l[i] \in S
  BY <1>2, <1>3, <1>4
<1>6. PICK k : k = SubSeq(l, m, N)
  OBVIOUS
<1>7. PICK t : t = SubSeq(l, j, N)
  OBVIOUS
<1>8. k \in Seq(S) /\ Len(k) = N - m + 1 /\ \A i \in 1..(N - m + 1) : k[i] = l[m + i - 1]
  <2>1. PICK h \in Int : h = m
    BY <1>2
  <2>2. \A i \in h..N : l[i] \in S
    BY <1>3, <2>1
  <2>3. k = SubSeq(l, h, N)
    BY <1>6, <2>1
  <2>4. k \in Seq(S) /\ Len(k) = (IF h <= N THEN N - h + 1 ELSE 0)
        /\ \A i \in 1..(N - h + 1) : k[i] = l[h + i - 1]
    BY <1>1, <2>1, <2>2, <2>3, SubSeqProperties
  <2>5. QED
    BY <1>2, <2>1, <2>4
<1>9. t \in Seq(S) /\ Len(t) = (IF j <= N THEN N - j + 1 ELSE 0)
      /\ \A i \in 1..(N - j + 1) : t[i] = l[j + i - 1]
  BY <1>1, <1>5, <1>7, SubSeqProperties
<1>10. Len(t) = N - m
  <2>1. j <= N => N - j + 1 = N - m
    BY <1>2, <1>4
  <2>2. ~(j <= N) => N - m = 0
    BY <1>2, <1>4
  <2>3. QED
    BY <1>9, <2>1, <2>2
<1>11. k # <<>>
  BY <1>2, <1>8
<1>12. Tail(k) \in Seq(S) /\ Len(Tail(k)) = N - m
       /\ \A i \in 1..Len(Tail(k)) : Tail(k)[i] = k[i + 1]
  BY <1>2, <1>8, <1>11, HeadTailProperties
<1>13. ASSUME NEW i \in 1..(N - m) PROVE Tail(k)[i] = t[i]
  <2>1. /\ i \in Nat /\ i + 1 \in 1..(N - m + 1) /\ i \in 1..(N - j + 1)
        /\ m + (i + 1) - 1 = j + i - 1
    BY <1>2, <1>4
  <2>2. i \in 1..Len(Tail(k))
    BY <1>12
  <2>3. Tail(k)[i] = k[i + 1]
    BY <1>12, <2>2
  <2>4. k[i + 1] = l[m + (i + 1) - 1] /\ t[i] = l[j + i - 1]
    BY <1>8, <1>9, <2>1
  <2>5. QED
    BY <2>1, <2>3, <2>4
<1>14. Tail(k) = t
  BY <1>9, <1>10, <1>12, <1>13, SeqEqual
<1>15. QED
  BY <1>1, <1>4, <1>6, <1>7, <1>14

LEMMA LinkIsFlushed ==
  ASSUME SeedShapes, NEW E, Sorted(E), InWorld(E), FlushLink
  PROVE  SeedShapes' /\ InWorld(E)'
<1>1. /\ replay.pc = "run" /\ replay.checker.links # <<>>
      /\ (MoreEvents => NextEvent.kind # "define")
      /\ shop' = Linked(shop, replay.checker, Head(replay.checker.links))
      /\ replay' = [replay EXCEPT !.checker.links = Tail(@)]
      /\ UNCHANGED <<eventLog, posted, world, refused, torn, crashes>>
  BY DEF FlushLink
<1>2. PICK p : p = replay.checker
  OBVIOUS
<1>3. PICK s : s = shop
  OBVIOUS
<1>4. IsChecker(p) /\ IsShop(s) /\ p.links # <<>>
  BY <1>1, <1>2, <1>3 DEF InWorld, RunIsHere, SeedShapes
<1>5. PICK k \in Seq(Machines \X Machines) : k = p.links
  BY <1>4 DEF IsChecker
<1>6. Head(k) \in Machines \X Machines /\ Tail(k) \in Seq(Machines \X Machines)
  BY <1>4, <1>5
<1>7. PICK link \in Machines \X Machines : link = Head(k)
  BY <1>6
<1>8. PICK c : c = [p EXCEPT !.links = Tail(k)]
  OBVIOUS
<1>9. c = [assets |-> p.assets, items |-> p.items, wos |-> p.wos, links |-> Tail(k)]
  BY <1>4, <1>8 DEF IsChecker
<1>10. IsChecker(c)
  BY <1>6, <1>9 DEF IsChecker
<1>11. shop' = Linked(s, p, link) /\ IsShop(shop')
  <2>1. shop' = Linked(s, p, link)
    BY <1>1, <1>2, <1>3, <1>5, <1>7
  <2>2. IsShop(Linked(s, p, link))
    BY <1>4, <1>7, LinkedIs
  <2>3. QED
    BY <2>1, <2>2
<1>12. PICK pc \in {"run", "adjust"} : pc = "run"
  OBVIOUS
<1>13. replay' = [replay EXCEPT !.pc = pc, !.checker = c]
  BY <1>1, <1>2, <1>5, <1>8, <1>12 DEF SeedShapes
<1>14. replay' = [pc |-> "run", all |-> replay.all, next |-> replay.next, end |-> replay.end,
                  checker |-> c, until |-> replay.until, after |-> replay.after,
                  applied |-> replay.applied]
  BY <1>12, <1>13 DEF SeedShapes
<1>15. PICK r : r = Course(E)
  OBVIOUS
<1>16. ASSUME torn = {} PROVE Running(r)'
  <2>1. SUFFICES ASSUME replay.after = 0 \/ r.refused = {} PROVE Running(r)'
    BY <1>14 DEF Running
  <2>2. Running(r)
    BY <1>1, <1>15, <1>16 DEF InWorld
  <2>3. PICK n \in 0..Len(r.p.links) : Amid(r, n)
    BY <1>1, <2>1, <2>2 DEF Running
  <2>4. IsRun(r)
    BY <1>15, CourseIs
  <2>5. Waiting(r.shop, r.p) /\ IsChecker(r.p)
    BY <2>4 DEF IsRun, Waiting
  <2>6. PICK l \in Seq(Machines \X Machines) : l = r.p.links
    BY <2>5 DEF IsChecker
  <2>7. /\ n \in 0..Len(l) /\ Len(l) \in Nat
        /\ p = [r.p EXCEPT !.links = SubSeq(l, n + 1, Len(l))]
        /\ Between(s, Linking(r.shop, r.p)[n], AllLinked(r.shop, r.p))
    BY <1>2, <1>3, <2>3, <2>6 DEF Amid
  <2>8. p = [assets |-> r.p.assets, items |-> r.p.items, wos |-> r.p.wos,
             links |-> SubSeq(l, n + 1, Len(l))]
    BY <2>5, <2>7 DEF IsChecker
  <2>9. k = SubSeq(l, n + 1, Len(l)) /\ p.assets = r.p.assets
    BY <1>5, <2>8
  <2>10. n + 1 \in 1..Len(l)
    <3>1. SUFFICES ASSUME n = Len(l) PROVE FALSE
      BY <2>7
    <3>2. k = <<>>
      BY <2>6, <2>7, <2>9, <3>1
    <3>3. QED
      BY <1>4, <1>5, <3>2
  <2>11. link = l[n + 1]
    BY <1>7, <2>7, <2>9, <2>10
  <2>12. Tail(k) = SubSeq(l, (n + 1) + 1, Len(l))
    <3>1. PICK i \in 1..Len(l) : i = n + 1
      BY <2>10
    <3>2. Tail(SubSeq(l, i, Len(l))) = SubSeq(l, i + 1, Len(l))
      BY <2>6, TailOfRest
    <3>3. QED
      BY <2>9, <3>1, <3>2
  <2>13. c = [r.p EXCEPT !.links = SubSeq(l, (n + 1) + 1, Len(l))]
    <3>1. c = [assets |-> r.p.assets, items |-> r.p.items, wos |-> r.p.wos,
               links |-> SubSeq(l, (n + 1) + 1, Len(l))]
      BY <1>9, <2>8, <2>12
    <3>2. PICK b : b = r.p
      OBVIOUS
    <3>3. PICK v : v = SubSeq(l, (n + 1) + 1, Len(l))
      OBVIOUS
    <3>4. PICK x, y, z, w : b = [assets |-> x, items |-> y, wos |-> z, links |-> w]
      BY <2>5, <3>2 DEF IsChecker
    <3>5. c = [assets |-> x, items |-> y, wos |-> z, links |-> v]
      BY <3>1, <3>2, <3>3, <3>4
    <3>6. c = [b EXCEPT !.links = v]
      BY <3>4, <3>5
    <3>7. QED
      BY <3>2, <3>3, <3>6
  <2>14. Linked(s, p, link) = Linked(s, r.p, link)
    BY <2>9 DEF Linked
  <2>15. PICK m : m = n + 1
    OBVIOUS
  <2>16. PICK b : b = r.p
    OBVIOUS
  <2>17. PICK o : o = r.shop
    OBVIOUS
  <2>18. m \in 1..Len(b.links) /\ link = b.links[m] /\ m - 1 = n
    BY <2>6, <2>7, <2>10, <2>11, <2>15, <2>16
  <2>19. Between(s, Linking(o, b)[m - 1], AllLinked(o, b)) /\ Waiting(o, b)
    BY <2>5, <2>7, <2>16, <2>17, <2>18
  <2>20. Between(Linked(s, b, b.links[m]), Linking(o, b)[m], AllLinked(o, b))
    BY <2>18, <2>19, LinkCatchesUp
  <2>21. Between(shop', Linking(r.shop, r.p)[m], AllLinked(r.shop, r.p))
    BY <1>11, <2>14, <2>16, <2>17, <2>18, <2>20
  <2>22. MoreEvents' = MoreEvents /\ NextEvent' = NextEvent
    BY <1>14 DEF MoreEvents, NextEvent
  <2>23. m \in 0..Len(r.p.links)
    BY <2>6, <2>7, <2>10, <2>15
  <2>24. replay'.checker = [r.p EXCEPT !.links = SubSeq(@, m + 1, Len(@))]
    BY <1>14, <2>6, <2>13, <2>15
  <2>25. Amid(r, m)'
    BY <1>1, <2>21, <2>22, <2>23, <2>24 DEF Amid
  <2>26. QED
    BY <1>1, <1>14, <2>1, <2>2, <2>23, <2>25 DEF Running
<1>17. QED
  BY <1>1, <1>10, <1>11, <1>12, <1>13, <1>15, <1>16, RunGoesOn

-----------------------------------------------------------------------------
\* A process that ends or dies between two events leaves the batch flushed in part.
LEMMA RunRests ==
  ASSUME SeedShapes, NEW E, Sorted(E), InWorld(E), replay.pc = "run", torn = {}
  PROVE  Resting(Course(E))
<1>1. PICK r : r = Course(E)
  OBVIOUS
<1>2. IsRun(r) /\ Running(r)
  BY <1>1, CourseIs DEF InWorld
<1>3. SUFFICES ASSUME r.refused = {} PROVE refused = {} /\ Between(shop, r.shop, AllLinked(r.shop, r.p))
  BY <1>1 DEF Resting
<1>4. refused = {}
  BY <1>2, <1>3 DEF Running
<1>5. PICK n \in 0..Len(r.p.links) : Amid(r, n)
  BY <1>2, <1>3 DEF Running
<1>6. PICK o : o = r.shop
  OBVIOUS
<1>7. PICK b : b = r.p
  OBVIOUS
<1>8. PICK low : low = Linking(o, b)[n]
  OBVIOUS
<1>9. PICK f : f = AllLinked(o, b)
  OBVIOUS
<1>10. PICK x : x = shop
  OBVIOUS
<1>11. Waiting(o, b) /\ Between(x, low, f) /\ n \in 0..Len(b.links)
  BY <1>2, <1>5, <1>6, <1>7, <1>8, <1>9, <1>10 DEF IsRun, Amid
<1>12. SameElse(o, low) /\ Within(o, low)
  BY <1>8, <1>11, LinkingIs
<1>13. Within(o, x)
  BY <1>11, <1>12, WithinGoesOn DEF Between
<1>14. Between(x, o, f)
  BY <1>11, <1>12, <1>13 DEF Between, SameElse
<1>15. QED
  BY <1>4, <1>6, <1>7, <1>9, <1>10, <1>14

\* What is left of a process once it is gone.
LEMMA NoReplayIs ==
  /\ NoReplay.pc = "none"
  /\ NoReplay = [pc |-> NoReplay.pc, all |-> NoReplay.all, next |-> NoReplay.next,
                 end |-> NoReplay.end, checker |-> NoReplay.checker, until |-> NoReplay.until,
                 after |-> NoReplay.after, applied |-> NoReplay.applied]
BY DEF NoReplay

LEMMA ReplayIsFinished ==
  ASSUME SeedShapes, NEW E, Sorted(E), InWorld(E), FinishReplay
  PROVE  SeedShapes' /\ InWorld(E)'
<1>1. /\ replay.pc = "run" /\ world' = [world EXCEPT !.until = replay.until] /\ replay' = NoReplay
      /\ UNCHANGED <<eventLog, shop, posted, refused, torn, crashes>>
  BY DEF FinishReplay, Over
<1>2. world' = [print |-> world.print, last |-> world.last, until |-> replay.until]
  BY <1>1 DEF SeedShapes
<1>3. Course(E)' = Course(E)
  BY <1>2, CourseStays
<1>4. SeedShapes'
  <2>1. replay.until \in CutOffs
    BY <1>1 DEF InWorld, RunIsHere
  <2>2. SeedTypeOK'
    BY <1>1, <1>2, <2>1, NoReplayIs DEF SeedShapes, SeedTypeOK
  <2>3. QED
    BY <1>1, <1>2, <2>2, NoReplayIs DEF SeedShapes
<1>5. torn' = {} => Resting(Course(E))'
  <2>1. SUFFICES ASSUME torn = {} PROVE Resting(Course(E))'
    BY <1>1
  <2>2. Resting(Course(E))
    BY <1>1, <2>1, RunRests
  <2>3. QED
    BY <1>1, <1>3, <2>2 DEF Resting
<1>6. InWorld(E)'
  BY <1>1, <1>2, <1>3, <1>5, NoReplayIs DEF InWorld
<1>7. QED
  BY <1>4, <1>6

LEMMA ReplayIsCut ==
  ASSUME SeedShapes, NEW E, Sorted(E), InWorld(E), ReplayCrashes
  PROVE  SeedShapes' /\ InWorld(E)'
<1>1. /\ replay.pc # "none" /\ crashes < MaxCrashes /\ crashes' = crashes + 1 /\ replay' = NoReplay
      /\ torn' = (IF replay.pc = "adjust" THEN torn \cup {NextEvent.seq} ELSE torn)
      /\ UNCHANGED <<eventLog, shop, posted, world, refused>>
  BY DEF ReplayCrashes
<1>2. Course(E)' = Course(E)
  BY <1>1, CourseStays
<1>3. SeedShapes'
  <2>1. torn' \subseteq Nat
    <3>1. CASE replay.pc = "adjust"
      <4>1. MoreEvents
        BY <3>1 DEF InWorld, RunIsHere
      <4>2. NextEvent.seq \in Nat
        BY <1>1, <4>1, EventIsNext, LineFits
      <4>3. QED
        BY <1>1, <3>1, <4>2 DEF SeedShapes, SeedTypeOK
    <3>2. CASE replay.pc # "adjust"
      BY <1>1, <3>2 DEF SeedShapes, SeedTypeOK
    <3>3. QED
      BY <3>1, <3>2
  <2>2. crashes' \in 0..MaxCrashes
    BY <1>1, SeedAssumption DEF SeedAssumption, SeedShapes, SeedTypeOK
  <2>3. SeedTypeOK'
    BY <1>1, <2>1, <2>2, NoReplayIs DEF SeedShapes, SeedTypeOK
  <2>4. QED
    BY <1>1, <2>3, NoReplayIs DEF SeedShapes
<1>4. torn' = {} => Resting(Course(E))'
  <2>1. SUFFICES ASSUME torn' = {} PROVE Resting(Course(E))'
    OBVIOUS
  <2>2. replay.pc = "run" /\ torn = {}
    BY <1>1, <2>1 DEF SeedShapes, SeedTypeOK
  <2>3. Resting(Course(E))
    BY <2>2, RunRests
  <2>4. QED
    BY <1>1, <1>2, <2>3 DEF Resting
<1>5. InWorld(E)'
  BY <1>1, <1>2, <1>4, NoReplayIs DEF InWorld
<1>6. QED
  BY <1>3, <1>5

\* The pre-checker keeps its shape whether or not its plans come true.
LEMMA ForeseenIs ==
  ASSUME NEW events, Sorted(events)
  PROVE  \A n \in 0..Len(events) : IsChecker(Foreseen(events)[n].p)
<1> DEFINE N == Len(events)
           F == Foreseen(events)
           G == {n \in 0..N : IsChecker(F[n].p)}
<1>1. N \in Nat /\ \A n \in 1..N : events[n] \in Line
  BY DEF Sorted
<1>2. F[0] = [p |-> Fresh, applied |-> 0] /\ \A n \in 1..N : F[n] = Foresee(F[n - 1], events[n])
  BY <1>1, ForeseenStep
<1>3. IsChecker(Fresh)
  BY DEF IsChecker, Fresh
<1> HIDE DEF F
<1>4. 0 \in G
  BY <1>1, <1>2, <1>3
<1>5. ASSUME NEW n \in 1..N, n - 1 \in G PROVE n \in G
  <2>1. PICK r : r = F[n - 1]
    OBVIOUS
  <2>2. PICK e \in Line : e = events[n]
    BY <1>1, <1>5
  <2>3. IsChecker(r.p) /\ F[n] = Foresee(r, e)
    BY <1>2, <1>5, <2>1, <2>2
  <2>4. PICK q : q = Ready(r.p, e)
    OBVIOUS
  <2>5. IsChecker(q)
    <3>1. CASE e.kind = "define"
      BY <2>3, <2>4, <3>1 DEF Ready
    <3>2. CASE e.kind # "define"
      <4>1. q = [assets |-> r.p.assets, items |-> r.p.items, wos |-> r.p.wos, links |-> <<>>]
        BY <2>3, <2>4, <3>2 DEF Ready, IsChecker
      <4>2. QED
        BY <4>1 DEF IsChecker
    <3>3. QED
      BY <3>1, <3>2
  <2>6. CASE Planned(q, e)
    <3>1. F[n] = [p |-> Confirm(q, e), applied |-> r.applied + 1]
      BY <2>3, <2>4, <2>6 DEF Foresee
    <3>2. IsChecker(Confirm(q, e))
      BY <2>5, <2>6, ConfirmIs
    <3>3. IsChecker(F[n].p)
      BY <3>1, <3>2
    <3>4. QED
      BY <1>1, <1>5, <3>3
  <2>7. CASE ~Planned(q, e)
    <3>1. F[n] = [r EXCEPT !.p = q]
      BY <2>3, <2>4, <2>7 DEF Foresee
    <3>2. IsChecker(F[n].p)
      BY <2>3, <2>5, <3>1
    <3>3. QED
      BY <1>1, <1>5, <3>2
  <2>8. QED
    BY <2>6, <2>7
<1>6. G \in SUBSET (0..N)
  OBVIOUS
<1> HIDE DEF G
<1>7. G = 0..N
  BY <1>1, <1>4, <1>5, <1>6, BoundedInduction
<1>8. QED
  BY <1>7 DEF F, G

-----------------------------------------------------------------------------
(***************************************************************************)
(* A ledger that has grown: what was read of it is read again, and the     *)
(* straight run has the same course over it.                               *)
(***************************************************************************)
LEMMA PrefixBegins ==
  ASSUME NEW S, NEW k \in Seq(S), NEW l \in Seq(S), IsPrefix(k, l)
  PROVE  Begins(k, l)
<1>1. Len(k) <= Len(l) /\ SubSeq(k, 1, Len(k)) = SubSeq(l, 1, Len(k))
  BY DEF IsPrefix
<1>2. ASSUME NEW n \in 1..Len(k) PROVE k[n] = l[n]
  <2>1. SubSeq(k, 1, Len(k))[n] = k[n] /\ SubSeq(l, 1, Len(k))[n] = l[n]
    BY <1>1, <1>2
  <2>2. QED
    BY <1>1, <2>1
<1>3. QED
  BY <1>1, <1>2 DEF Begins

LEMMA BeginsGoesOn ==
  ASSUME NEW S, NEW j \in Seq(S), NEW k \in Seq(S), NEW l \in Seq(S), Begins(j, k), Begins(k, l)
  PROVE  Begins(j, l)
<1>1. Len(j) \in Nat /\ Len(k) \in Nat /\ Len(l) \in Nat
  OBVIOUS
<1>2. QED
  BY <1>1 DEF Begins

LEMMA KeepGoesOn ==
  ASSUME NEW kept \in Seq(Line), NEW l \in Line
  PROVE  Begins(kept, Keep(kept, l))
<1>1. CASE Keep(kept, l) = kept
  BY <1>1 DEF Begins
<1>2. CASE Keep(kept, l) = Append(kept, l)
  BY <1>2 DEF Begins
<1>3. QED
  BY <1>1, <1>2 DEF Keep

LEMMA LedgerGoesOn ==
  ASSUME NEW k \in Seq(Line), NEW l \in Seq(Line), Begins(k, l)
  PROVE  Begins(ReadLedger(k), ReadLedger(l))
<1> DEFINE M == Len(k)
           N == Len(l)
           Same == {n \in 0..M : Kept(k)[n] = Kept(l)[n]}
           On == {n \in 0..N : n >= M => Begins(Kept(l)[M], Kept(l)[n])}
<1>1. M \in Nat /\ N \in Nat /\ M <= N
  BY DEF Begins
<1>2. \A n \in 0..N : Kept(l)[n] \in Seq(Line)
  BY KeptIsSorted DEF Sorted
<1>3. /\ Kept(k)[0] = <<>> /\ \A n \in 1..M : Kept(k)[n] = Keep(Kept(k)[n - 1], k[n])
      /\ Kept(l)[0] = <<>> /\ \A n \in 1..N : Kept(l)[n] = Keep(Kept(l)[n - 1], l[n])
  BY <1>1, KeptStep
<1>4. \A n \in 1..M : n \in 1..N /\ k[n] = l[n]
  BY <1>1 DEF Begins
<1>5. Same = 0..M
  <2>1. 0 \in Same
    BY <1>1, <1>3
  <2>2. ASSUME NEW n \in 1..M, n - 1 \in Same PROVE n \in Same
    <3>1. Kept(k)[n - 1] = Kept(l)[n - 1]
      BY <2>2
    <3>2. Kept(k)[n] = Kept(l)[n]
      BY <1>3, <1>4, <2>2, <3>1
    <3>3. QED
      BY <1>1, <2>2, <3>2
  <2>3. Same \in SUBSET (0..M)
    OBVIOUS
  <2> HIDE DEF Same
  <2>4. QED
    BY <1>1, <2>1, <2>2, <2>3, BoundedInduction
<1>6. On = 0..N
  <2>1. PICK b : b = Kept(l)[M]
    OBVIOUS
  <2>2. b \in Seq(Line) /\ Begins(b, b)
    BY <1>1, <1>2, <2>1 DEF Begins
  <2>3. 0 \in On
    <3>1. 0 >= M => M = 0
      BY <1>1
    <3>2. QED
      BY <1>1, <2>1, <2>2, <3>1
  <2>4. ASSUME NEW n \in 1..N, n - 1 \in On PROVE n \in On
    <3>1. SUFFICES ASSUME n > M PROVE Begins(b, Kept(l)[n])
      BY <1>1, <2>1, <2>2, <2>4
    <3>2. n - 1 >= M /\ n - 1 \in 0..N /\ n \in 0..N
      BY <1>1, <2>4, <3>1
    <3>3. PICK c : c = Kept(l)[n - 1]
      OBVIOUS
    <3>4. PICK d : d = Kept(l)[n]
      OBVIOUS
    <3>5. c \in Seq(Line) /\ d \in Seq(Line) /\ Begins(b, c)
      BY <1>2, <2>1, <2>4, <3>2, <3>3, <3>4
    <3>6. PICK a \in Line : a = l[n]
      BY <2>4
    <3>7. d = Keep(c, a)
      BY <1>3, <2>4, <3>3, <3>4, <3>6
    <3>8. Begins(c, d)
      BY <3>5, <3>7, KeepGoesOn
    <3>9. QED
      BY <2>2, <3>4, <3>5, <3>8, BeginsGoesOn
  <2>5. On \in SUBSET (0..N)
    OBVIOUS
  <2> HIDE DEF On
  <2>6. QED
    BY <1>1, <2>3, <2>4, <2>5, BoundedInduction
<1>7. Kept(k)[M] = Kept(l)[M] /\ Begins(Kept(l)[M], Kept(l)[N])
  BY <1>1, <1>5, <1>6
<1>8. QED
  BY <1>7 DEF ReadLedger

LEMMA CourseGoesOn ==
  ASSUME NEW d, Sorted(d), NEW e, Sorted(e), Begins(d, e)
  PROVE  \A n \in 0..Len(d) : Straight(d)[n] = Straight(e)[n]
<1> DEFINE M == Len(d)
           Same == {n \in 0..M : Straight(d)[n] = Straight(e)[n]}
<1>1. M \in Nat /\ Len(e) \in Nat /\ \A n \in 1..M : n \in 1..Len(e) /\ d[n] = e[n]
  BY DEF Sorted, Begins
<1>2. /\ Straight(d)[0] = Straight(e)[0]
      /\ \A n \in 1..M : /\ Straight(d)[n] = Advance(Straight(d)[n - 1], d[n])
                        /\ Straight(e)[n] = Advance(Straight(e)[n - 1], e[n])
  BY <1>1, StraightStep
<1>3. 0 \in Same
  BY <1>1, <1>2
<1>4. ASSUME NEW n \in 1..M, n - 1 \in Same PROVE n \in Same
  <2>1. Straight(d)[n - 1] = Straight(e)[n - 1]
    BY <1>4
  <2>2. Straight(d)[n] = Straight(e)[n]
    BY <1>1, <1>2, <1>4, <2>1
  <2>3. QED
    BY <1>1, <1>4, <2>2
<1>5. Same \in SUBSET (0..M)
  OBVIOUS
<1> HIDE DEF Same
<1>6. Same = 0..M
  BY <1>1, <1>3, <1>4, <1>5, BoundedInduction
<1>7. QED
  BY <1>6 DEF Same

LEMMA ProgressGoesOn ==
  ASSUME NEW d, Sorted(d), NEW e, Sorted(e), Begins(d, e),
         NEW b, b = 0 \/ \E n \in 1..Len(d) : d[n].seq = b
  PROVE  /\ Consumed(d, b) = Consumed(e, b)
         /\ Straight(d)[Consumed(d, b)] = Straight(e)[Consumed(e, b)]
         /\ b = 0 \/ \E n \in 1..Len(e) : e[n].seq = b
<1>1. Len(d) \in Nat /\ Len(e) \in Nat /\ \A n \in 1..Len(d) : n \in 1..Len(e) /\ d[n] = e[n]
  BY DEF Sorted, Begins
<1>2. CASE b = 0
  <2>1. Consumed(d, b) = 0 /\ Consumed(e, b) = 0
    BY <1>2, ConsumedMoves
  <2>2. QED
    BY <1>1, <1>2, <2>1, CourseGoesOn
<1>3. CASE \E n \in 1..Len(d) : d[n].seq = b
  <2>1. PICK n \in 1..Len(d) : d[n].seq = b
    BY <1>3
  <2>2. n \in 1..Len(e) /\ e[n].seq = b /\ n \in 0..Len(d)
    BY <1>1, <2>1
  <2>3. Consumed(d, b) = n /\ Consumed(e, b) = n
    BY <2>1, <2>2, ConsumedMoves
  <2>4. QED
    BY <2>2, <2>3, CourseGoesOn
<1>4. QED
  BY <1>2, <1>3

-----------------------------------------------------------------------------
\* A new run reads the ledger of the world, or makes it the world's.
LEMMA ReplayIsStarted ==
  ASSUME SeedInv, NEW until \in CutOffs, StartReplay(until)
  PROVE  SeedInv'
<1>1. PICK l \in Ledgers \cup Others : l = eventLog
  BY DEF SeedInv, SeedShapes
<1>2. PICK E : E = ReadLedger(l.lines)
  OBVIOUS
<1>3. Sorted(E) /\ Len(E) \in Nat /\ l.print # Nil /\ l.lines \in Seq(Line)
  BY <1>2, LedgerIsSorted, SeedAssumption DEF SeedAssumption, Sorted
<1>4. PICK b \in Nat : b = world.last
  BY DEF SeedInv, SeedShapes, SeedTypeOK
<1>5. PICK i \in 0..Len(E) : i = Consumed(E, b)
  BY <1>3, ConsumedIs
<1>6. PICK c : c = Rederived(E, b)
  OBVIOUS
<1>7. /\ replay.pc = "none"
      /\ world # NoWorld => world.print = l.print
      /\ world' = [print |-> l.print, last |-> b, until |-> world.until]
      /\ replay' = [pc |-> "run", all |-> E, next |-> i + 1, end |-> Due(E, until), checker |-> c,
                    until |-> until, after |-> b, applied |-> 0]
      /\ UNCHANGED <<eventLog, shop, posted, refused, torn, crashes>>
  <2>1. /\ replay.pc = "none"
        /\ world # NoWorld => world.print = eventLog.print
        /\ world' = [world EXCEPT !.print = eventLog.print]
        /\ UNCHANGED <<eventLog, shop, posted, refused, torn, crashes>>
    BY DEF StartReplay
  <2>2. replay' = [pc |-> "run", all |-> E, next |-> i + 1, end |-> Due(E, until), checker |-> c,
                   until |-> until, after |-> b, applied |-> 0]
    BY <1>1, <1>2, <1>4, <1>5, <1>6 DEF StartReplay
  <2>3. world' = [print |-> l.print, last |-> b, until |-> world.until]
    BY <1>1, <1>4, <2>1 DEF SeedInv, SeedShapes
  <2>4. QED
    BY <1>1, <2>1, <2>2, <2>3
<1>8. Position(E)' = i /\ Course(E)' = Straight(E)[i]
  <2>1. Position(E)' = i
    BY <1>5, <1>7 DEF Position
  <2>2. QED
    BY <2>1 DEF Course
<1>9. c = Foreseen(E)[i].p /\ IsChecker(c)
  BY <1>3, <1>5, <1>6, ForeseenIs DEF Rederived
<1>10. SeedShapes'
  <2>1. SeedTypeOK'
    BY <1>7 DEF SeedTypeOK, SeedInv, SeedShapes
  <2>2. QED
    BY <1>7, <2>1 DEF SeedInv, SeedShapes
<1>11. RunIsHere(E)'
  <2>1. until \in Nat /\ Due(E, until) \in 0..Len(E)
    BY <1>3, SeedAssumption, DueIs DEF SeedAssumption
  <2>2. b = 0 => i + 1 <= Due(E, until) + 1
    BY <1>3, <1>5, <2>1, ConsumedMoves
  <2>3. QED
    BY <1>7, <1>8, <1>9, <2>2 DEF RunIsHere
<1>12. PICK r : r = Straight(E)[i]
  OBVIOUS
<1>13. IsRun(r) /\ (b = 0 => r = Outset)
  <2>1. b = 0 => i = 0
    BY <1>3, <1>5, ConsumedMoves
  <2>2. QED
    BY <1>3, <1>12, <2>1, StraightIs, StraightStep
<1>14. /\ torn = {} => Resting(r)
       /\ b = 0 \/ \E n \in 1..Len(E) : E[n].seq = b
       /\ \A s \in posted : s <= b
  <2>1. CASE NothingYet
    <3>1. b = 0 /\ shop = Empty /\ refused = {} /\ r = Outset /\ posted = {}
      BY <1>4, <1>13, <2>1 DEF NothingYet, NoWorld
    <3>2. r.shop = Empty /\ r.p.links = <<>>
      BY <3>1 DEF Outset, Fresh
    <3>3. AllLinked(r.shop, r.p) = r.shop
      BY <1>13, <3>2, NothingWaits
    <3>4. IsShop(r.shop)
      BY <1>13 DEF IsRun, Waiting
    <3>5. Between(shop, r.shop, AllLinked(r.shop, r.p))
      BY <3>1, <3>2, <3>3, <3>4 DEF Between, SameElse, Within
    <3>6. QED
      BY <3>1, <3>5 DEF Resting
  <2>2. CASE \E k \in Ledgers \cup Others : Reading(k)
    <3>1. PICK k \in Ledgers \cup Others : Reading(k)
      BY <2>2
    <3>2. k.print = l.print /\ k.lines \in Seq(Line)
      BY <1>7, <3>1, SeedAssumption DEF Reading, NoWorld, SeedAssumption
    <3>3. PICK D : D = ReadLedger(k.lines)
      OBVIOUS
    <3>4. InWorld(D) /\ Sorted(D)
      BY <3>1, <3>2, <3>3, LedgerIsSorted DEF Reading
    <3>5. Begins(D, E)
      BY <1>1, <1>2, <1>3, <3>1, <3>2, <3>3, LedgerGoesOn DEF Reading
    <3>6. b = 0 \/ \E n \in 1..Len(D) : D[n].seq = b
      BY <1>4, <3>4 DEF InWorld
    <3>7. /\ Consumed(D, b) = i /\ Straight(D)[i] = r
          /\ b = 0 \/ \E n \in 1..Len(E) : E[n].seq = b
      BY <1>3, <1>5, <1>12, <3>4, <3>5, <3>6, ProgressGoesOn
    <3>8. Course(D) = r
      BY <1>4, <3>7 DEF Course, Position
    <3>9. QED
      BY <1>4, <1>7, <3>4, <3>7, <3>8 DEF InWorld
  <2>3. QED
    BY <2>1, <2>2 DEF SeedInv
<1>15. ASSUME torn = {} PROVE Running(r)'
  <2>1. SUFFICES ASSUME b = 0 \/ r.refused = {} PROVE Running(r)'
    BY <1>7 DEF Running
  <2>2. r.refused = {} /\ (b = 0 => r.applied = 0)
    BY <1>13, <2>1 DEF Outset
  <2>3. refused = {} /\ Between(shop, r.shop, AllLinked(r.shop, r.p))
    BY <1>14, <1>15, <2>2 DEF Resting
  <2>4. c = r.p
    BY <1>3, <1>5, <1>9, <1>12, <2>2, ForeseenComesTrue
  <2>5. /\ replay'.pc = "run" /\ replay'.checker = r.p /\ refused' = r.refused
        /\ replay'.after = 0 => replay'.applied = r.applied
    BY <1>7, <2>2, <2>3, <2>4
  <2>6. Between(shop', r.shop, AllLinked(r.shop, r.p))
    BY <1>7, <2>3
  <2>7. QED
    BY <1>13, <2>5, <2>6, RunsOn
<1>16. InWorld(E)'
  <2>1. world'.last = b /\ replay'.pc = "run" /\ posted' = posted
    BY <1>7
  <2>2. torn' = {} => Running(Course(E))'
    <3>1. SUFFICES ASSUME torn = {} PROVE Running(Course(E))'
      BY <1>7
    <3>2. Running(r)' /\ Course(E)' = r
      BY <1>8, <1>12, <1>15, <3>1
    <3>3. QED
      BY <3>2 DEF Running
  <2>3. QED
    BY <1>11, <1>14, <2>1, <2>2 DEF InWorld
<1>17. Reading(l)'
  <2>1. Begins(l.lines, l.lines)
    BY <1>3 DEF Begins
  <2>2. (l.print = world.print)' /\ (l = eventLog)'
    BY <1>1, <1>7
  <2>3. QED
    BY <1>2, <1>16, <2>1, <2>2 DEF Reading
<1>18. QED
  BY <1>10, <1>17 DEF SeedInv

LEMMA WorldStays ==
  ASSUME NEW E, InWorld(E), UNCHANGED <<shop, posted, world, replay, refused, torn>>
  PROVE  InWorld(E)'
<1>1. Position(E)' = Position(E) /\ Course(E)' = Course(E)
  BY CourseStays
<1>2. MoreEvents' = MoreEvents /\ NextEvent' = NextEvent
  BY DEF MoreEvents, NextEvent
<1>3. RunIsHere(E) => RunIsHere(E)'
  BY <1>1, <1>2 DEF RunIsHere
<1>4. Running(Course(E)) => Running(Course(E))'
  BY <1>1, <1>2 DEF Running, Amid, HalfDone
<1>5. Resting(Course(E)) => Resting(Course(E))'
  BY <1>1 DEF Resting
<1>6. QED
  BY <1>1, <1>3, <1>4, <1>5 DEF InWorld

\* The lines exposed so far are what the longer ledger begins with; the ledger of a world made
\* anew is another's.
LEMMA LedgerIsReplaced ==
  ASSUME SeedInv, ExposeMore \/ Regenerate
  PROVE  SeedInv'
<1>1. UNCHANGED <<shop, posted, world, replay, refused, torn, crashes>> /\ eventLog' \in Ledgers \cup Others
  BY DEF ExposeMore, Regenerate
<1>2. SeedShapes'
  BY <1>1 DEF SeedInv, SeedShapes, SeedTypeOK
<1>3. NothingYet => NothingYet'
  BY <1>1 DEF NothingYet
<1>4. ASSUME NEW l \in Ledgers \cup Others, Reading(l) PROVE Reading(l)'
  <2>1. PICK E : E = ReadLedger(l.lines)
    OBVIOUS
  <2>2. InWorld(E)'
    BY <1>1, <1>4, <2>1, WorldStays DEF Reading
  <2>3. ASSUME eventLog'.print = l.print PROVE Begins(l.lines, eventLog'.lines)
    <3>1. PICK j \in Ledgers \cup Others : j = eventLog
      BY DEF SeedInv, SeedShapes
    <3>2. PICK k \in Ledgers \cup Others : k = eventLog'
      BY <1>1
    <3>3. l.lines \in Seq(Line) /\ j.lines \in Seq(Line) /\ k.lines \in Seq(Line)
      BY SeedAssumption DEF SeedAssumption
    <3>4. CASE ExposeMore
      <4>1. k.print = j.print /\ IsPrefix(j.lines, k.lines)
        BY <3>1, <3>2, <3>4 DEF ExposeMore, IsStrictPrefix
      <4>2. Begins(j.lines, k.lines)
        BY <3>3, <4>1, PrefixBegins
      <4>3. Begins(l.lines, j.lines)
        BY <1>4, <2>3, <3>1, <3>2, <4>1 DEF Reading
      <4>4. QED
        BY <3>2, <3>3, <4>2, <4>3, BeginsGoesOn
    <3>5. CASE Regenerate
      <4>1. k \in Others
        BY <3>2, <3>5 DEF Regenerate
      <4>2. k.lines = l.lines
        BY <1>4, <2>3, <3>2, <4>1, SeedAssumption DEF SeedAssumption
      <4>3. QED
        BY <3>2, <3>3, <4>2 DEF Begins
    <3>6. QED
      BY <3>4, <3>5
  <2>4. QED
    BY <1>1, <1>4, <2>1, <2>2, <2>3 DEF Reading
<1>5. QED
  BY <1>2, <1>3, <1>4 DEF SeedInv

LEMMA SeedBegins ==
  ASSUME SeedInit
  PROVE  SeedInv
<1>1. SeedTypeOK
  <2>1. Empty.above \in [Machines -> Machines \cup {Nil}]
    BY DEF Empty
  <2>2. DOMAIN <<>> = {}
    OBVIOUS
  <2>3. 0 \in 0..MaxCrashes
    BY SeedAssumption DEF SeedAssumption
  <2>4. QED
    BY <2>1, <2>2, <2>3, NoReplayIs DEF SeedInit, SeedTypeOK, Empty, NoWorld
<1>2. IsShop(shop)
  <2>1. shop = [assets |-> shop.assets, above |-> shop.above, stock |-> shop.stock, wos |-> shop.wos]
    BY DEF SeedInit, Empty
  <2>2. QED
    BY <1>1, <2>1 DEF IsShop, SeedTypeOK
<1>3. SeedShapes
  BY <1>1, <1>2, NoReplayIs DEF SeedShapes, SeedInit, NoWorld
<1>4. NothingYet
  BY DEF SeedInit, NothingYet
<1>5. QED
  BY <1>3, <1>4 DEF SeedInv

\* Every step of the replay keeps the shop on the course of the straight run.
LEMMA SeedSteps ==
  ASSUME SeedInv, SeedNext
  PROVE  SeedInv'
<1>1. SeedShapes
  BY DEF SeedInv
<1>2. CASE \E until \in CutOffs : StartReplay(until)
  BY <1>2, ReplayIsStarted
<1>3. CASE ExposeMore \/ Regenerate
  BY <1>3, LedgerIsReplaced
<1>4. ASSUME replay.pc # "none",
             FlushLink \/ Pass \/ Apply \/ Refuse \/ CreateItem \/ StockItem \/ FinishReplay \/ ReplayCrashes
      PROVE  SeedInv'
  <2>1. PICK l \in Ledgers \cup Others : Reading(l)
    BY <1>4, NoReplayIs DEF SeedInv, NothingYet
  <2>2. PICK E : E = ReadLedger(l.lines)
    OBVIOUS
  <2>3. l.lines \in Seq(Line)
    BY SeedAssumption DEF SeedAssumption
  <2>4. Sorted(E) /\ InWorld(E)
    BY <2>1, <2>2, <2>3, LedgerIsSorted DEF Reading
  <2>5. eventLog' = eventLog /\ world'.print = world.print
    BY <1>1, <1>4 DEF SeedShapes, FlushLink, Pass, Apply, Refuse, CreateItem, StockItem, FinishReplay,
                      ReplayCrashes, Consume
  <2>6. SeedShapes' /\ InWorld(E)'
    <3>1. CASE FlushLink
      BY <1>1, <2>4, <3>1, LinkIsFlushed
    <3>2. CASE Pass
      BY <1>1, <2>4, <3>2, EventIsPassed
    <3>3. CASE Apply
      BY <1>1, <2>4, <3>3, EventIsApplied
    <3>4. CASE Refuse
      BY <1>1, <2>4, <3>4, EventIsRefused
    <3>5. CASE CreateItem
      BY <1>1, <2>4, <3>5, ItemIsCreated
    <3>6. CASE StockItem
      BY <1>1, <2>4, <3>6, ItemIsStocked
    <3>7. CASE FinishReplay
      BY <1>1, <2>4, <3>7, ReplayIsFinished
    <3>8. CASE ReplayCrashes
      BY <1>1, <2>4, <3>8, ReplayIsCut
    <3>9. QED
      BY <1>4, <3>1, <3>2, <3>3, <3>4, <3>5, <3>6, <3>7, <3>8
  <2>7. QED
    BY <2>1, <2>2, <2>5, <2>6, ReadingStays
<1>5. FlushLink \/ Pass \/ Apply \/ Refuse \/ CreateItem \/ StockItem \/ FinishReplay \/ ReplayCrashes
        => replay.pc # "none"
  BY DEF FlushLink, Pass, Apply, Refuse, CreateItem, StockItem, FinishReplay, ReplayCrashes, AtEvent, Over
<1>6. QED
  BY <1>2, <1>3, <1>4, <1>5 DEF SeedNext

LEMMA SeedStutters ==
  ASSUME SeedInv, UNCHANGED seedVars
  PROVE  SeedInv'
<1>1. UNCHANGED <<eventLog, shop, posted, world, replay, refused, torn, crashes>>
  BY DEF seedVars
<1>2. SeedShapes' /\ (NothingYet => NothingYet')
  BY <1>1 DEF SeedInv, SeedShapes, SeedTypeOK, NothingYet
<1>3. \A l \in Ledgers \cup Others : Reading(l) => Reading(l)'
  BY <1>1, WorldStays DEF Reading
<1>4. QED
  BY <1>2, <1>3 DEF SeedInv

\* At the end of a run all the links are flushed, and the events consumed are those that are due.
LEMMA RunEndsSound ==
  ASSUME SeedInv
  PROVE  ReplayIsSound
<1>1. SeedShapes
  BY DEF SeedInv
<1>2. SUFFICES ASSUME Over, torn = {}
      PROVE  /\ LET straight == Flushed(Straight(replay.all)[Consumed(replay.all, world.last)]) IN
                replay.after = 0 \/ straight.refused = {} =>
                  shop = straight.shop /\ refused = straight.refused
             /\ replay.after = 0 /\ refused = {} =>
                  Simulate(replay.all, replay.until) = replay.applied
  BY <1>1 DEF ReplayIsSound, ResumeIsSeamless, DryRunForetells, SeedShapes
<1>3. replay.pc = "run" /\ ~MoreEvents /\ replay.checker.links = <<>>
  BY <1>2 DEF Over
<1>4. PICK E : Sorted(E) /\ InWorld(E)
  <2>1. PICK l \in Ledgers \cup Others : Reading(l)
    BY <1>3, NoReplayIs DEF SeedInv, NothingYet
  <2>2. l.lines \in Seq(Line)
    BY SeedAssumption DEF SeedAssumption
  <2>3. QED
    BY <2>1, <2>2, LedgerIsSorted DEF Reading
<1>5. PICK i : i = Position(E)
  OBVIOUS
<1>6. PICK r : r = Course(E)
  OBVIOUS
<1>7. /\ Sorted(E) /\ Len(E) \in Nat /\ i \in 0..Len(E) /\ IsRun(r)
      /\ \A n \in 1..Len(E) : n <= i <=> E[n].seq <= world.last
  BY <1>1, <1>4, <1>5, <1>6, CourseIs
<1>8. /\ replay.all = E /\ replay.next = i + 1 /\ replay.until \in CutOffs
      /\ replay.end = Due(E, replay.until)
      /\ replay.after = 0 => replay.next <= replay.end + 1
  BY <1>3, <1>4, <1>5 DEF InWorld, RunIsHere
<1>9. Consumed(E, world.last) = i /\ r = Straight(E)[i]
  BY <1>4, <1>5, <1>6 DEF Position, Course
<1>10. Running(r)
  BY <1>2, <1>3, <1>4, <1>6 DEF InWorld
<1>11. PICK q : q = Flushed(r)
  OBVIOUS
<1>12. q.shop = AllLinked(r.shop, r.p) /\ q.refused = r.refused /\ IsRun(q)
  BY <1>7, <1>11, FlushedIs
<1>13. ASSUME replay.after = 0 \/ q.refused = {}
       PROVE  shop = q.shop /\ refused = q.refused
  <2>1. refused = r.refused /\ \E n \in 0..Len(r.p.links) : Amid(r, n)
    BY <1>3, <1>10, <1>12, <1>13 DEF Running
  <2>2. PICK n \in 0..Len(r.p.links) : Amid(r, n)
    BY <2>1
  <2>3. Waiting(r.shop, r.p) /\ IsChecker(r.p)
    BY <1>7 DEF IsRun, Waiting
  <2>4. PICK l \in Seq(Machines \X Machines) : l = r.p.links
    BY <2>3 DEF IsChecker
  <2>5. /\ n \in 0..Len(l) /\ Len(l) \in Nat
        /\ replay.checker = [r.p EXCEPT !.links = SubSeq(l, n + 1, Len(l))]
        /\ Between(shop, Linking(r.shop, r.p)[n], AllLinked(r.shop, r.p))
    BY <2>2, <2>4 DEF Amid
  <2>6. SubSeq(l, n + 1, Len(l)) = <<>>
    BY <1>3, <2>3, <2>5 DEF IsChecker
  <2>7. n = Len(l)
    BY <2>4, <2>5, <2>6, RestIsEmpty
  <2>8. Between(shop, q.shop, q.shop)
    BY <1>12, <2>4, <2>5, <2>7 DEF AllLinked
  <2>9. IsShop(q.shop)
    BY <1>12 DEF IsRun, Waiting
  <2>10. shop = q.shop
    BY <2>8, <2>9, BetweenTwins
  <2>11. QED
    BY <1>12, <2>1, <2>10
<1>14. ASSUME replay.after = 0, refused = {}
       PROVE  Simulate(E, replay.until) = replay.applied
  <2>1. refused = r.refused /\ replay.applied = r.applied
    BY <1>10, <1>14 DEF Running
  <2>2. replay.until \in Nat
    BY <1>8, SeedAssumption DEF SeedAssumption
  <2>3. PICK d : d = Due(E, replay.until)
    OBVIOUS
  <2>4. d \in 0..Len(E)
    BY <1>7, <2>2, <2>3, DueIs
  <2>5. d = i
    <3>1. ~(i + 1 <= d) /\ i + 1 <= d + 1
      BY <1>3, <1>8, <1>14, <2>3 DEF MoreEvents
    <3>2. QED
      BY <1>7, <2>4, <3>1
  <2>6. Foreseen(E)[i].applied = r.applied
    BY <1>7, <1>9, <1>14, <2>1, ForeseenComesTrue
  <2>7. QED
    BY <2>1, <2>3, <2>5, <2>6 DEF Simulate
<1>15. QED
  BY <1>8, <1>9, <1>11, <1>13, <1>14

\* Wherever runs are cut off or die, and whatever a service refuses, a replay ends where one run
\* would have; and the first run applies what a dry run foretold.
THEOREM ReplayHolds == SeedSpec => []ReplayIsSound
<1>1. SeedInit => SeedInv
  BY SeedBegins
<1>2. SeedInv /\ [SeedNext]_seedVars => SeedInv'
  BY SeedSteps, SeedStutters
<1>3. SeedInv => ReplayIsSound
  BY RunEndsSound
<1>4. QED
  BY <1>1, <1>2, <1>3, PTL DEF SeedSpec

-----------------------------------------------------------------------------
(***************************************************************************)
(* The loaders: first what an upsert leaves of the rows of a file.         *)
(***************************************************************************)
LEMMA LatestOf ==
  ASSUME NEW N \in Nat, NEW P \in SUBSET (1..N), P # {}
  PROVE  Latest(P) \in P /\ \A j \in P : j <= Latest(P)
<1>0. \A i \in P : i \in 1..N /\ N - i \in Nat
  OBVIOUS
<1>1. PICK B : B = {N - i : i \in P}
  OBVIOUS
<1>2. B \in SUBSET Nat /\ B # {}
  BY <1>0, <1>1
<1>3. PICK x \in B : \A y \in B : x <= y
  BY <1>2, LeastOf
<1>4. PICK i \in P : x = N - i
  BY <1>1, <1>3
<1>5. \A j \in P : j <= i
  BY <1>0, <1>1, <1>3, <1>4
<1>6. QED
  BY <1>5 DEF Latest

\* The rows of a file, or some of them, at their places.
IsPlaced(rows) == \E N \in Nat : DOMAIN rows \subseteq 1..N

UpsertFits(u, t, keys, values) ==
  /\ DOMAIN u = DOMAIN t \cup Range(keys)
  /\ \A k \in DOMAIN t \ Range(keys) : u[k] = t[k]
  /\ \A k \in Range(keys) : \E i \in DOMAIN keys :
       /\ keys[i] = k /\ u[k] = values[i]
       /\ \A j \in DOMAIN keys : keys[j] = k => j <= i

LEMMA UpsertedIs ==
  ASSUME NEW t, NEW keys, NEW values, IsPlaced(keys)
  PROVE  UpsertFits(Upserted(t, keys, values), t, keys, values)
<1>0. PICK N \in Nat : DOMAIN keys \subseteq 1..N
  BY DEF IsPlaced
<1>1. PICK U : U = Upserted(t, keys, values)
  OBVIOUS
<1>2. DOMAIN U = DOMAIN t \cup Range(keys)
  BY <1>1 DEF Upserted, Onto
<1>3. \A k \in DOMAIN t \ Range(keys) : U[k] = t[k]
  BY <1>1 DEF Upserted, Onto
<1>4. ASSUME NEW k \in Range(keys)
      PROVE  \E i \in DOMAIN keys : /\ keys[i] = k /\ U[k] = values[i]
                                    /\ \A j \in DOMAIN keys : keys[j] = k => j <= i
  <2>1. PICK P : P = {i \in DOMAIN keys : keys[i] = k}
    OBVIOUS
  <2>2. P \in SUBSET (1..N) /\ P # {}
    BY <1>0, <2>1 DEF Range
  <2>3. Latest(P) \in P /\ \A j \in P : j <= Latest(P)
    BY <2>2, LatestOf
  <2>4. U[k] = values[Latest(P)]
    BY <1>1, <2>1 DEF Upserted, Onto
  <2>5. QED
    BY <2>1, <2>3, <2>4
<1>5. QED
  BY <1>1, <1>2, <1>3, <1>4 DEF UpsertFits

LEMMA UpsertedTwice ==
  ASSUME NEW t, NEW keys, NEW values
  PROVE  Upserted(Upserted(t, keys, values), keys, values) = Upserted(t, keys, values)
BY DEF Upserted, Onto

-----------------------------------------------------------------------------
(***************************************************************************)
(* The tree of containers.                                                 *)
(***************************************************************************)
UpClosed(edges, s) == \A b \in s : ContainersIn(edges, b) \subseteq s

LEMMA ClimbSteps ==
  ASSUME NEW E, NEW a, Cardinality(E) \in Nat
  PROVE  \E up : /\ up[0] = {a} /\ \A n \in 1..Cardinality(E) : up[n] = Climb(E, up[n - 1])
                 /\ ChainIn(E, a) = up[Cardinality(E)]
<1> DEFINE Is(f) == f = [n \in 0..Cardinality(E) |-> IF n = 0 THEN {a} ELSE f[n-1] \cup UNION {ContainersIn(E, b) : b \in f[n-1]}]
<1>1. ChainIn(E, a) = (CHOOSE f : Is(f))[Cardinality(E)]
  BY DEF ChainIn
<1>2. \A f : Is(f) <=> IsCourse(f, Cardinality(E), "climb", E, {a}, 0)
  BY DEF IsCourse, Step, Climb
<1> HIDE DEF Is
<1>3. \E f : Is(f)
  BY <1>2, CourseExists
<1>4. PICK up : up = CHOOSE f : Is(f)
  OBVIOUS
<1>5. IsCourse(up, Cardinality(E), "climb", E, {a}, 0)
  BY <1>2, <1>3, <1>4
<1>6. up[0] = {a} /\ \A n \in 1..Cardinality(E) : up[n] = Climb(E, up[n - 1])
  BY <1>5, CourseSteps DEF Step
<1>7. QED
  BY <1>1, <1>4, <1>6

\* The chain is what has to be there: it climbs as far as there are containers, for there are
\* no more of them than edges.
LEMMA ChainIs ==
  ASSUME NEW E, IsFiniteSet(E), NEW a
  PROVE  /\ a \in ChainIn(E, a) /\ UpClosed(E, ChainIn(E, a))
         /\ \A s : a \in s /\ UpClosed(E, s) => ChainIn(E, a) \subseteq s
<1>1. PICK N \in Nat : N = Cardinality(E)
  BY FS_CardinalityType
<1>2. PICK up : /\ up[0] = {a} /\ \A n \in 1..N : up[n] = Climb(E, up[n - 1])
                /\ ChainIn(E, a) = up[N]
  BY <1>1, ClimbSteps
<1>3. PICK M : M = {e.from : e \in E} \cup {a}
  OBVIOUS
<1>4. IsFiniteSet(M) /\ Cardinality(M) \in Nat /\ Cardinality(M) <= N + 1
  <2>1. PICK D : D = {e.from : e \in E}
    OBVIOUS
  <2>2. PICK img : img = [e \in E |-> e.from]
    OBVIOUS
  <2>3. img \in Surjection(E, D)
    BY <2>1, <2>2 DEF Surjection
  <2>4. IsFiniteSet(D) /\ Cardinality(D) <= N
    BY <1>1, <2>3, FS_Surjection
  <2>5. IsFiniteSet(D \cup {a}) /\ Cardinality(D \cup {a}) <= Cardinality(D) + 1
    <3>1. IsFiniteSet(D \cup {a}) /\ Cardinality(D) \in Nat
      BY <2>4, FS_AddElement, FS_CardinalityType
    <3>2. CASE a \in D
      <4>1. D \cup {a} = D
        BY <3>2
      <4>2. QED
        BY <3>1, <4>1
    <3>3. CASE a \notin D
      BY <2>4, <3>1, <3>3, FS_AddElement
    <3>4. QED
      BY <3>2, <3>3
  <2>6. Cardinality(D) \in Nat /\ Cardinality(D \cup {a}) \in Nat
    BY <2>4, <2>5, FS_CardinalityType
  <2>7. QED
    BY <1>1, <1>3, <2>1, <2>4, <2>5, <2>6
<1>5. ASSUME NEW s \in SUBSET M PROVE Climb(E, s) \in SUBSET M /\ s \subseteq Climb(E, s)
  BY <1>3, <1>5 DEF Climb, ContainersIn, Contained
<1> DEFINE Risen(n) == /\ up[n] \in SUBSET M /\ a \in up[n]
                       /\ \A s : a \in s /\ UpClosed(E, s) => up[n] \subseteq s
                       /\ Cardinality(up[n]) >= n + 1 \/ Climb(E, up[n]) = up[n]
           G == {n \in 0..N : Risen(n)}
<1>6. Risen(0)
  <2>1. Cardinality({a}) = 1
    BY FS_Singleton
  <2>2. QED
    BY <1>2, <1>3, <2>1
<1>7. ASSUME NEW n \in 1..N, Risen(n - 1) PROVE Risen(n)
  <2>1. PICK s \in SUBSET M : s = up[n - 1] /\ a \in s
    BY <1>7
  <2>2. up[n] = Climb(E, s)
    BY <1>2, <2>1
  <2>3. up[n] \in SUBSET M /\ s \subseteq up[n] /\ a \in up[n]
    BY <1>5, <2>1, <2>2
  <2>4. ASSUME NEW c, a \in c, UpClosed(E, c) PROVE up[n] \subseteq c
    <3>1. s \subseteq c
      BY <1>7, <2>1, <2>4
    <3>2. QED
      BY <2>2, <2>4, <3>1 DEF UpClosed, Climb
  <2>5. CASE up[n] = s
    BY <2>2, <2>3, <2>4, <2>5
  <2>6. CASE up[n] # s
    <3>1. Cardinality(s) >= n
      BY <1>7, <2>1, <2>2, <2>6
    <3>2. IsFiniteSet(up[n]) /\ IsFiniteSet(s)
      BY <1>4, <2>3, FS_Subset
    <3>3. s \in SUBSET up[n]
      BY <2>3
    <3>4. Cardinality(s) <= Cardinality(up[n]) /\ Cardinality(s) # Cardinality(up[n])
      BY <2>6, <3>2, <3>3, FS_Subset
    <3>5. Cardinality(s) \in Nat /\ Cardinality(up[n]) \in Nat
      BY <3>2, FS_CardinalityType
    <3>6. Cardinality(up[n]) >= n + 1
      BY <3>1, <3>4, <3>5
    <3>7. QED
      BY <2>3, <2>4, <3>6
  <2>7. QED
    BY <2>5, <2>6
<1> HIDE DEF Risen
<1>8. 0 \in G /\ \A n \in 1..N : n - 1 \in G => n \in G
  BY <1>6, <1>7
<1>9. G \in SUBSET (0..N)
  OBVIOUS
<1> HIDE DEF G
<1>10. G = 0..N
  BY <1>8, <1>9, BoundedInduction
<1>11. Risen(N)
  BY <1>10 DEF G
<1>12. PICK s \in SUBSET M : s = up[N]
  BY <1>11 DEF Risen
<1>13. Climb(E, s) = s
  <2>1. CASE Climb(E, up[N]) = up[N]
    BY <1>12, <2>1
  <2>2. CASE Cardinality(up[N]) >= N + 1
    <3>1. IsFiniteSet(s) /\ Cardinality(s) <= Cardinality(M) /\ Cardinality(s) \in Nat
      BY <1>4, <1>12, FS_Subset, FS_CardinalityType
    <3>2. Cardinality(s) = Cardinality(M)
      BY <1>4, <1>12, <2>2, <3>1
    <3>3. s = M
      BY <1>4, <1>12, <3>2, FS_Subset
    <3>4. QED
      BY <1>5, <1>12, <3>3
  <2>3. QED
    BY <1>11, <2>1, <2>2 DEF Risen
<1>14. UpClosed(E, s)
  BY <1>13 DEF UpClosed, Climb
<1>15. QED
  BY <1>2, <1>11, <1>12, <1>14 DEF Risen

IsTree(edges) ==
  \A e \in Contained(edges) :
    ContainersIn(edges, e.to) = {e.from} /\ e.to \notin ChainIn(edges, e.from)

LEMMA ContainersAre ==
  \A E, b, c : c \in ContainersIn(E, b) <=> \E e \in E : e.type = "contains_module" /\ e.to = b /\ e.from = c
BY DEF ContainersIn, Contained

\* More edges, more above.
LEMMA ChainsGrow ==
  ASSUME NEW D, NEW E, D \subseteq E, IsFiniteSet(E), NEW a
  PROVE  /\ ChainIn(D, a) \subseteq ChainIn(E, a)
         /\ \A b : ContainersIn(D, b) \subseteq ContainersIn(E, b)
<1>1. \A b : ContainersIn(D, b) \subseteq ContainersIn(E, b)
  BY ContainersAre
<1>2. IsFiniteSet(D)
  BY FS_Subset
<1>3. a \in ChainIn(E, a) /\ UpClosed(D, ChainIn(E, a))
  BY <1>1, ChainIs DEF UpClosed
<1>4. QED
  BY <1>1, <1>2, <1>3, ChainIs

LEMMA PrunedIsTree ==
  ASSUME NEW D, NEW E, D \subseteq E, IsFiniteSet(E), IsTree(E)
  PROVE  IsTree(D)
<1> SUFFICES ASSUME NEW e \in Contained(D)
             PROVE  ContainersIn(D, e.to) = {e.from} /\ e.to \notin ChainIn(D, e.from)
  BY DEF IsTree
<1>1. e \in Contained(E) /\ e.from \in ContainersIn(D, e.to)
  BY DEF Contained, ContainersIn
<1>2. ContainersIn(E, e.to) = {e.from} /\ e.to \notin ChainIn(E, e.from)
  BY <1>1 DEF IsTree
<1>3. QED
  BY <1>1, <1>2, ChainsGrow

\* An edge that the guard of link_containment lets pass keeps the tree one.
LEMMA BoundIsTree ==
  ASSUME NEW E, IsFiniteSet(E), IsTree(E), NEW e, e \notin E, ~Guarded(E, e),
         e.type = "contains_module" => \A o \in E : o.type = "contains_module" /\ o.to = e.to /\ o.from = e.from => o = e
  PROVE  IsTree(E \cup {e})
<1>1. PICK F : F = E \cup {e}
  OBVIOUS
<1>2. IsFiniteSet(F)
  BY <1>1, FS_AddElement
<1>3. \A b, c : c \in ContainersIn(F, b) <=>
         c \in ContainersIn(E, b) \/ (e.type = "contains_module" /\ e.to = b /\ e.from = c)
  <2>1. ASSUME NEW b, NEW c
        PROVE  c \in ContainersIn(F, b) <=> c \in ContainersIn(E, b) \/ (e.type = "contains_module" /\ e.to = b /\ e.from = c)
    BY <1>1 DEF ContainersIn, Contained
  <2>2. QED
    BY <2>1
<1>4. CASE e.type # "contains_module"
  <2>1. ASSUME NEW b PROVE ContainersIn(F, b) = ContainersIn(E, b)
    <3>1. PICK c, d : c = ContainersIn(F, b) /\ d = ContainersIn(E, b)
      OBVIOUS
    <3>2. \A x : x \in c <=> x \in d
      BY <1>3, <1>4, <3>1
    <3>3. QED
      BY <3>1, <3>2
  <2>2. Contained(F) = Contained(E)
    BY <1>1, <1>4 DEF Contained
  <2>3. \A s : UpClosed(F, s) <=> UpClosed(E, s)
    BY <2>1 DEF UpClosed
  <2>4. \A a : ChainIn(F, a) = ChainIn(E, a)
    BY <1>2, <2>3, ChainIs
  <2>5. QED
    BY <1>1, <2>1, <2>2, <2>4 DEF IsTree
<1>5. CASE e.type = "contains_module"
  <2>1. ContainersIn(E, e.to) \subseteq {e.from} /\ e.to \notin ChainIn(E, e.from)
    BY <1>5 DEF Guarded
  <2>2. ContainersIn(E, e.to) = {}
    BY <1>5, <2>1, ContainersAre
  <2>3. PICK above : above = ChainIn(E, e.from)
    OBVIOUS
  <2>4. e.from \in above /\ UpClosed(E, above) /\ e.to \notin above
    BY <2>1, <2>3, ChainIs
  <2>5. ASSUME NEW s, UpClosed(E, s), above \subseteq s \/ e.to \notin s PROVE UpClosed(F, s)
    BY <1>3, <2>4, <2>5 DEF UpClosed
  <2>6. ASSUME NEW o \in Contained(F)
        PROVE  ContainersIn(F, o.to) = {o.from} /\ o.to \notin ChainIn(F, o.from)
    <3>1. CASE o = e
      <4>1. ContainersIn(F, o.to) = {o.from}
        BY <1>3, <1>5, <2>2, <3>1
      <4>2. ChainIn(F, e.from) \subseteq above
        BY <1>2, <2>4, <2>5, ChainIs
      <4>3. QED
        BY <2>4, <3>1, <4>1, <4>2
    <3>2. CASE o # e
      <4>1. o \in Contained(E)
        BY <1>1, <2>6, <3>2 DEF Contained
      <4>2. ContainersIn(E, o.to) = {o.from} /\ o.to \notin ChainIn(E, o.from)
        BY <4>1 DEF IsTree
      <4>3. o.to # e.to
        BY <2>2, <4>2
      <4>4. ContainersIn(F, o.to) = {o.from}
        <5>1. PICK c : c = ContainersIn(F, o.to)
          OBVIOUS
        <5>2. \A x : x \in c <=> x = o.from
          BY <1>3, <4>2, <4>3, <5>1
        <5>3. QED
          BY <5>1, <5>2
      <4>5. PICK s : s = ChainIn(E, o.from)
        OBVIOUS
      <4>6. o.from \in s /\ UpClosed(E, s) /\ o.to \notin s
        BY <4>2, <4>5, ChainIs
      <4>7. CASE e.to \notin s
        <5>1. ChainIn(F, o.from) \subseteq s
          BY <1>2, <2>5, <4>6, <4>7, ChainIs
        <5>2. QED
          BY <4>4, <4>6, <5>1
      <4>8. CASE e.to \in s
        <5>1. o.to \notin above
          <6>1. SUFFICES ASSUME o.to \in above PROVE FALSE
            OBVIOUS
          <6>2. o.from \in above
            BY <2>4, <4>2, <6>1 DEF UpClosed
          <6>3. s \subseteq above
            BY <2>4, <4>5, <6>2, ChainIs
          <6>4. QED
            BY <2>4, <4>8, <6>3
        <5>2. UpClosed(E, s \cup above)
          BY <2>4, <4>6 DEF UpClosed
        <5>3. UpClosed(F, s \cup above)
          BY <2>5, <5>2
        <5>4. ChainIn(F, o.from) \subseteq s \cup above
          BY <1>2, <4>6, <5>3, ChainIs
        <5>5. QED
          BY <4>4, <4>6, <5>1, <5>4
      <4>9. QED
        BY <4>7, <4>8
    <3>3. QED
      BY <3>1, <3>2
  <2>7. QED
    BY <1>1, <2>6 DEF IsTree
<1>6. QED
  BY <1>4, <1>5

IsEdge(e) == e = [type |-> e.type, from |-> e.from, to |-> e.to]

EdgesFit(d, edges) ==
  /\ IsFiniteSet(edges) /\ IsTree(edges)
  /\ \A e \in edges : IsEdge(e) /\ ~UnknownEnd(d, e)

Accounted(d, edges, e) == e \in edges \/ Curated(e) \/ UnknownEnd(d, e) \/ Guarded(edges, e)

LEMMA BindSteps ==
  ASSUME NEW d, NEW rows, Len(rows) \in Nat
  PROVE  \E after : /\ after[0] = d.edges
                    /\ \A n \in 1..Len(rows) : after[n] = BindAt(d, Classified(rows), after[n - 1], n)
                    /\ LoadRelations(d, rows) = [d EXCEPT !.edges = after[Len(rows)]]
<1>1. PICK c : c = Classified(rows)
  OBVIOUS
<1> DEFINE p == <<d, c>>
           x == [n \in 1..Len(rows) |-> n]
           Is(f) == f = [n \in 0..Len(rows) |-> IF n = 0 THEN d.edges
                                     ELSE IF n \notin DOMAIN c THEN f[n-1] ELSE Bound(d, f[n-1], c[n])]
<1>2. LoadRelations(d, rows) = [d EXCEPT !.edges = (CHOOSE f : Is(f))[Len(rows)]]
  BY <1>1 DEF LoadRelations
<1>3. p[1] = d /\ p[2] = c /\ \A n \in 1..Len(rows) : x[n] = n
  OBVIOUS
<1> HIDE DEF p, x
<1>4. ASSUME NEW f
      PROVE  Is(f) <=> IsCourse(f, Len(rows), "bind", p, d.edges, x)
  <2>1. ASSUME NEW n \in 0..Len(rows), n # 0
        PROVE  Step("bind", p, f[n - 1], x[n]) = IF n \notin DOMAIN c THEN f[n-1] ELSE Bound(d, f[n-1], c[n])
    BY <1>3, <2>1 DEF Step, BindAt
  <2>2. QED
    BY <2>1 DEF IsCourse
<1> HIDE DEF Is
<1>5. \E f : Is(f)
  BY <1>4, CourseExists
<1>6. PICK after : after = CHOOSE f : Is(f)
  OBVIOUS
<1>7. IsCourse(after, Len(rows), "bind", p, d.edges, x)
  BY <1>4, <1>5, <1>6
<1>8. after[0] = d.edges /\ \A n \in 1..Len(rows) : after[n] = Step("bind", p, after[n - 1], x[n])
  BY <1>7, CourseSteps
<1>9. \A n \in 1..Len(rows) : after[n] = BindAt(d, c, after[n - 1], n)
  BY <1>3, <1>8 DEF Step
<1>10. QED
  BY <1>1, <1>2, <1>6, <1>8, <1>9

LEMMA GuardsGrow ==
  ASSUME NEW D, NEW E, D \subseteq E, IsFiniteSet(E), NEW e, Guarded(D, e)
  PROVE  Guarded(E, e)
BY ChainsGrow DEF Guarded

LEMMA RelationsAreEdges ==
  ASSUME NEW rows, NEW i \in DOMAIN Classified(rows)
  PROVE  IsEdge(Classified(rows)[i]) /\ i \in DOMAIN rows
<1>1. \E c, f, t : Classified(rows)[i] \in {[type |-> "shared_dependency", from |-> f, to |-> t],
                                            [type |-> "contains_module", from |-> f, to |-> t]}
  BY DEF Classified, Restrict
<1>2. i \in DOMAIN rows
  BY DEF Classified, Restrict
<1>3. QED
  BY <1>1, <1>2 DEF IsEdge

LEMMA BindKeeps ==
  ASSUME NEW d, NEW edges, EdgesFit(d, edges), NEW rows, NEW n
  PROVE  LET to == BindAt(d, Classified(rows), edges, n) IN
         /\ edges \subseteq to /\ EdgesFit(d, to)
         /\ n \in DOMAIN Classified(rows) => Accounted(d, to, Classified(rows)[n])
<1>1. PICK to : to = BindAt(d, Classified(rows), edges, n)
  OBVIOUS
<1>2. CASE n \notin DOMAIN Classified(rows)
  BY <1>1, <1>2 DEF BindAt
<1>3. CASE n \in DOMAIN Classified(rows)
  <2>1. PICK e : e = Classified(rows)[n]
    OBVIOUS
  <2>2. to = Bound(d, edges, e) /\ IsEdge(e)
    BY <1>1, <1>3, <2>1, RelationsAreEdges DEF BindAt
  <2>3. CASE Accounted(d, edges, e)
    BY <1>1, <2>1, <2>2, <2>3 DEF Bound, Accounted
  <2>4. CASE ~Accounted(d, edges, e)
    <3>1. to = edges \cup {e} /\ e \notin edges /\ ~Guarded(edges, e) /\ ~UnknownEnd(d, e)
      BY <2>2, <2>4 DEF Bound, Accounted
    <3>2. IsTree(edges \cup {e})
      <4>1. \A o \in edges : o.type = e.type /\ o.to = e.to /\ o.from = e.from => o = e
        BY <2>2 DEF IsEdge, EdgesFit
      <4>2. QED
        BY <3>1, <4>1, BoundIsTree DEF EdgesFit
    <3>3. IsFiniteSet(to)
      BY <3>1, FS_AddElement DEF EdgesFit
    <3>4. QED
      BY <1>1, <2>1, <2>2, <3>1, <3>2, <3>3 DEF EdgesFit, Accounted
  <2>5. QED
    BY <2>3, <2>4
<1>4. QED
  BY <1>2, <1>3

\* What load_relationships makes of a tree: a tree that has whatever was there, and that
\* accounts for every relation of the file.
LEMMA RelationsLoad ==
  ASSUME NEW d, DOMAIN d = DOMAIN Tables, EdgesFit(d, d.edges), NEW rows, Len(rows) \in Nat, DOMAIN rows = 1..Len(rows)
  PROVE  \E edges : /\ LoadRelations(d, rows) = [d EXCEPT !.edges = edges]
                    /\ d.edges \subseteq edges /\ EdgesFit(d, edges)
                    /\ \A i \in DOMAIN Classified(rows) : Accounted(d, edges, Classified(rows)[i])
<1>1. PICK after : /\ after[0] = d.edges
                   /\ \A n \in 1..Len(rows) : after[n] = BindAt(d, Classified(rows), after[n - 1], n)
                   /\ LoadRelations(d, rows) = [d EXCEPT !.edges = after[Len(rows)]]
  BY BindSteps
<1> DEFINE Fit(n) == /\ d.edges \subseteq after[n] /\ EdgesFit(d, after[n])
                     /\ \A i \in DOMAIN Classified(rows) : i <= n => Accounted(d, after[n], Classified(rows)[i])
           G == {n \in 0..Len(rows) : Fit(n)}
<1>2. Fit(0)
  <2>1. \A i \in DOMAIN Classified(rows) : i \in 1..Len(rows)
    BY RelationsAreEdges
  <2>2. QED
    BY <1>1, <2>1
<1>3. ASSUME NEW n \in 1..Len(rows), Fit(n - 1) PROVE Fit(n)
  <2>1. PICK from, to : from = after[n - 1] /\ to = after[n]
    OBVIOUS
  <2>2. to = BindAt(d, Classified(rows), from, n) /\ EdgesFit(d, from)
    BY <1>1, <1>3, <2>1
  <2>3. /\ from \subseteq to /\ EdgesFit(d, to)
        /\ n \in DOMAIN Classified(rows) => Accounted(d, to, Classified(rows)[n])
    BY <2>2, BindKeeps
  <2>4. ASSUME NEW i \in DOMAIN Classified(rows), i <= n PROVE Accounted(d, to, Classified(rows)[i])
    <3>1. CASE i = n
      BY <2>3, <3>1
    <3>2. CASE i # n
      <4>1. i \in 1..Len(rows)
        BY RelationsAreEdges
      <4>2. i <= n - 1
        BY <2>4, <3>2, <4>1
      <4>3. Accounted(d, from, Classified(rows)[i])
        BY <1>3, <2>1, <4>2
      <4>4. IsFiniteSet(to)
        BY <2>3 DEF EdgesFit
      <4>5. QED
        BY <2>3, <4>3, <4>4, GuardsGrow DEF Accounted
    <3>3. QED
      BY <3>1, <3>2
  <2>5. d.edges \subseteq to
    BY <1>3, <2>1, <2>3
  <2>6. QED
    BY <2>1, <2>3, <2>4, <2>5
<1> HIDE DEF Fit
<1>4. 0 \in G /\ \A n \in 1..Len(rows) : n - 1 \in G => n \in G
  BY <1>2, <1>3
<1>5. G \in SUBSET (0..Len(rows))
  OBVIOUS
<1> HIDE DEF G
<1>6. G = 0..Len(rows)
  BY <1>4, <1>5, BoundedInduction
<1>7. Fit(Len(rows))
  BY <1>6 DEF G
<1>8. \A i \in DOMAIN Classified(rows) : i <= Len(rows)
  BY RelationsAreEdges
<1>9. QED
  BY <1>1, <1>7, <1>8 DEF Fit

\* Where every relation is accounted for there is nothing to bind.
LEMMA NothingToBind ==
  ASSUME NEW d, NEW rows, Len(rows) \in Nat,
         \A i \in DOMAIN Classified(rows) : Accounted(d, d.edges, Classified(rows)[i])
  PROVE  LoadRelations(d, rows) = [d EXCEPT !.edges = d.edges]
<1>1. PICK after : /\ after[0] = d.edges
                   /\ \A n \in 1..Len(rows) : after[n] = BindAt(d, Classified(rows), after[n - 1], n)
                   /\ LoadRelations(d, rows) = [d EXCEPT !.edges = after[Len(rows)]]
  BY BindSteps
<1> DEFINE G == {n \in 0..Len(rows) : after[n] = d.edges}
<1>2. 0 \in G
  BY <1>1
<1>3. ASSUME NEW n \in 1..Len(rows), n - 1 \in G PROVE n \in G
  <2>1. after[n] = BindAt(d, Classified(rows), d.edges, n)
    BY <1>1, <1>3
  <2>2. BindAt(d, Classified(rows), d.edges, n) = d.edges
    <3>1. CASE n \notin DOMAIN Classified(rows)
      BY <3>1 DEF BindAt
    <3>2. CASE n \in DOMAIN Classified(rows)
      BY <3>2 DEF BindAt, Bound, Accounted
    <3>3. QED
      BY <3>1, <3>2
  <2>3. QED
    BY <2>1, <2>2
<1>4. G \in SUBSET (0..Len(rows))
  OBVIOUS
<1> HIDE DEF G
<1>5. G = 0..Len(rows)
  BY <1>2, <1>3, <1>4, BoundedInduction
<1>6. after[Len(rows)] = d.edges
  BY <1>5 DEF G
<1>7. QED
  BY <1>1, <1>6

-----------------------------------------------------------------------------
(***************************************************************************)
(* The parts issued in the past.                                           *)
(***************************************************************************)
BookedOf(issues, w, i) == {k \in DOMAIN issues : k[1] = w /\ k[2] = i}
BookedOn(issues, p) == {k \in BookedOf(issues, p[1], p[2]) : issues[k].to = p[1]}

\* The parts are what is booked on them.
PartsAreBooked(issues, parts) ==
  /\ IsFiniteSet(DOMAIN issues)
  /\ \A k \in DOMAIN issues :
       issues[k].quantity \in Int /\ (issues[k].to = k[1] => <<k[1], k[2]>> \in DOMAIN parts)
  /\ \A p \in DOMAIN parts :
       p = <<p[1], p[2]>> /\ parts[p] = SetSum(Column(issues, "quantity"), BookedOn(issues, p))

\* Every row booked is one of a file, the n-th of its order and item.
IssueFiles == {f \in batch : f.kind = "issues"}
RowsAreOfFiles(issues) ==
  \A k \in DOMAIN issues : \E f \in IssueFiles : \E j \in DOMAIN GoodRows(f.rows) :
    k = OccurrenceKey(GoodRows(f.rows), j)

\* One more row, for w, of item i: what is booked on the pair grows by its quantity.
IsOneMore(issues, parts, w, i, m, key, pair, to, q, had, more, sums) ==
  /\ key = <<w, i, m>> /\ key \notin DOMAIN issues /\ pair = <<w, i>> /\ q \in Int
  /\ had = IF pair \in DOMAIN parts THEN parts[pair] ELSE 0
  /\ more = Onto([k \in {key} |-> [to |-> to, quantity |-> q]], issues)
  /\ sums = IF to = w THEN Onto([p \in {pair} |-> had + q], parts) ELSE parts

LEMMA OneMoreIsBooked ==
  ASSUME NEW issues, NEW parts, NEW w, NEW i, NEW m, NEW key, NEW pair, NEW to, NEW q, NEW had,
         NEW more, NEW sums, PartsAreBooked(issues, parts),
         IsOneMore(issues, parts, w, i, m, key, pair, to, q, had, more, sums)
  PROVE  PartsAreBooked(more, sums)
<1>4. /\ key = <<w, i, m>> /\ key \notin DOMAIN issues /\ pair = <<w, i>> /\ q \in Int
      /\ had = IF pair \in DOMAIN parts THEN parts[pair] ELSE 0
      /\ more = Onto([k \in {key} |-> [to |-> to, quantity |-> q]], issues)
      /\ sums = IF to = w THEN Onto([p \in {pair} |-> had + q], parts) ELSE parts
  BY DEF IsOneMore
<1>5. /\ DOMAIN more = DOMAIN issues \cup {key} /\ more[key].to = to /\ more[key].quantity = q
      /\ \A k \in DOMAIN issues : more[k] = issues[k]
  BY <1>4 DEF Onto
<1>6. key \notin DOMAIN issues /\ key[1] = w /\ key[2] = i /\ pair[1] = w /\ pair[2] = i
  BY <1>4
<1>7. IsFiniteSet(DOMAIN issues) /\ IsFiniteSet(DOMAIN more)
  BY <1>5, FS_AddElement DEF PartsAreBooked
<1>8. PICK old, new : old = Column(issues, "quantity") /\ new = Column(more, "quantity")
  OBVIOUS
<1>9. /\ \A k \in DOMAIN issues : old[k] \in Int /\ new[k] = old[k]
      /\ new[key] = q
  BY <1>5, <1>8 DEF Column, PartsAreBooked
<1>10. /\ DOMAIN sums = IF to = w THEN DOMAIN parts \cup {pair} ELSE DOMAIN parts
       /\ to = w => sums[pair] = had + q
       /\ \A p \in DOMAIN parts : (to = w => p # pair) => sums[p] = parts[p]
  BY <1>4 DEF Onto
<1>11. ASSUME NEW k \in DOMAIN more
       PROVE  more[k].quantity \in Int /\ (more[k].to = k[1] => <<k[1], k[2]>> \in DOMAIN sums)
  <2>1. CASE k = key
    BY <1>4, <1>5, <1>6, <1>10, <2>1
  <2>2. CASE k # key
    <3>1. k \in DOMAIN issues /\ more[k] = issues[k]
      BY <1>5, <1>11, <2>2
    <3>2. QED
      BY <1>10, <3>1 DEF PartsAreBooked
  <2>3. QED
    BY <2>1, <2>2
<1>12. ASSUME NEW p
       PROVE  /\ BookedOn(issues, p) \subseteq DOMAIN issues
              /\ IsFiniteSet(BookedOn(issues, p))
              /\ BookedOn(more, p) = IF p[1] = w /\ p[2] = i /\ to = w THEN BookedOn(issues, p) \cup {key}
                                     ELSE BookedOn(issues, p)
              /\ SetSum(old, BookedOn(issues, p)) \in Int
              /\ SetSum(new, BookedOn(issues, p)) = SetSum(old, BookedOn(issues, p))
  <2>1. BookedOn(issues, p) \subseteq DOMAIN issues
    BY DEF BookedOn, BookedOf
  <2>2. IsFiniteSet(BookedOn(issues, p))
    BY <1>7, <2>1, FS_Subset
  <2>3. \A k : k \in BookedOn(more, p) <=>
          k \in BookedOn(issues, p) \/ (k = key /\ p[1] = w /\ p[2] = i /\ to = w)
    <3>1. ASSUME NEW k PROVE k \in BookedOn(more, p) <=>
          k \in BookedOn(issues, p) \/ (k = key /\ p[1] = w /\ p[2] = i /\ to = w)
      <4>1. CASE k = key
        BY <1>5, <1>6, <4>1 DEF BookedOn, BookedOf
      <4>2. CASE k # key
        BY <1>5, <4>2 DEF BookedOn, BookedOf
      <4>3. QED
        BY <4>1, <4>2
    <3>2. QED
      BY <3>1
  <2>4. PICK s, r : s = BookedOn(more, p) /\ r = BookedOn(issues, p)
    OBVIOUS
  <2>5. s = IF p[1] = w /\ p[2] = i /\ to = w THEN r \cup {key} ELSE r
    BY <2>3, <2>4
  <2>6. \A x \in r : old[x] \in Int /\ new[x] = old[x]
    BY <1>9, <2>1, <2>4
  <2>7. SetSum(new, r) = SetSum(old, r) /\ SetSum(old, r) \in Int
    BY <2>2, <2>4, <2>6, SetSumsAgree
  <2>8. QED
    BY <2>1, <2>2, <2>4, <2>5, <2>7
<1>13. ASSUME NEW p \in DOMAIN sums
       PROVE  p = <<p[1], p[2]>> /\ sums[p] = SetSum(new, BookedOn(more, p))
  <2>1. CASE to = w /\ p = pair
    <3>1. BookedOn(more, p) = BookedOn(issues, p) \cup {key}
      BY <1>6, <1>12, <2>1
    <3>2. PICK r : r = BookedOn(issues, p)
      OBVIOUS
    <3>3. IsFiniteSet(r) /\ key \notin r /\ \A x \in r \cup {key} : new[x] \in Int
      BY <1>4, <1>6, <1>9, <1>12, <3>2
    <3>4. SetSum(new, r \cup {key}) = SetSum(new, r) + new[key]
      BY <3>3, SetSumOfOneMore
    <3>5. had = SetSum(old, r)
      <4>1. CASE pair \in DOMAIN parts
        BY <1>4, <1>8, <2>1, <3>2, <4>1 DEF PartsAreBooked
      <4>2. CASE pair \notin DOMAIN parts
        <5>1. r = {}
          BY <1>4, <1>6, <2>1, <3>2, <4>2 DEF PartsAreBooked, BookedOn, BookedOf
        <5>2. SetSum(old, r) = 0
          BY <3>3, <5>1, SetSumOfNothing
        <5>3. QED
          BY <1>4, <4>2, <5>2
      <4>3. QED
        BY <4>1, <4>2
    <3>6. SetSum(new, r) = SetSum(old, r)
      BY <1>12, <3>2
    <3>7. QED
      BY <1>4, <1>6, <1>9, <1>10, <2>1, <3>1, <3>2, <3>4, <3>5, <3>6
  <2>2. CASE ~(to = w /\ p = pair)
    <3>1. p \in DOMAIN parts /\ sums[p] = parts[p]
      BY <1>4, <1>10, <1>13, <2>2
    <3>2. p = <<p[1], p[2]>> /\ parts[p] = SetSum(old, BookedOn(issues, p))
      BY <1>8, <3>1 DEF PartsAreBooked
    <3>3. ~(p[1] = w /\ p[2] = i /\ to = w)
      BY <1>4, <2>2, <3>2
    <3>4. BookedOn(more, p) = BookedOn(issues, p)
      BY <1>12, <3>3
    <3>5. QED
      BY <1>12, <3>1, <3>2, <3>4
  <2>3. QED
    BY <2>1, <2>2
<1>14. QED
  BY <1>7, <1>8, <1>11, <1>13 DEF PartsAreBooked

\* The occurrences of a pair are numbered: no two rows have one key.
LEMMA OccurrencesDiffer ==
  ASSUME NEW N \in Nat, NEW rows, DOMAIN rows \subseteq 1..N, NEW i \in DOMAIN rows, NEW j \in DOMAIN rows,
         OccurrenceKey(rows, i) = OccurrenceKey(rows, j), i <= j
  PROVE  i = j
<1> DEFINE SoFar(n) == {k \in DOMAIN rows : k <= n /\ rows[k].wo = rows[n].wo /\ rows[k].item = rows[n].item}
<1>1. /\ rows[i].wo = rows[j].wo /\ rows[i].item = rows[j].item
      /\ Cardinality(SoFar(i)) = Cardinality(SoFar(j))
  BY DEF OccurrenceKey
<1>2. IsFiniteSet(SoFar(j))
  <2>1. SoFar(j) \in SUBSET (1..N) /\ 1 \in Int /\ N \in Int
    OBVIOUS
  <2>2. IsFiniteSet(1..N)
    BY <2>1, FS_Interval
  <2>3. QED
    BY <2>1, <2>2, FS_Subset
<1>3. i \in 1..N /\ j \in 1..N
  OBVIOUS
<1>4. SoFar(i) \in SUBSET SoFar(j) /\ j \in SoFar(j)
  BY <1>1, <1>3
<1>5. SoFar(i) = SoFar(j)
  <2>1. PICK a, b : a = SoFar(i) /\ b = SoFar(j)
    OBVIOUS
  <2>2. a \in SUBSET b /\ IsFiniteSet(b) /\ Cardinality(b) = Cardinality(a)
    BY <1>1, <1>2, <1>4, <2>1
  <2>3. QED
    BY <2>1, <2>2, FS_Subset
<1>6. j <= i
  BY <1>4, <1>5
<1>7. QED
  BY <1>3, <1>6

IssueRowsOf(rows, w, i) == {j \in DOMAIN rows : rows[j].wo = w /\ rows[j].item = i}

LEMMA KeysAreOfRows ==
  ASSUME NEW N \in Nat, NEW rows, DOMAIN rows \subseteq 1..N, NEW i \in DOMAIN rows
  PROVE  \E m \in Nat : /\ OccurrenceKey(rows, i) = <<rows[i].wo, rows[i].item, m>> /\ m # 0
                        /\ m <= Cardinality(IssueRowsOf(rows, rows[i].wo, rows[i].item))
<1>1. PICK a, b : /\ a = {j \in DOMAIN rows : j <= i /\ rows[j].wo = rows[i].wo /\ rows[j].item = rows[i].item}
                  /\ b = IssueRowsOf(rows, rows[i].wo, rows[i].item)
  OBVIOUS
<1>2. a \in SUBSET b /\ b \in SUBSET (1..N) /\ i \in a /\ i \in 1..N
  BY <1>1 DEF IssueRowsOf
<1>3. IsFiniteSet(1..N)
  BY FS_Interval
<1>4. IsFiniteSet(b) /\ IsFiniteSet(a) /\ Cardinality(a) <= Cardinality(b)
  BY <1>2, <1>3, FS_Subset
<1>5. Cardinality(a) \in Nat /\ Cardinality(a) # 0
  BY <1>2, <1>4, FS_CardinalityType, FS_EmptySet
<1>6. OccurrenceKey(rows, i) = <<rows[i].wo, rows[i].item, Cardinality(a)>>
  BY <1>1 DEF OccurrenceKey
<1>7. QED
  BY <1>1, <1>4, <1>5, <1>6

IsFile(f) ==
  /\ DOMAIN f = {"kind", "rows"} /\ f.kind \in FileKinds
  /\ Len(f.rows) \in Nat /\ DOMAIN f.rows = 1..Len(f.rows) /\ (f.rows # <<>> => 1 \in DOMAIN f.rows)
  /\ f.kind = "issues" => \A i \in DOMAIN f.rows : f.rows[i].quantity \in Int

LEMMA BatchesAreFiles == batch \in Batches => \A f \in batch : IsFile(f)
<1> SUFFICES ASSUME batch \in Batches, NEW f \in batch PROVE IsFile(f)
  OBVIOUS
<1>1. /\ DOMAIN f = {"kind", "rows"} /\ f.kind \in FileKinds /\ f.rows \in Seq(ToSet(f.rows))
      /\ f.kind = "issues" => \A i \in DOMAIN f.rows : f.rows[i].quantity \in Int
  <2>1. f \in UNION Batches
    OBVIOUS
  <2>2. /\ \A g \in UNION Batches : DOMAIN g = {"kind", "rows"} /\ g.kind \in FileKinds
        /\ \A g \in UNION Batches : g.rows \in Seq(ToSet(g.rows))
        /\ \A g \in UNION Batches : g.kind = "issues" => \A i \in DOMAIN g.rows : g.rows[i].quantity \in Int
    BY ImportAssumption DEF ImportAssumption
  <2>3. QED
    BY <2>1, <2>2
<1>2. Len(f.rows) \in Nat /\ DOMAIN f.rows = 1..Len(f.rows) /\ (f.rows # <<>> => 1 \in DOMAIN f.rows)
  BY <1>1
<1>3. QED
  BY <1>1, <1>2 DEF IsFile

\* What a file of issues leaves of the other tables, and what it makes of its rows.
BookFit(d, t) ==
  /\ DOMAIN t = DOMAIN d
  /\ \A c \in DOMAIN d \ {"issues", "parts"} : t[c] = d[c]
  /\ t = [x \in DOMAIN d |-> t[x]]
  /\ PartsAreBooked(t.issues, t.parts) /\ RowsAreOfFiles(t.issues)
  /\ DOMAIN d.issues \subseteq DOMAIN t.issues

LEMMA TablesAre ==
  DOMAIN Tables = {"assets", "edges", "tasks", "schedules", "orders", "people", "links", "items", "kits",
                   "reorder", "issues", "parts", "photos", "orgs", "persons", "aliases", "codes"}
BY DEF Tables

LEMMA BookKeeps ==
  ASSUME NEW d, DOMAIN d = DOMAIN Tables, NEW f \in IssueFiles, IsFile(f), NEW n,
         NEW t, BookFit(d, t)
  PROVE  LET u == BookAt(GoodRows(f.rows), t, n) IN
         /\ BookFit(d, u) /\ DOMAIN t.issues \subseteq DOMAIN u.issues
         /\ n \in DOMAIN GoodRows(f.rows) /\ ChargedTo(d, GoodRows(f.rows)[n]) # Blank =>
              OccurrenceKey(GoodRows(f.rows), n) \in DOMAIN u.issues
<1>1. PICK good, N : good = GoodRows(f.rows) /\ N = Len(f.rows)
  OBVIOUS
<1>2. /\ DOMAIN good \subseteq 1..N /\ N \in Nat
      /\ \A j \in DOMAIN good : good[j] = f.rows[j] /\ good[j].quantity \in Int
  BY <1>1 DEF GoodRows, Restrict, IsFile, IssueFiles
<1>3. PICK u : u = BookAt(good, t, n)
  OBVIOUS
<1>4. CASE n \notin DOMAIN good
  BY <1>1, <1>3, <1>4 DEF BookAt
<1>5. CASE n \in DOMAIN good
  <2>1. PICK r, key, to : r = good[n] /\ key = OccurrenceKey(good, n) /\ to = ChargedTo(t, r)
    OBVIOUS
  <2>2. to = ChargedTo(d, r)
    <3>1. t.items = d.items /\ t.orders = d.orders /\ t.assets = d.assets
      BY TablesAre DEF BookFit
    <3>2. QED
      BY <2>1, <3>1 DEF ChargedTo
  <2>3. u = BackfillIssue(t, key, r)
    BY <1>3, <1>5, <2>1 DEF BookAt
  <2>4. CASE to = Blank \/ key \in DOMAIN t.issues
    <3>1. u = t
      BY <2>1, <2>3, <2>4 DEF BackfillIssue
    <3>2. QED
      BY <1>1, <1>3, <2>1, <2>2, <2>4, <3>1
  <2>5. CASE to # Blank /\ key \notin DOMAIN t.issues
    <3>1. PICK m \in Nat : key = <<r.wo, r.item, m>>
      <4>1. PICK m \in Nat : OccurrenceKey(good, n) = <<good[n].wo, good[n].item, m>>
        BY <1>2, <1>5, KeysAreOfRows
      <4>2. QED
        BY <2>1, <4>1
    <3>2. PICK q \in Int : q = r.quantity
      BY <1>2, <1>5, <2>1
    <3>3. PICK pair, had : /\ pair = <<r.wo, r.item>>
                           /\ had = IF pair \in DOMAIN t.parts THEN t.parts[pair] ELSE 0
      OBVIOUS
    <3>4. PICK more, sums : /\ more = Onto([k \in {key} |-> [to |-> to, quantity |-> q]], t.issues)
                            /\ sums = IF to = r.wo THEN Onto([p \in {pair} |-> had + q], t.parts) ELSE t.parts
      OBVIOUS
    <3>5. u = [t EXCEPT !.issues = more, !.parts = sums]
      BY <2>1, <2>3, <2>5, <3>2, <3>3, <3>4 DEF BackfillIssue
    <3>6. PartsAreBooked(more, sums)
      <4>1. PartsAreBooked(t.issues, t.parts) /\ key \notin DOMAIN t.issues
        BY <2>5 DEF BookFit
      <4>2. PICK issues, parts, w, i : issues = t.issues /\ parts = t.parts /\ w = r.wo /\ i = r.item
        OBVIOUS
      <4>3. /\ key = <<w, i, m>> /\ pair = <<w, i>>
            /\ had = IF pair \in DOMAIN parts THEN parts[pair] ELSE 0
            /\ more = Onto([k \in {key} |-> [to |-> to, quantity |-> q]], issues)
            /\ sums = IF to = w THEN Onto([p \in {pair} |-> had + q], parts) ELSE parts
        BY <3>1, <3>3, <3>4, <4>2
      <4>4. PartsAreBooked(issues, parts) /\ IsOneMore(issues, parts, w, i, m, key, pair, to, q, had, more, sums)
        BY <4>1, <4>2, <4>3 DEF IsOneMore
      <4>5. QED
        BY <4>4, OneMoreIsBooked
    <3>7. /\ DOMAIN u = DOMAIN d /\ u.issues = more /\ u.parts = sums
          /\ \A c \in DOMAIN d \ {"issues", "parts"} : u[c] = d[c]
          /\ u = [x \in DOMAIN d |-> u[x]]
      BY <3>5, TablesAre DEF BookFit
    <3>8. DOMAIN more = DOMAIN t.issues \cup {key}
      BY <3>4 DEF Onto
    <3>9. RowsAreOfFiles(more)
      BY <1>1, <1>5, <2>1, <3>8 DEF RowsAreOfFiles, BookFit
    <3>10. BookFit(d, u)
      BY <3>6, <3>7, <3>8, <3>9 DEF BookFit
    <3>11. QED
      BY <1>1, <1>3, <2>1, <3>7, <3>8, <3>10
  <2>6. QED
    BY <2>4, <2>5
<1>6. QED
  BY <1>4, <1>5

LEMMA BookSteps ==
  ASSUME NEW d, NEW rows, Len(rows) \in Nat
  PROVE  \E after : /\ after[0] = d /\ LoadIssues(d, rows) = after[Len(rows)]
                    /\ \A n \in 1..Len(rows) : after[n] = BookAt(GoodRows(rows), after[n - 1], n)
<1>1. PICK good : good = GoodRows(rows)
  OBVIOUS
<1> DEFINE x == [n \in 1..Len(rows) |-> n]
           Is(f) == f = [n \in 0..Len(rows) |-> IF n = 0 THEN d
                                     ELSE IF n \notin DOMAIN good THEN f[n-1]
                                     ELSE BackfillIssue(f[n-1], OccurrenceKey(good, n), good[n])]
<1>2. LoadIssues(d, rows) = (CHOOSE f : Is(f))[Len(rows)]
  BY <1>1 DEF LoadIssues
<1>3. \A n \in 1..Len(rows) : x[n] = n
  OBVIOUS
<1> HIDE DEF x
<1>4. ASSUME NEW f
      PROVE  Is(f) <=> IsCourse(f, Len(rows), "book", good, d, x)
  <2>1. ASSUME NEW n \in 0..Len(rows), n # 0
        PROVE  Step("book", good, f[n - 1], x[n]) =
                 IF n \notin DOMAIN good THEN f[n-1] ELSE BackfillIssue(f[n-1], OccurrenceKey(good, n), good[n])
    BY <1>3, <2>1 DEF Step, BookAt
  <2>2. QED
    BY <2>1 DEF IsCourse
<1> HIDE DEF Is
<1>5. \E f : Is(f)
  BY <1>4, CourseExists
<1>6. PICK after : after = CHOOSE f : Is(f)
  OBVIOUS
<1>7. IsCourse(after, Len(rows), "book", good, d, x)
  BY <1>4, <1>5, <1>6
<1>8. after[0] = d /\ \A n \in 1..Len(rows) : after[n] = Step("book", good, after[n - 1], x[n])
  BY <1>7, CourseSteps
<1>9. \A n \in 1..Len(rows) : after[n] = BookAt(good, after[n - 1], n)
  BY <1>3, <1>8 DEF Step
<1>10. QED
  BY <1>1, <1>2, <1>6, <1>8, <1>9

IsTables(d) == d = [c \in DOMAIN Tables |-> d[c]]

LEMMA IssuesLoad ==
  ASSUME NEW d, IsTables(d), PartsAreBooked(d.issues, d.parts), RowsAreOfFiles(d.issues),
         NEW f \in IssueFiles, IsFile(f)
  PROVE  /\ BookFit(d, LoadIssues(d, f.rows))
         /\ \A i \in DOMAIN GoodRows(f.rows) : ChargedTo(d, GoodRows(f.rows)[i]) # Blank =>
              OccurrenceKey(GoodRows(f.rows), i) \in DOMAIN LoadIssues(d, f.rows).issues
<1>1. PICK N, good : N = Len(f.rows) /\ good = GoodRows(f.rows)
  OBVIOUS
<1>2. N \in Nat /\ DOMAIN good \subseteq 1..N
  BY <1>1 DEF GoodRows, Restrict, IsFile
<1>3. PICK after : /\ after[0] = d /\ LoadIssues(d, f.rows) = after[N]
                   /\ \A n \in 1..N : after[n] = BookAt(good, after[n - 1], n)
  BY <1>1, <1>2, BookSteps
<1>4. DOMAIN d = DOMAIN Tables
  BY DEF IsTables
<1> DEFINE Fit(n) == /\ BookFit(d, after[n])
                     /\ \A i \in DOMAIN good : i <= n /\ ChargedTo(d, good[i]) # Blank =>
                          OccurrenceKey(good, i) \in DOMAIN after[n].issues
           G == {n \in 0..N : Fit(n)}
<1>5. Fit(0)
  <2>1. BookFit(d, d)
    BY <1>4 DEF BookFit, IsTables
  <2>2. QED
    BY <1>2, <1>3, <2>1
<1>6. ASSUME NEW n \in 1..N, Fit(n - 1) PROVE Fit(n)
  <2>1. PICK t, u : t = after[n - 1] /\ u = after[n]
    OBVIOUS
  <2>2. BookFit(d, t) /\ u = BookAt(good, t, n)
    BY <1>3, <1>6, <2>1
  <2>3. /\ BookFit(d, u) /\ DOMAIN t.issues \subseteq DOMAIN u.issues
        /\ n \in DOMAIN good /\ ChargedTo(d, good[n]) # Blank => OccurrenceKey(good, n) \in DOMAIN u.issues
    BY <1>1, <1>4, <2>2, BookKeeps
  <2>4. ASSUME NEW i \in DOMAIN good, i <= n, ChargedTo(d, good[i]) # Blank
        PROVE  OccurrenceKey(good, i) \in DOMAIN u.issues
    <3>1. i = n \/ i <= n - 1
      BY <1>2, <2>4
    <3>2. QED
      BY <1>6, <2>1, <2>3, <2>4, <3>1
  <2>5. QED
    BY <2>1, <2>3, <2>4
<1> HIDE DEF Fit
<1>7. 0 \in G /\ \A n \in 1..N : n - 1 \in G => n \in G
  BY <1>2, <1>5, <1>6
<1>8. G \in SUBSET (0..N)
  OBVIOUS
<1> HIDE DEF G
<1>9. G = 0..N
  BY <1>2, <1>7, <1>8, BoundedInduction
<1>10. Fit(N)
  BY <1>2, <1>9 DEF G
<1>11. \A i \in DOMAIN good : i <= N
  BY <1>2
<1>12. QED
  BY <1>1, <1>3, <1>10, <1>11 DEF Fit

\* Where every row with somewhere to go is booked there is nothing to book.
LEMMA NothingToBook ==
  ASSUME NEW d, NEW rows, Len(rows) \in Nat,
         \A i \in DOMAIN GoodRows(rows) : ChargedTo(d, GoodRows(rows)[i]) # Blank =>
              OccurrenceKey(GoodRows(rows), i) \in DOMAIN d.issues
  PROVE  LoadIssues(d, rows) = d
<1>1. PICK after : /\ after[0] = d /\ LoadIssues(d, rows) = after[Len(rows)]
                   /\ \A n \in 1..Len(rows) : after[n] = BookAt(GoodRows(rows), after[n - 1], n)
  BY BookSteps
<1> DEFINE G == {n \in 0..Len(rows) : after[n] = d}
<1>2. 0 \in G
  BY <1>1
<1>3. ASSUME NEW n \in 1..Len(rows), n - 1 \in G PROVE n \in G
  <2>1. after[n] = BookAt(GoodRows(rows), d, n)
    BY <1>1, <1>3
  <2>2. BookAt(GoodRows(rows), d, n) = d
    <3>1. CASE n \notin DOMAIN GoodRows(rows)
      BY <3>1 DEF BookAt
    <3>2. CASE n \in DOMAIN GoodRows(rows)
      <4>1. PICK r, key : r = GoodRows(rows)[n] /\ key = OccurrenceKey(GoodRows(rows), n)
        OBVIOUS
      <4>2. BookAt(GoodRows(rows), d, n) = BackfillIssue(d, key, r)
        BY <3>2, <4>1 DEF BookAt
      <4>3. ChargedTo(d, r) = Blank \/ key \in DOMAIN d.issues
        BY <3>2, <4>1
      <4>4. QED
        BY <4>2, <4>3 DEF BackfillIssue
    <3>3. QED
      BY <3>1, <3>2
  <2>3. QED
    BY <2>1, <2>2
<1>4. G \in SUBSET (0..Len(rows))
  OBVIOUS
<1> HIDE DEF G
<1>5. G = 0..Len(rows)
  BY <1>2, <1>3, <1>4, BoundedInduction
<1>6. after[Len(rows)] = d
  BY <1>5 DEF G
<1>7. QED
  BY <1>1, <1>6

-----------------------------------------------------------------------------
(***************************************************************************)
(* What holds of the tables, and of what was done to their rows.           *)
(***************************************************************************)
IsMemory(s) == DOMAIN s = {"gone", "unlinked", "deleted", "blanked", "alone", "byHand", "unlisted"}

AssetsFit(assets, gone) ==
  /\ gone \subseteq DOMAIN assets
  /\ \A a \in DOMAIN assets : "active" \in DOMAIN assets[a] /\ assets[a].active = (a \notin gone)

MarksFit(marks, cleared) ==
  /\ cleared \subseteq DOMAIN marks
  /\ \A k \in DOMAIN marks : marks[k] = (k \notin cleared)

TasksFit(tasks) == \A t \in DOMAIN tasks : "active" \in DOMAIN tasks[t]

SchedulesFit(schedules, tasks, assets, byHand, unlisted) ==
  \A p \in DOMAIN schedules :
    /\ schedules[p].asset \in DOMAIN assets /\ schedules[p].task \in DOMAIN tasks
    /\ ~tasks[schedules[p].task].active => schedules[p].task \in byHand \/ p \in unlisted

OrdersFit(orders, people, assets, blanked) ==
  /\ DOMAIN people = DOMAIN orders
  /\ \A n \in DOMAIN orders :
       /\ "person" \in DOMAIN orders[n] /\ orders[n].asset \in DOMAIN assets
       /\ n \notin blanked => orders[n].person = IF people[n] = <<>> THEN Blank ELSE people[n][1]

KitsFit(kits, items) == \A k \in kits : {k[1], k[2]} \subseteq DOMAIN items

PersonsFit(persons, aliases, alone) ==
  /\ DOMAIN persons \subseteq alone
  /\ \A a \in DOMAIN aliases : aliases[a] = PersonAliases[a] /\ aliases[a] \in DOMAIN persons

RowsFit(d, s) ==
  /\ IsTables(d) /\ IsMemory(s)
  /\ AssetsFit(d.assets, s.gone)
  /\ MarksFit(d.links, s.unlinked)
  /\ MarksFit(d.photos, s.deleted)
  /\ EdgesFit(d, d.edges)
  /\ TasksFit(d.tasks)
  /\ SchedulesFit(d.schedules, d.tasks, d.assets, s.byHand, s.unlisted)
  /\ OrdersFit(d.orders, d.people, d.assets, s.blanked)
  /\ KitsFit(d.kits, d.items)
  /\ PersonsFit(d.persons, d.aliases, s.alone)
  /\ PartsAreBooked(d.issues, d.parts)
  /\ RowsAreOfFiles(d.issues)

\* Every contact of a file loaded is there, itself or as an alias.
LoadedFit(d, files) ==
  \A f \in files : f.kind = "contacts" =>
    /\ EffectiveAliases(f.rows) \subseteq DOMAIN d.aliases
    /\ ContactIds(f.rows) \ EffectiveAliases(f.rows) \subseteq DOMAIN d.persons

\* Some tables are others, and the others as they were.
OnlyOf(u, d, cs) == IsTables(u) /\ \A c \in DOMAIN Tables \ cs : u[c] = d[c]

\* What a file makes of the memory.
Remembers(r, s, u, f) ==
  /\ IsMemory(r) /\ r.gone = s.gone /\ r.unlinked = s.unlinked /\ r.deleted = s.deleted
  /\ r.blanked = IF f.kind # "orders" THEN s.blanked ELSE BlankedAfter(s.blanked, KeptOrders(f.rows))
  /\ r.alone = IF f.kind # "contacts" THEN s.alone
               ELSE s.alone \cup (ContactIds(f.rows) \ EffectiveAliases(f.rows))
  /\ r.byHand = IF f.kind = "schedules" /\ f.rows # <<>> THEN {} ELSE s.byHand
  /\ r.unlisted = IF f.kind = "schedules" /\ f.rows # <<>>
                  THEN DOMAIN u.schedules \ Scheduled(f) ELSE s.unlisted

LEMMA MergedIs ==
  ASSUME NEW d, NEW f
  PROVE  /\ f.kind = "assets" => Merged(d, f) = LoadAssets(d, f.rows)
         /\ f.kind = "relations" => Merged(d, f) = LoadRelations(d, f.rows)
         /\ f.kind = "tasks" => Merged(d, f) = LoadTasks(d, f.rows)
         /\ f.kind = "schedules" => Merged(d, f) = LoadSchedules(d, f.rows)
         /\ f.kind = "orders" => Merged(d, f) = LoadOrders(d, f.rows)
         /\ f.kind = "references" => Merged(d, f) = LinkReferences(d)
         /\ f.kind = "items" => Merged(d, f) = LoadItems(d, f.rows)
         /\ f.kind = "issues" => Merged(d, f) = LoadIssues(d, f.rows)
         /\ f.kind = "contacts" => Merged(d, f) = LoadContacts(d, f.rows)
         /\ f.kind = "vocabulary" => Merged(d, f) = LoadVocabulary(d, f.rows)
         /\ f.kind = "media" => Merged(d, f) = LoadMedia(d, f.rows)
         /\ f.kind = "order quantities" => Merged(d, f) = LoadOrderQuantities(d, f.rows)
BY DEF Merged

LEMMA AdmittedIs ==
  ASSUME NEW d, NEW f
  PROVE  /\ f.kind \in {"relations", "issues", "media", "order quantities"} => Admitted(d, f)
         /\ f.kind = "schedules" /\ Admitted(d, f) =>
              \A i \in DOMAIN f.rows : f.rows[i].asset \in DOMAIN d.assets /\ f.rows[i].task \in DOMAIN d.tasks
         /\ f.kind = "orders" /\ Admitted(d, f) =>
              \A i \in DOMAIN KeptOrders(f.rows) : KeptOrders(f.rows)[i].asset \in DOMAIN d.assets
BY DEF Admitted, RowByRow

\* The marks of rows that were there stay, and new ones are active.
MarksStay(t, keys, values) ==
  \A i \in DOMAIN keys : "active" \in DOMAIN values[i] /\ values[i].active = StillActive(t, keys[i])

ActiveFits(u, t, keys) ==
  /\ DOMAIN u = DOMAIN t \cup Range(keys)
  /\ \A k \in DOMAIN t \ Range(keys) : u[k] = t[k]
  /\ \A k \in Range(keys) : "active" \in DOMAIN u[k] /\ u[k].active = StillActive(t, k)
  /\ \A i \in DOMAIN keys : StillActive(u, keys[i]) = StillActive(t, keys[i])

LEMMA ActiveUpserts ==
  ASSUME NEW t, NEW keys, NEW values, IsPlaced(keys),
         MarksStay(t, keys, values)
  PROVE  ActiveFits(Upserted(t, keys, values), t, keys)
<1>0. PICK u : u = Upserted(t, keys, values)
  OBVIOUS
<1>1. UpsertFits(u, t, keys, values)
  BY <1>0, UpsertedIs
<1>2. ASSUME NEW k \in Range(keys) PROVE "active" \in DOMAIN u[k] /\ u[k].active = StillActive(t, k)
  <2>1. PICK i \in DOMAIN keys : keys[i] = k /\ u[k] = values[i]
    BY <1>1 DEF UpsertFits
  <2>2. QED
    BY <2>1 DEF MarksStay
<1>3. ASSUME NEW i \in DOMAIN keys PROVE StillActive(u, keys[i]) = StillActive(t, keys[i])
  <2>1. keys[i] \in Range(keys)
    BY DEF Range
  <2>2. PICK k : k = keys[i]
    OBVIOUS
  <2>3. k \in DOMAIN u /\ u[k].active = StillActive(t, k)
    BY <1>1, <1>2, <2>1, <2>2 DEF UpsertFits
  <2>4. StillActive(t, k) \in BOOLEAN
    BY DEF StillActive
  <2>5. StillActive(u, k) = u[k].active
    BY <2>3, <2>4 DEF StillActive
  <2>6. QED
    BY <2>2, <2>3, <2>5
<1>4. QED
  BY <1>0, <1>1, <1>2, <1>3 DEF UpsertFits, ActiveFits

LEMMA AssetsGrow ==
  ASSUME NEW d, NEW u, DOMAIN d.assets \subseteq DOMAIN u.assets
  PROVE  /\ \A edges : EdgesFit(d, edges) => EdgesFit(u, edges)
         /\ \A a, b, c, h : SchedulesFit(a, b, d.assets, c, h) => SchedulesFit(a, b, u.assets, c, h)
         /\ \A a, b, c : OrdersFit(a, b, d.assets, c) => OrdersFit(a, b, u.assets, c)
<1>1. ASSUME NEW edges, EdgesFit(d, edges) PROVE EdgesFit(u, edges)
  BY <1>1 DEF EdgesFit, UnknownEnd
<1>2. ASSUME NEW a, NEW b, NEW c, NEW h, SchedulesFit(a, b, d.assets, c, h)
      PROVE  SchedulesFit(a, b, u.assets, c, h)
  BY <1>2 DEF SchedulesFit
<1>3. ASSUME NEW a, NEW b, NEW c, OrdersFit(a, b, d.assets, c) PROVE OrdersFit(a, b, u.assets, c)
  BY <1>3 DEF OrdersFit
<1>4. QED
  BY <1>1, <1>2, <1>3

LEMMA AssetsLoad ==
  ASSUME NEW d, NEW s, RowsFit(d, s), NEW f, IsFile(f), NEW u, u = LoadAssets(d, f.rows)
  PROVE  RowsFit(u, s) /\ OnlyOf(u, d, {"assets"}) /\ LoadAssets(u, f.rows) = u
<1>1. PICK rows, N, keys, values, table :
        /\ rows = f.rows /\ N = Len(rows) /\ keys = Column(rows, "asset")
        /\ values = [i \in DOMAIN rows |-> [line |-> rows[i].line, active |-> StillActive(d.assets, rows[i].asset)]]
        /\ table = Upserted(d.assets, keys, values)
  OBVIOUS
<1>2. N \in Nat /\ DOMAIN rows = 1..N /\ DOMAIN keys = DOMAIN rows /\ \A i \in DOMAIN rows : keys[i] = rows[i].asset
  BY <1>1 DEF IsFile, Column
<1>3. MarksStay(d.assets, keys, values)
  BY <1>1, <1>2 DEF MarksStay
<1>4. /\ DOMAIN table = DOMAIN d.assets \cup Range(keys)
      /\ \A k \in DOMAIN d.assets \ Range(keys) : table[k] = d.assets[k]
      /\ \A k \in Range(keys) : "active" \in DOMAIN table[k] /\ table[k].active = StillActive(d.assets, k)
      /\ \A i \in DOMAIN keys : StillActive(table, keys[i]) = StillActive(d.assets, keys[i])
  <2>1. IsPlaced(keys)
    BY <1>2 DEF IsPlaced
  <2>2. ActiveFits(table, d.assets, keys)
    BY <1>1, <1>3, <2>1, ActiveUpserts
  <2>3. QED
    BY <2>2 DEF ActiveFits
<1>5. u = [d EXCEPT !.assets = table]
  BY <1>1 DEF LoadAssets
<1>6. IsTables(u) /\ u.assets = table /\ \A c \in DOMAIN Tables \ {"assets"} : u[c] = d[c]
  BY <1>5, TablesAre DEF IsTables, RowsFit
<1>7. AssetsFit(table, s.gone)
  <2>1. AssetsFit(d.assets, s.gone)
    BY DEF RowsFit
  <2>2. ASSUME NEW k \in DOMAIN table
        PROVE  "active" \in DOMAIN table[k] /\ table[k].active = (k \notin s.gone)
    <3>1. CASE k \notin Range(keys)
      BY <1>4, <2>1, <2>2, <3>1 DEF AssetsFit
    <3>2. CASE k \in Range(keys)
      <4>1. CASE k \in DOMAIN d.assets
        BY <1>4, <2>1, <3>2, <4>1 DEF AssetsFit, StillActive
      <4>2. CASE k \notin DOMAIN d.assets
        BY <1>4, <2>1, <3>2, <4>2 DEF AssetsFit, StillActive
      <4>3. QED
        BY <4>1, <4>2
    <3>3. QED
      BY <3>1, <3>2
  <2>3. QED
    BY <1>4, <2>1, <2>2 DEF AssetsFit
<1>8. RowsFit(u, s)
  <2>1. DOMAIN d.assets \subseteq DOMAIN u.assets
    BY <1>4, <1>6
  <2>2. /\ \A edges : EdgesFit(d, edges) => EdgesFit(u, edges)
        /\ \A a, b, c, h : SchedulesFit(a, b, d.assets, c, h) => SchedulesFit(a, b, u.assets, c, h)
        /\ \A a, b, c : OrdersFit(a, b, d.assets, c) => OrdersFit(a, b, u.assets, c)
    BY <2>1, AssetsGrow
  <2>3. QED
    BY <1>6, <1>7, <2>2, TablesAre DEF RowsFit
<1>9. LoadAssets(u, rows) = u
  <2>1. PICK again : again = [i \in DOMAIN rows |-> [line |-> rows[i].line, active |-> StillActive(table, rows[i].asset)]]
    OBVIOUS
  <2>2. \A i \in DOMAIN rows : StillActive(table, rows[i].asset) = StillActive(d.assets, rows[i].asset)
    BY <1>2, <1>4
  <2>3. again = values
    BY <1>1, <2>1, <2>2
  <2>4. Upserted(table, keys, again) = table
    BY <1>1, <2>3, UpsertedTwice
  <2>5. LoadAssets(u, rows) = [u EXCEPT !.assets = table]
    BY <1>1, <1>6, <2>1, <2>4 DEF LoadAssets
  <2>6. QED
    BY <1>6, <2>5, TablesAre DEF IsTables
<1>10. QED
  BY <1>1, <1>6, <1>8, <1>9 DEF OnlyOf

LEMMA EdgesStay ==
  ASSUME NEW d, NEW s, RowsFit(d, s), NEW u, NEW cs, OnlyOf(u, d, cs), "assets" \notin cs
  PROVE  EdgesFit(u, d.edges)
<1>1. u.assets = d.assets
  BY TablesAre DEF OnlyOf
<1>2. QED
  BY <1>1 DEF RowsFit, EdgesFit, UnknownEnd

LEMMA RelationsKeep ==
  ASSUME NEW d, NEW s, RowsFit(d, s), NEW f, IsFile(f), NEW u, u = LoadRelations(d, f.rows)
  PROVE  /\ RowsFit(u, s) /\ OnlyOf(u, d, {"edges"}) /\ LoadRelations(u, f.rows) = u
         /\ \A i \in DOMAIN Classified(f.rows) : Accounted(d, u.edges, Classified(f.rows)[i])
<1>1. PICK rows : rows = f.rows /\ Len(rows) \in Nat /\ DOMAIN rows = 1..Len(rows)
  BY DEF IsFile
<1>2. IsTables(d) /\ EdgesFit(d, d.edges) /\ DOMAIN d = DOMAIN Tables
  BY DEF RowsFit, IsTables
<1>3. PICK edges : /\ u = [d EXCEPT !.edges = edges] /\ EdgesFit(d, edges)
                   /\ \A i \in DOMAIN Classified(rows) : Accounted(d, edges, Classified(rows)[i])
  BY <1>1, <1>2, RelationsLoad
<1>4. OnlyOf(u, d, {"edges"}) /\ u.edges = edges
  BY <1>2, <1>3, TablesAre DEF OnlyOf, IsTables
<1>5. u.assets = d.assets
  BY <1>4, TablesAre DEF OnlyOf
<1>6. EdgesFit(u, u.edges)
  BY <1>3, <1>4, <1>5 DEF EdgesFit, UnknownEnd
<1>7. RowsFit(u, s)
  BY <1>4, <1>6, TablesAre DEF OnlyOf, RowsFit
<1>8. \A i \in DOMAIN Classified(rows) : Accounted(u, u.edges, Classified(rows)[i])
  BY <1>3, <1>4, <1>5 DEF Accounted, UnknownEnd
<1>9. LoadRelations(u, rows) = [u EXCEPT !.edges = u.edges]
  BY <1>1, <1>8, NothingToBind
<1>10. LoadRelations(u, rows) = u
  BY <1>4, <1>9, TablesAre DEF OnlyOf, IsTables
<1>11. QED
  BY <1>1, <1>3, <1>4, <1>7, <1>10

LEMMA TasksLoad ==
  ASSUME NEW d, NEW s, RowsFit(d, s), NEW f, IsFile(f), NEW u, u = LoadTasks(d, f.rows)
  PROVE  RowsFit(u, s) /\ OnlyOf(u, d, {"tasks"}) /\ LoadTasks(u, f.rows) = u
<1>1. PICK rows, N, keys, values, table :
        /\ rows = f.rows /\ N = Len(rows) /\ keys = Column(rows, "task")
        /\ values = [i \in DOMAIN rows |-> [text |-> rows[i].text, active |-> StillActive(d.tasks, rows[i].task)]]
        /\ table = Upserted(d.tasks, keys, values)
  OBVIOUS
<1>2. N \in Nat /\ DOMAIN rows = 1..N /\ DOMAIN keys = DOMAIN rows /\ \A i \in DOMAIN rows : keys[i] = rows[i].task
  BY <1>1 DEF IsFile, Column
<1>3. MarksStay(d.tasks, keys, values)
  BY <1>1, <1>2 DEF MarksStay
<1>4. /\ DOMAIN table = DOMAIN d.tasks \cup Range(keys)
      /\ \A k \in DOMAIN d.tasks \ Range(keys) : table[k] = d.tasks[k]
      /\ \A k \in Range(keys) : "active" \in DOMAIN table[k] /\ table[k].active = StillActive(d.tasks, k)
      /\ \A i \in DOMAIN keys : StillActive(table, keys[i]) = StillActive(d.tasks, keys[i])
  <2>1. IsPlaced(keys)
    BY <1>2 DEF IsPlaced
  <2>2. ActiveFits(table, d.tasks, keys)
    BY <1>1, <1>3, <2>1, ActiveUpserts
  <2>3. QED
    BY <2>2 DEF ActiveFits
<1>5. u = [d EXCEPT !.tasks = table]
  BY <1>1 DEF LoadTasks
<1>6. OnlyOf(u, d, {"tasks"}) /\ u.tasks = table
  BY <1>5, TablesAre DEF OnlyOf, IsTables, RowsFit
<1>7. TasksFit(table)
  BY <1>4 DEF TasksFit, RowsFit
<1>8. SchedulesFit(d.schedules, table, d.assets, s.byHand, s.unlisted)
  <2>1. SchedulesFit(d.schedules, d.tasks, d.assets, s.byHand, s.unlisted)
    BY DEF RowsFit
  <2>2. SUFFICES ASSUME NEW p \in DOMAIN d.schedules
                 PROVE  /\ d.schedules[p].asset \in DOMAIN d.assets /\ d.schedules[p].task \in DOMAIN table
                        /\ ~table[d.schedules[p].task].active =>
                             d.schedules[p].task \in s.byHand \/ p \in s.unlisted
    BY DEF SchedulesFit
  <2>3. PICK k \in DOMAIN d.tasks : k = d.schedules[p].task
    BY <2>1 DEF SchedulesFit
  <2>4. CASE k \in Range(keys)
    BY <1>4, <2>1, <2>3, <2>4 DEF SchedulesFit, StillActive
  <2>5. CASE k \notin Range(keys)
    BY <1>4, <2>1, <2>3, <2>5 DEF SchedulesFit
  <2>6. QED
    BY <2>4, <2>5
<1>9. RowsFit(u, s)
  <2>1. EdgesFit(u, d.edges)
    BY <1>6, EdgesStay
  <2>2. QED
    BY <1>6, <1>7, <1>8, <2>1, TablesAre DEF OnlyOf, RowsFit
<1>10. LoadTasks(u, rows) = u
  <2>1. PICK again : again = [i \in DOMAIN rows |-> [text |-> rows[i].text, active |-> StillActive(table, rows[i].task)]]
    OBVIOUS
  <2>2. \A i \in DOMAIN rows : StillActive(table, rows[i].task) = StillActive(d.tasks, rows[i].task)
    BY <1>2, <1>4
  <2>3. again = values
    BY <1>1, <2>1, <2>2
  <2>4. Upserted(table, keys, again) = table
    BY <1>1, <2>3, UpsertedTwice
  <2>5. LoadTasks(u, rows) = [u EXCEPT !.tasks = table]
    BY <1>1, <1>6, <2>1, <2>4 DEF LoadTasks
  <2>6. QED
    BY <1>6, <2>5, TablesAre DEF OnlyOf, IsTables
<1>11. QED
  BY <1>1, <1>6, <1>9, <1>10

LEMMA VocabularyLoads ==
  ASSUME NEW d, NEW s, RowsFit(d, s), NEW f, IsFile(f), NEW u, u = LoadVocabulary(d, f.rows)
  PROVE  RowsFit(u, s) /\ OnlyOf(u, d, {"codes"}) /\ LoadVocabulary(u, f.rows) = u
<1>1. PICK named, N, keys, values, table :
        /\ named = Labelled(f.rows) /\ N = Len(f.rows) /\ keys = Column(named, "label")
        /\ values = [i \in DOMAIN named |-> [text |-> named[i].text, active |-> StillActive(d.codes, named[i].label)]]
        /\ table = Upserted(d.codes, keys, values)
  OBVIOUS
<1>2. /\ N \in Nat /\ DOMAIN named \subseteq 1..N /\ DOMAIN keys = DOMAIN named
      /\ \A i \in DOMAIN named : keys[i] = named[i].label
  BY <1>1 DEF IsFile, Column, Labelled, Restrict
<1>3. MarksStay(d.codes, keys, values)
  BY <1>1, <1>2 DEF MarksStay
<1>4. \A i \in DOMAIN keys : StillActive(table, keys[i]) = StillActive(d.codes, keys[i])
  <2>1. IsPlaced(keys)
    BY <1>2 DEF IsPlaced
  <2>2. ActiveFits(table, d.codes, keys)
    BY <1>1, <1>3, <2>1, ActiveUpserts
  <2>3. QED
    BY <2>2 DEF ActiveFits
<1>5. u = [d EXCEPT !.codes = table]
  BY <1>1 DEF LoadVocabulary
<1>6. OnlyOf(u, d, {"codes"}) /\ u.codes = table
  BY <1>5, TablesAre DEF OnlyOf, IsTables, RowsFit
<1>8. EdgesFit(u, d.edges)
  BY <1>6, EdgesStay
<1>9. RowsFit(u, s)
  BY <1>6, <1>8, TablesAre DEF OnlyOf, RowsFit
<1>10. LoadVocabulary(u, f.rows) = u
  <2>1. PICK again : again = [i \in DOMAIN named |-> [text |-> named[i].text, active |-> StillActive(table, named[i].label)]]
    OBVIOUS
  <2>2. \A i \in DOMAIN named : StillActive(table, named[i].label) = StillActive(d.codes, named[i].label)
    BY <1>2, <1>4
  <2>3. again = values
    BY <1>1, <2>1, <2>2
  <2>4. Upserted(table, keys, again) = table
    BY <1>1, <2>3, UpsertedTwice
  <2>5. LoadVocabulary(u, f.rows) = [u EXCEPT !.codes = table]
    BY <1>1, <1>6, <2>1, <2>4 DEF LoadVocabulary
  <2>6. QED
    BY <1>6, <2>5, TablesAre DEF OnlyOf, IsTables
<1>11. QED
  BY <1>6, <1>9, <1>10

LEMMA SchedulesLoad ==
  ASSUME NEW d, NEW s, RowsFit(d, s), NEW f, IsFile(f), f.kind = "schedules", Admitted(d, f),
         NEW u, u = LoadSchedules(d, f.rows), NEW r, Remembers(r, s, u, f)
  PROVE  RowsFit(u, r) /\ OnlyOf(u, d, {"schedules", "tasks"}) /\ LoadSchedules(u, f.rows) = u
<1>0. /\ IsMemory(s) /\ IsMemory(r) /\ r.gone = s.gone /\ r.unlinked = s.unlinked /\ r.deleted = s.deleted
      /\ r.blanked = s.blanked /\ r.alone = s.alone
      /\ r.byHand = IF f.rows # <<>> THEN {} ELSE s.byHand
      /\ r.unlisted = IF f.rows # <<>> THEN DOMAIN u.schedules \ Scheduled(f) ELSE s.unlisted
  BY DEF Remembers, RowsFit
<1>1. PICK rows, N, keys, values, table, used, tasks :
        /\ rows = f.rows /\ N = Len(rows) /\ keys = Column(rows, "pm")
        /\ values = Columns(rows, {"asset", "task"}) /\ table = Upserted(d.schedules, keys, values)
        /\ used = {rows[i].task : i \in DOMAIN rows} /\ tasks = SyncActive(d.tasks, used)
  OBVIOUS
<1>2. /\ N \in Nat /\ DOMAIN rows = 1..N /\ (rows # <<>> => 1 \in DOMAIN rows)
      /\ DOMAIN keys = DOMAIN rows /\ \A i \in DOMAIN rows : keys[i] = rows[i].pm
      /\ \A i \in DOMAIN rows : values[i].asset = rows[i].asset /\ values[i].task = rows[i].task
  BY <1>1 DEF IsFile, Column, Columns
<1>3. UpsertFits(table, d.schedules, keys, values)
  <2>1. IsPlaced(keys)
    BY <1>2 DEF IsPlaced
  <2>2. QED
    BY <1>1, <2>1, UpsertedIs
<1>4. u = [d EXCEPT !.schedules = table, !.tasks = tasks]
  BY <1>1 DEF LoadSchedules, ScheduleUpserts
<1>5. OnlyOf(u, d, {"schedules", "tasks"}) /\ u.schedules = table /\ u.tasks = tasks
  BY <1>4, TablesAre DEF OnlyOf, IsTables, RowsFit
<1>6. \A i \in DOMAIN rows : rows[i].asset \in DOMAIN d.assets /\ rows[i].task \in DOMAIN d.tasks
  BY <1>1, AdmittedIs
<1>7. TasksFit(d.tasks) /\ SchedulesFit(d.schedules, d.tasks, d.assets, s.byHand, s.unlisted)
  BY DEF RowsFit
<1>8. /\ DOMAIN tasks = DOMAIN d.tasks /\ (used = {} => tasks = d.tasks)
      /\ used # {} => \A t \in DOMAIN tasks : "active" \in DOMAIN tasks[t] /\ tasks[t].active = (t \in used)
  BY <1>1, <1>7 DEF SyncActive, TasksFit
<1>9. TasksFit(tasks)
  BY <1>7, <1>8 DEF TasksFit
<1>10. SchedulesFit(table, tasks, d.assets, r.byHand, r.unlisted)
  <2>1. SUFFICES ASSUME NEW p \in DOMAIN table
                 PROVE  /\ table[p].asset \in DOMAIN d.assets /\ table[p].task \in DOMAIN tasks
                        /\ ~tasks[table[p].task].active => table[p].task \in r.byHand \/ p \in r.unlisted
    BY DEF SchedulesFit
  <2>2. CASE p \in Range(keys)
    <3>1. PICK i \in DOMAIN rows : keys[i] = p /\ table[p] = values[i]
      BY <1>2, <1>3, <2>2 DEF UpsertFits
    <3>2. table[p].asset \in DOMAIN d.assets /\ table[p].task \in DOMAIN tasks
      BY <1>2, <1>6, <1>8, <3>1
    <3>3. table[p].task \in used
      BY <1>1, <1>2, <3>1
    <3>4. QED
      BY <1>8, <3>2, <3>3
  <2>3. CASE p \notin Range(keys)
    <3>1. p \in DOMAIN d.schedules /\ table[p] = d.schedules[p]
      BY <1>3, <2>3 DEF UpsertFits
    <3>2. CASE rows = <<>>
      <4>1. used = {} /\ r.byHand = s.byHand /\ r.unlisted = s.unlisted
        BY <1>0, <1>1, <3>2
      <4>2. QED
        BY <1>7, <1>8, <3>1, <4>1 DEF SchedulesFit
    <3>3. CASE rows # <<>>
      <4>1. p \notin Scheduled(f)
        BY <1>1, <1>2, <2>3 DEF Scheduled, Range
      <4>2. p \in r.unlisted
        BY <1>0, <1>1, <1>5, <3>3, <4>1
      <4>3. QED
        BY <1>7, <1>8, <3>1, <4>2 DEF SchedulesFit
    <3>4. QED
      BY <3>2, <3>3
  <2>4. QED
    BY <2>2, <2>3
<1>11. RowsFit(u, r)
  <2>1. EdgesFit(u, d.edges)
    BY <1>5, EdgesStay
  <2>2. QED
    BY <1>0, <1>5, <1>9, <1>10, <2>1, TablesAre DEF OnlyOf, RowsFit
<1>12. LoadSchedules(u, rows) = u
  <2>1. Upserted(table, keys, values) = table
    BY <1>1, UpsertedTwice
  <2>2. SyncActive(tasks, used) = tasks
    <3>1. CASE used = {}
      BY <3>1 DEF SyncActive
    <3>2. CASE used # {}
      <4>1. tasks = [t \in DOMAIN d.tasks |-> [d.tasks[t] EXCEPT !.active = t \in used]]
        BY <1>1, <3>2 DEF SyncActive
      <4>2. SyncActive(tasks, used) = [t \in DOMAIN tasks |-> [tasks[t] EXCEPT !.active = t \in used]]
        BY <3>2 DEF SyncActive
      <4>3. ASSUME NEW t \in DOMAIN tasks PROVE [tasks[t] EXCEPT !.active = t \in used] = tasks[t]
        BY <1>8, <4>1
      <4>4. QED
        BY <4>1, <4>2, <4>3
    <3>3. QED
      BY <3>1, <3>2
  <2>3. LoadSchedules(u, rows) = [u EXCEPT !.schedules = table, !.tasks = tasks]
    BY <1>1, <1>5, <2>1, <2>2 DEF LoadSchedules, ScheduleUpserts
  <2>4. QED
    BY <1>5, <2>3, TablesAre DEF OnlyOf, IsTables
<1>13. QED
  BY <1>1, <1>5, <1>11, <1>12

LEMMA OrdersLoad ==
  ASSUME NEW d, NEW s, RowsFit(d, s), NEW f, IsFile(f), f.kind = "orders", Admitted(d, f),
         NEW u, u = LoadOrders(d, f.rows), NEW r, Remembers(r, s, u, f)
  PROVE  RowsFit(u, r) /\ OnlyOf(u, d, {"orders", "people"}) /\ LoadOrders(u, f.rows) = u
<1>0. /\ IsMemory(s) /\ IsMemory(r) /\ r.gone = s.gone /\ r.unlinked = s.unlinked /\ r.deleted = s.deleted
      /\ r.alone = s.alone /\ r.byHand = s.byHand /\ r.unlisted = s.unlisted
      /\ r.blanked = BlankedAfter(s.blanked, KeptOrders(f.rows))
  BY DEF Remembers, RowsFit
<1>1. PICK kept, N, keys, values, orders, people :
        /\ kept = KeptOrders(f.rows) /\ N = Len(f.rows) /\ keys = Column(kept, "no")
        /\ values = [i \in DOMAIN kept |->
              [asset |-> kept[i].asset, status |-> StatusMap(kept[i].status),
               person |-> kept[i].person, ref |-> kept[i].ref]]
        /\ orders = Upserted(d.orders, keys, values) /\ people = Assigned(d.people, kept)
  OBVIOUS
<1>2. /\ N \in Nat /\ DOMAIN kept \subseteq 1..N /\ DOMAIN keys = DOMAIN kept
      /\ \A i \in DOMAIN kept : keys[i] = kept[i].no
  BY <1>1 DEF IsFile, Column, KeptOrders, Restrict
<1>3. UpsertFits(orders, d.orders, keys, values)
  <2>1. IsPlaced(keys)
    BY <1>2 DEF IsPlaced
  <2>2. QED
    BY <1>1, <2>1, UpsertedIs
<1>4. u = [d EXCEPT !.orders = orders, !.people = people]
  BY <1>1 DEF LoadOrders
<1>5. OnlyOf(u, d, {"orders", "people"}) /\ u.orders = orders /\ u.people = people
  BY <1>4, TablesAre DEF OnlyOf, IsTables, RowsFit
<1>6. \A i \in DOMAIN kept : kept[i].asset \in DOMAIN d.assets
  BY <1>1, AdmittedIs
<1>7. OrdersFit(d.orders, d.people, d.assets, s.blanked)
  BY DEF RowsFit
<1>8. /\ DOMAIN people = DOMAIN d.people \cup Range(keys)
      /\ \A n \in DOMAIN people : Naming(kept, n) = {} => people[n] = Assignees(d.people, n)
      /\ \A n \in DOMAIN people : Naming(kept, n) # {} => people[n] = <<kept[Latest(Naming(kept, n))].person>>
  BY <1>1 DEF Assigned
<1>9. OrdersFit(orders, people, d.assets, r.blanked)
  <2>1. DOMAIN people = DOMAIN orders
    BY <1>3, <1>7, <1>8 DEF UpsertFits, OrdersFit
  <2>2. SUFFICES ASSUME NEW n \in DOMAIN orders
                 PROVE  /\ "person" \in DOMAIN orders[n] /\ orders[n].asset \in DOMAIN d.assets
                        /\ n \notin r.blanked => orders[n].person = IF people[n] = <<>> THEN Blank ELSE people[n][1]
    BY <2>1 DEF OrdersFit
  <2>3. PICK named : named = {i \in DOMAIN kept : kept[i].no = n}
    OBVIOUS
  <2>4. CASE n \in Range(keys)
    <3>1. PICK i \in DOMAIN kept : /\ keys[i] = n /\ orders[n] = values[i]
                                   /\ \A j \in DOMAIN keys : keys[j] = n => j <= i
      BY <1>2, <1>3, <2>4 DEF UpsertFits
    <3>2. i \in named /\ \A j \in named : j <= i
      BY <1>2, <2>3, <3>1
    <3>3. \A P \in SUBSET named : i \in P => Latest(P) = i
      <4>1. SUFFICES ASSUME NEW P \in SUBSET named, i \in P PROVE Latest(P) = i
        OBVIOUS
      <4>2. P \in SUBSET (1..N) /\ P # {}
        BY <1>2, <2>3, <4>1
      <4>3. Latest(P) \in P /\ \A j \in P : j <= Latest(P)
        BY <1>2, <4>2, LatestOf
      <4>4. i <= Latest(P) /\ Latest(P) <= i /\ i \in 1..N /\ Latest(P) \in 1..N
        BY <3>2, <4>1, <4>2, <4>3
      <4>5. QED
        BY <4>4
    <3>4. n \notin r.blanked => kept[i].person # Blank
      <4>1. Latest(named) = i /\ n \in {kept[j].no : j \in DOMAIN kept}
        BY <2>3, <3>2, <3>3
      <4>2. kept[Latest(named)].person = Blank => n \in r.blanked
        BY <1>0, <1>1, <2>3, <4>1 DEF BlankedAfter
      <4>3. QED
        BY <4>1, <4>2
    <3>5. /\ "person" \in DOMAIN orders[n] /\ orders[n].asset \in DOMAIN d.assets
          /\ orders[n].person = kept[i].person
      BY <1>1, <1>6, <3>1
    <3>6. ASSUME n \notin r.blanked PROVE people[n] = <<kept[i].person>>
      <4>1. i \in Naming(kept, n) /\ Naming(kept, n) \in SUBSET named
        BY <2>3, <3>2, <3>4, <3>6 DEF Naming
      <4>2. Latest(Naming(kept, n)) = i /\ Naming(kept, n) # {}
        BY <3>3, <4>1
      <4>3. QED
        BY <1>8, <2>1, <4>2
    <3>7. n \notin r.blanked => people[n] # <<>> /\ people[n][1] = kept[i].person
      BY <3>6
    <3>8. QED
      BY <3>5, <3>7
  <2>5. CASE n \notin Range(keys)
    <3>1. n \in DOMAIN d.orders /\ orders[n] = d.orders[n]
      BY <1>3, <2>5 DEF UpsertFits
    <3>2. named = {} /\ Naming(kept, n) = {}
      BY <1>2, <2>3, <2>5 DEF Naming, Range
    <3>3. people[n] = d.people[n]
      BY <1>7, <1>8, <2>1, <3>1, <3>2 DEF Assignees, OrdersFit
    <3>4. n \in r.blanked <=> n \in s.blanked
      <4>1. n \notin {kept[j].no : j \in DOMAIN kept}
        BY <2>3, <3>2
      <4>2. QED
        BY <1>0, <1>1, <4>1 DEF BlankedAfter
    <3>5. QED
      BY <1>7, <3>1, <3>3, <3>4 DEF OrdersFit
  <2>6. QED
    BY <2>4, <2>5
<1>10. RowsFit(u, r)
  <2>1. EdgesFit(u, d.edges)
    BY <1>5, EdgesStay
  <2>2. QED
    BY <1>0, <1>5, <1>9, <2>1, TablesAre DEF OnlyOf, RowsFit
<1>11. LoadOrders(u, f.rows) = u
  <2>1. Upserted(orders, keys, values) = orders
    BY <1>1, UpsertedTwice
  <2>2. Assigned(people, kept) = people
    <3>1. people = [n \in DOMAIN people |-> people[n]]
      BY <1>1 DEF Assigned
    <3>2. Assigned(people, kept) = [n \in DOMAIN people \cup Range(keys) |->
            IF Naming(kept, n) = {} THEN Assignees(people, n) ELSE <<kept[Latest(Naming(kept, n))].person>>]
      BY <1>1 DEF Assigned
    <3>3. DOMAIN people \cup Range(keys) = DOMAIN people
      BY <1>8
    <3>4. ASSUME NEW n \in DOMAIN people
          PROVE  people[n] = IF Naming(kept, n) = {} THEN Assignees(people, n)
                             ELSE <<kept[Latest(Naming(kept, n))].person>>
      BY <1>8 DEF Assignees
    <3>5. QED
      BY <3>1, <3>2, <3>3, <3>4
  <2>3. LoadOrders(u, f.rows) = [u EXCEPT !.orders = orders, !.people = people]
    BY <1>1, <1>5, <2>1, <2>2 DEF LoadOrders
  <2>4. QED
    BY <1>5, <2>3, TablesAre DEF OnlyOf, IsTables
<1>12. QED
  BY <1>5, <1>10, <1>11

\* Marks are added, and those there are stay.
LEMMA MarksMore ==
  ASSUME NEW marks, NEW cleared, MarksFit(marks, cleared), NEW more
  PROVE  /\ MarksFit(Onto(marks, [k \in more |-> TRUE]), cleared)
         /\ Onto(Onto(marks, [k \in more |-> TRUE]), [k \in more |-> TRUE]) = Onto(marks, [k \in more |-> TRUE])
<1>1. MarksFit(Onto(marks, [k \in more |-> TRUE]), cleared)
  BY DEF MarksFit, Onto
<1>2. Onto(Onto(marks, [k \in more |-> TRUE]), [k \in more |-> TRUE]) = Onto(marks, [k \in more |-> TRUE])
  BY DEF Onto
<1>3. QED
  BY <1>1, <1>2

LEMMA ReferencesLink ==
  ASSUME NEW d, NEW s, RowsFit(d, s), NEW u, u = LinkReferences(d)
  PROVE  RowsFit(u, s) /\ OnlyOf(u, d, {"links"}) /\ LinkReferences(u) = u
<1>1. PICK more, links : more = References(d) /\ links = Onto(d.links, [k \in more |-> TRUE])
  OBVIOUS
<1>2. u = [d EXCEPT !.links = links]
  BY <1>1 DEF LinkReferences
<1>3. OnlyOf(u, d, {"links"}) /\ u.links = links
  BY <1>2, TablesAre DEF OnlyOf, IsTables, RowsFit
<1>4. MarksFit(d.links, s.unlinked)
  BY DEF RowsFit
<1>5. MarksFit(links, s.unlinked) /\ Onto(links, [k \in more |-> TRUE]) = links
  BY <1>1, <1>4, MarksMore
<1>6. RowsFit(u, s)
  <2>1. EdgesFit(u, d.edges)
    BY <1>3, EdgesStay
  <2>2. QED
    BY <1>3, <1>5, <2>1, TablesAre DEF OnlyOf, RowsFit
<1>7. References(u) = more
  <2>1. u.orders = d.orders
    BY <1>3, TablesAre DEF OnlyOf
  <2>2. QED
    BY <1>1, <2>1 DEF References
<1>8. LinkReferences(u) = [u EXCEPT !.links = links]
  BY <1>3, <1>5, <1>7 DEF LinkReferences
<1>9. LinkReferences(u) = u
  BY <1>3, <1>8, TablesAre DEF OnlyOf, IsTables
<1>10. QED
  BY <1>3, <1>6, <1>9

LEMMA ItemsLoad ==
  ASSUME NEW d, NEW s, RowsFit(d, s), NEW f, IsFile(f), NEW u, u = LoadItems(d, f.rows)
  PROVE  RowsFit(u, s) /\ OnlyOf(u, d, {"items", "kits"}) /\ LoadItems(u, f.rows) = u
<1>1. PICK read, N, keys, values, table, codes, pairs, kits :
        /\ read = Readable(f.rows) /\ N = Len(f.rows)
        /\ keys = Column(read, "item") /\ values = Column(read, "onHand")
        /\ table = Upserted(d.items, keys, values)
        /\ codes = {read[i].item : i \in DOMAIN read}
        /\ pairs = UNION {{read[i].item} \X read[i].children : i \in DOMAIN read}
        /\ kits = {p \in pairs : p[2] \in codes /\ p[1] # p[2]}
  OBVIOUS
<1>2. /\ N \in Nat /\ DOMAIN read \subseteq 1..N /\ DOMAIN keys = DOMAIN read
      /\ \A i \in DOMAIN read : keys[i] = read[i].item
  BY <1>1 DEF IsFile, Column, Readable, Restrict
<1>3. UpsertFits(table, d.items, keys, values)
  <2>1. IsPlaced(keys)
    BY <1>2 DEF IsPlaced
  <2>2. QED
    BY <1>1, <2>1, UpsertedIs
<1>4. u = [d EXCEPT !.items = table, !.kits = d.kits \cup kits]
  BY <1>1 DEF LoadItems
<1>5. OnlyOf(u, d, {"items", "kits"}) /\ u.items = table /\ u.kits = d.kits \cup kits
  BY <1>4, TablesAre DEF OnlyOf, IsTables, RowsFit
<1>6. KitsFit(d.kits \cup kits, table)
  <2>1. KitsFit(d.kits, d.items)
    BY DEF RowsFit
  <2>2. \A i \in DOMAIN read : read[i].item \in Range(keys)
    BY <1>2 DEF Range
  <2>3. codes \subseteq DOMAIN table /\ DOMAIN d.items \subseteq DOMAIN table
    BY <1>1, <1>3, <2>2 DEF UpsertFits
  <2>4. ASSUME NEW k \in kits PROVE {k[1], k[2]} \subseteq codes
    <3>1. k \in pairs /\ k[2] \in codes
      BY <1>1
    <3>2. PICK i \in DOMAIN read : k \in {read[i].item} \X read[i].children
      BY <1>1, <3>1
    <3>3. k[1] = read[i].item
      BY <3>2
    <3>4. QED
      BY <1>1, <3>1, <3>3
  <2>5. ASSUME NEW k \in d.kits \cup kits PROVE {k[1], k[2]} \subseteq DOMAIN table
    <3>1. CASE k \in kits
      BY <2>3, <2>4, <3>1
    <3>2. CASE k \in d.kits
      BY <2>1, <2>3, <3>2 DEF KitsFit
    <3>3. QED
      BY <3>1, <3>2
  <2>6. QED
    BY <2>5 DEF KitsFit
<1>7. RowsFit(u, s)
  <2>1. EdgesFit(u, d.edges)
    BY <1>5, EdgesStay
  <2>2. QED
    BY <1>5, <1>6, <2>1, TablesAre DEF OnlyOf, RowsFit
<1>8. LoadItems(u, f.rows) = u
  <2>1. Upserted(table, keys, values) = table
    BY <1>1, UpsertedTwice
  <2>2. LoadItems(u, f.rows) = [u EXCEPT !.items = table, !.kits = (d.kits \cup kits) \cup kits]
    BY <1>1, <1>5, <2>1 DEF LoadItems
  <2>3. (d.kits \cup kits) \cup kits = d.kits \cup kits
    OBVIOUS
  <2>4. QED
    BY <1>5, <2>2, <2>3, TablesAre DEF OnlyOf, IsTables
<1>9. QED
  BY <1>5, <1>7, <1>8

LEMMA IssuesKeep ==
  ASSUME NEW d, NEW s, RowsFit(d, s), NEW f \in IssueFiles, IsFile(f), NEW u, u = LoadIssues(d, f.rows)
  PROVE  /\ RowsFit(u, s) /\ OnlyOf(u, d, {"issues", "parts"}) /\ LoadIssues(u, f.rows) = u
         /\ \A i \in DOMAIN GoodRows(f.rows) : ChargedTo(d, GoodRows(f.rows)[i]) # Blank =>
              OccurrenceKey(GoodRows(f.rows), i) \in DOMAIN u.issues
<1>1. IsTables(d) /\ PartsAreBooked(d.issues, d.parts) /\ RowsAreOfFiles(d.issues)
  BY DEF RowsFit
<1>2. /\ BookFit(d, u)
      /\ \A i \in DOMAIN GoodRows(f.rows) : ChargedTo(d, GoodRows(f.rows)[i]) # Blank =>
           OccurrenceKey(GoodRows(f.rows), i) \in DOMAIN u.issues
  BY <1>1, IssuesLoad
<1>3. OnlyOf(u, d, {"issues", "parts"})
  <2>1. DOMAIN d = DOMAIN Tables
    BY <1>1 DEF IsTables
  <2>2. QED
    BY <1>2, <2>1 DEF BookFit, OnlyOf, IsTables
<1>4. RowsFit(u, s)
  <2>1. EdgesFit(u, d.edges)
    BY <1>3, EdgesStay
  <2>2. QED
    BY <1>2, <1>3, <2>1, TablesAre DEF OnlyOf, RowsFit, BookFit
<1>5. \A r : ChargedTo(u, r) = ChargedTo(d, r)
  <2>1. u.items = d.items /\ u.orders = d.orders /\ u.assets = d.assets
    BY <1>3, TablesAre DEF OnlyOf
  <2>2. QED
    BY <2>1 DEF ChargedTo
<1>6. LoadIssues(u, f.rows) = u
  <2>1. PICK rows : rows = f.rows /\ Len(rows) \in Nat
    BY DEF IsFile
  <2>2. \A i \in DOMAIN GoodRows(rows) : ChargedTo(u, GoodRows(rows)[i]) # Blank =>
          OccurrenceKey(GoodRows(rows), i) \in DOMAIN u.issues
    BY <1>2, <1>5, <2>1
  <2>3. LoadIssues(u, rows) = u
    BY <2>1, <2>2, NothingToBook
  <2>4. QED
    BY <2>1, <2>3
<1>7. QED
  BY <1>2, <1>3, <1>4, <1>6

LEMMA ContactsLoad ==
  ASSUME NEW d, NEW s, RowsFit(d, s), NEW f, IsFile(f), f.kind = "contacts",
         NEW u, u = LoadContacts(d, f.rows), NEW r, Remembers(r, s, u, f)
  PROVE  /\ RowsFit(u, r) /\ OnlyOf(u, d, {"orgs", "persons", "aliases"}) /\ LoadContacts(u, f.rows) = u
         /\ DOMAIN u.persons = DOMAIN d.persons \cup (ContactIds(f.rows) \ EffectiveAliases(f.rows))
         /\ DOMAIN u.aliases = DOMAIN d.aliases \cup EffectiveAliases(f.rows)
<1>1. /\ IsMemory(s) /\ IsMemory(r) /\ r.gone = s.gone /\ r.unlinked = s.unlinked /\ r.deleted = s.deleted
      /\ r.blanked = s.blanked /\ r.byHand = s.byHand /\ r.unlisted = s.unlisted
      /\ r.alone = s.alone \cup (ContactIds(f.rows) \ EffectiveAliases(f.rows))
  BY DEF Remembers, RowsFit
<1>2. PICK rows, N, aliases, own, keys, values, persons :
        /\ rows = f.rows /\ N = Len(rows) /\ aliases = EffectiveAliases(rows)
        /\ own = Restrict(rows, {i \in DOMAIN rows : rows[i].contact \notin aliases})
        /\ keys = Column(own, "contact") /\ values = Column(own, "org")
        /\ persons = Upserted(d.persons, keys, values)
  OBVIOUS
<1>3. PICK others, bound, companies, now, orgs :
        /\ others = [a \in aliases |-> PersonAliases[a]] /\ bound = Onto(d.aliases, others)
        /\ companies = {rows[i].org : i \in DOMAIN rows}
        /\ now = [o \in companies \cup SeedOrgs |-> o \in companies] /\ orgs = Onto(now, d.orgs)
  OBVIOUS
<1>4. /\ rows = f.rows /\ N = Len(rows) /\ aliases = EffectiveAliases(rows)
      /\ own = Restrict(rows, {i \in DOMAIN rows : rows[i].contact \notin aliases})
      /\ keys = Column(own, "contact") /\ values = Column(own, "org")
      /\ persons = Upserted(d.persons, keys, values)
      /\ others = [a \in aliases |-> PersonAliases[a]] /\ bound = Onto(d.aliases, others)
      /\ companies = {rows[i].org : i \in DOMAIN rows}
      /\ now = [o \in companies \cup SeedOrgs |-> o \in companies] /\ orgs = Onto(now, d.orgs)
  BY <1>2, <1>3
<1>5. /\ N \in Nat /\ DOMAIN own \subseteq 1..N /\ DOMAIN keys = DOMAIN own
      /\ DOMAIN own = {i \in DOMAIN rows : rows[i].contact \notin aliases}
      /\ \A i \in DOMAIN own : keys[i] = rows[i].contact
  BY <1>4 DEF IsFile, Column, Restrict
<1>6. UpsertFits(persons, d.persons, keys, values)
  <2>1. IsPlaced(keys)
    BY <1>5 DEF IsPlaced
  <2>2. QED
    BY <1>4, <2>1, UpsertedIs
<1>7. Range(keys) = ContactIds(rows) \ aliases
  BY <1>5 DEF Range, ContactIds
<1>8. u = [d EXCEPT !.orgs = orgs, !.persons = persons, !.aliases = bound]
  BY <1>4 DEF LoadContacts
<1>9. OnlyOf(u, d, {"orgs", "persons", "aliases"}) /\ u.orgs = orgs /\ u.persons = persons /\ u.aliases = bound
  BY <1>8, TablesAre DEF OnlyOf, IsTables, RowsFit
<1>10. /\ DOMAIN persons = DOMAIN d.persons \cup (ContactIds(rows) \ aliases)
       /\ DOMAIN bound = DOMAIN d.aliases \cup aliases
       /\ \A a \in DOMAIN d.aliases : bound[a] = d.aliases[a]
       /\ \A a \in aliases \ DOMAIN d.aliases : bound[a] = PersonAliases[a]
  BY <1>4, <1>6, <1>7 DEF UpsertFits, Onto
<1>11. PersonsFit(persons, bound, r.alone)
  <2>1. PersonsFit(d.persons, d.aliases, s.alone)
    BY DEF RowsFit
  <2>2. ASSUME NEW a \in DOMAIN bound PROVE bound[a] = PersonAliases[a] /\ bound[a] \in DOMAIN persons
    <3>1. CASE a \in DOMAIN d.aliases
      BY <1>10, <2>1, <3>1 DEF PersonsFit
    <3>2. CASE a \notin DOMAIN d.aliases
      <4>1. a \in aliases /\ bound[a] = PersonAliases[a]
        BY <1>10, <3>2
      <4>2. a \in DOMAIN PersonAliases /\ PersonAliases[a] \in ContactIds(rows)
        BY <1>4, <4>1 DEF EffectiveAliases
      <4>3. PersonAliases[a] \notin DOMAIN PersonAliases
        BY <4>2, ImportAssumption DEF ImportAssumption
      <4>4. PersonAliases[a] \notin aliases
        BY <1>4, <4>3 DEF EffectiveAliases
      <4>5. QED
        BY <1>10, <4>1, <4>2, <4>4
    <3>3. QED
      BY <3>1, <3>2
  <2>3. DOMAIN persons \subseteq r.alone
    BY <1>4, <1>10, <1>1, <2>1 DEF PersonsFit
  <2>4. QED
    BY <2>2, <2>3 DEF PersonsFit
<1>12. RowsFit(u, r)
  <2>1. EdgesFit(u, d.edges)
    BY <1>9, EdgesStay
  <2>2. QED
    BY <1>1, <1>9, <1>11, <2>1, TablesAre DEF OnlyOf, RowsFit
<1>13. LoadContacts(u, rows) = u
  <2>1. Upserted(persons, keys, values) = persons
    BY <1>4, UpsertedTwice
  <2>2. Onto(now, orgs) = orgs
    BY <1>4 DEF Onto
  <2>3. Onto(bound, others) = bound
    BY <1>4 DEF Onto
  <2>4. LoadContacts(u, rows) = [u EXCEPT !.orgs = Onto(now, orgs), !.persons = Upserted(persons, keys, values),
                                          !.aliases = Onto(bound, others)]
    BY <1>4, <1>9 DEF LoadContacts
  <2>5. LoadContacts(u, rows) = [u EXCEPT !.orgs = orgs, !.persons = persons, !.aliases = bound]
    BY <2>1, <2>2, <2>3, <2>4
  <2>6. QED
    BY <1>9, <2>5, TablesAre DEF OnlyOf, IsTables
<1>14. QED
  BY <1>4, <1>9, <1>10, <1>12, <1>13

LEMMA MediaLoad ==
  ASSUME NEW d, NEW s, RowsFit(d, s), NEW rows, NEW u, u = LoadMedia(d, rows)
  PROVE  RowsFit(u, s) /\ OnlyOf(u, d, {"photos"}) /\ LoadMedia(u, rows) = u
<1>1. PICK more, photos :
        /\ more = {<<rows[i].item, rows[i].photo>> : i \in {j \in DOMAIN rows : rows[j].item \in DOMAIN d.items}}
        /\ photos = Onto(d.photos, [p \in more |-> TRUE])
  OBVIOUS
<1>2. u = [d EXCEPT !.photos = photos]
  BY <1>1 DEF LoadMedia
<1>3. OnlyOf(u, d, {"photos"}) /\ u.photos = photos
  BY <1>2, TablesAre DEF OnlyOf, IsTables, RowsFit
<1>4. MarksFit(d.photos, s.deleted)
  BY DEF RowsFit
<1>5. MarksFit(photos, s.deleted) /\ Onto(photos, [p \in more |-> TRUE]) = photos
  BY <1>1, <1>4, MarksMore
<1>6. RowsFit(u, s)
  <2>1. EdgesFit(u, d.edges)
    BY <1>3, EdgesStay
  <2>2. QED
    BY <1>3, <1>5, <2>1, TablesAre DEF OnlyOf, RowsFit
<1>7. u.items = d.items
  BY <1>3, TablesAre DEF OnlyOf
<1>8. LoadMedia(u, rows) = [u EXCEPT !.photos = photos]
  BY <1>1, <1>3, <1>5, <1>7 DEF LoadMedia
<1>9. LoadMedia(u, rows) = u
  BY <1>3, <1>8, TablesAre DEF OnlyOf, IsTables
<1>10. QED
  BY <1>3, <1>6, <1>9

LEMMA OrderQuantitiesLoad ==
  ASSUME NEW d, NEW s, RowsFit(d, s), NEW rows, NEW u, u = LoadOrderQuantities(d, rows)
  PROVE  RowsFit(u, s) /\ OnlyOf(u, d, {"reorder"}) /\ LoadOrderQuantities(u, rows) = u
<1>1. PICK known, table :
        /\ known = Restrict(rows, {i \in DOMAIN rows : rows[i].item \in DOMAIN d.items /\ \A j \in 1..i : rows[j].good})
        /\ table = Upserted(d.reorder, Column(known, "item"), Column(known, "quantity"))
  OBVIOUS
<1>2. u = [d EXCEPT !.reorder = table]
  BY <1>1 DEF LoadOrderQuantities
<1>3. OnlyOf(u, d, {"reorder"}) /\ u.reorder = table
  BY <1>2, TablesAre DEF OnlyOf, IsTables, RowsFit
<1>4. RowsFit(u, s)
  <2>1. EdgesFit(u, d.edges)
    BY <1>3, EdgesStay
  <2>2. QED
    BY <1>3, <2>1, TablesAre DEF OnlyOf, RowsFit
<1>5. u.items = d.items
  BY <1>3, TablesAre DEF OnlyOf
<1>6. LoadOrderQuantities(u, rows) = [u EXCEPT !.reorder = table]
  <2>1. Upserted(table, Column(known, "item"), Column(known, "quantity")) = table
    BY <1>1, UpsertedTwice
  <2>2. LoadOrderQuantities(u, rows) =
          [u EXCEPT !.reorder = Upserted(table, Column(known, "item"), Column(known, "quantity"))]
    BY <1>1, <1>3, <1>5 DEF LoadOrderQuantities
  <2>3. QED
    BY <2>1, <2>2
<1>7. LoadOrderQuantities(u, rows) = u
  BY <1>3, <1>6, TablesAre DEF OnlyOf, IsTables
<1>8. QED
  BY <1>3, <1>4, <1>7

\* The rows of an order and item, and what is booked on them.
LEMMA HistoryIs ==
  ASSUME NEW d, NEW s, RowsFit(d, s), NEW f \in IssueFiles, \A g \in batch : IsFile(g),
         NEW u, u = LoadIssues(d, f.rows)
  PROVE  /\ u.items = d.items /\ PartsAreBooked(u.issues, u.parts)
         /\ \A w, i : LET n == {j \in IssueRowsOf(GoodRows(f.rows), w, i) : ChargedTo(d, f.rows[j]) # Blank} IN
              Cardinality(n) <= Cardinality(BookedOf(u.issues, w, i))
         /\ \A k \in DOMAIN u.issues : \E g \in IssueFiles :
              Cardinality(BookedOf(u.issues, k[1], k[2])) <= Cardinality(IssueRowsOf(GoodRows(g.rows), k[1], k[2]))
<1>1. /\ RowsFit(u, s) /\ OnlyOf(u, d, {"issues", "parts"})
      /\ \A i \in DOMAIN GoodRows(f.rows) : ChargedTo(d, GoodRows(f.rows)[i]) # Blank =>
           OccurrenceKey(GoodRows(f.rows), i) \in DOMAIN u.issues
  <2>1. IsFile(f)
    BY DEF IssueFiles
  <2>2. QED
    BY <2>1, IssuesKeep
<1>2. u.items = d.items
  BY <1>1, TablesAre DEF OnlyOf
<1>3. PartsAreBooked(u.issues, u.parts) /\ RowsAreOfFiles(u.issues)
  BY <1>1 DEF RowsFit
<1>4. ASSUME NEW g \in IssueFiles
      PROVE  \E N \in Nat : /\ DOMAIN GoodRows(g.rows) \subseteq 1..N
                            /\ \A j \in DOMAIN GoodRows(g.rows) : GoodRows(g.rows)[j] = g.rows[j]
  BY DEF IssueFiles, IsFile, GoodRows, Restrict
<1>5. PICK issues : issues = u.issues /\ IsFiniteSet(DOMAIN issues) /\ RowsAreOfFiles(issues)
  BY <1>3 DEF PartsAreBooked
<1>6. \A w, i : BookedOf(issues, w, i) \in SUBSET DOMAIN issues
  BY DEF BookedOf
<1>7. \A w, i : IsFiniteSet(BookedOf(issues, w, i)) /\ Cardinality(BookedOf(issues, w, i)) \in Nat
  BY <1>5, <1>6, FS_Subset, FS_CardinalityType
<1>8. ASSUME NEW w, NEW i
      PROVE  Cardinality({j \in IssueRowsOf(GoodRows(f.rows), w, i) : ChargedTo(d, f.rows[j]) # Blank})
               <= Cardinality(BookedOf(issues, w, i))
  <2>1. PICK good, N : /\ good = GoodRows(f.rows) /\ N \in Nat /\ DOMAIN good \subseteq 1..N
                       /\ \A j \in DOMAIN good : good[j] = f.rows[j]
    BY <1>4
  <2>2. PICK from, onto : /\ from = {j \in IssueRowsOf(good, w, i) : ChargedTo(d, f.rows[j]) # Blank}
                          /\ onto = BookedOf(issues, w, i)
    OBVIOUS
  <2>3. PICK key : key = [j \in from |-> OccurrenceKey(good, j)]
    OBVIOUS
  <2>4. ASSUME NEW j \in from PROVE j \in DOMAIN good /\ key[j] = OccurrenceKey(good, j) /\ key[j] \in onto
    <3>1. j \in DOMAIN good /\ good[j].wo = w /\ good[j].item = i /\ ChargedTo(d, good[j]) # Blank
      BY <2>1, <2>2 DEF IssueRowsOf
    <3>2. OccurrenceKey(good, j) \in DOMAIN issues
      BY <1>1, <1>5, <2>1, <3>1
    <3>3. OccurrenceKey(good, j)[1] = w /\ OccurrenceKey(good, j)[2] = i
      BY <3>1 DEF OccurrenceKey
    <3>4. QED
      BY <2>2, <2>3, <3>1, <3>2, <3>3 DEF BookedOf
  <2>5. ASSUME NEW a \in from, NEW b \in from, key[a] = key[b] PROVE a = b
    <3>1. /\ a \in DOMAIN good /\ b \in DOMAIN good /\ a \in 1..N /\ b \in 1..N
          /\ OccurrenceKey(good, a) = OccurrenceKey(good, b)
      BY <2>1, <2>4, <2>5
    <3>2. CASE a <= b
      BY <2>1, <3>1, <3>2, OccurrencesDiffer
    <3>3. CASE b <= a
      BY <2>1, <3>1, <3>3, OccurrencesDiffer
    <3>4. QED
      BY <3>1, <3>2, <3>3
  <2>6. key \in Injection(from, onto)
    <3>1. key \in [from -> onto]
      BY <2>3, <2>4
    <3>2. QED
      BY <2>5, <3>1 DEF Injection, IsInjective
  <2>7. IsFiniteSet(onto)
    BY <1>7, <2>2
  <2>8. Cardinality(from) <= Cardinality(onto)
    BY <2>6, <2>7, FS_Injection
  <2>9. QED
    BY <2>1, <2>2, <2>8
<1>9. ASSUME NEW k \in DOMAIN issues
      PROVE  \E g \in IssueFiles :
               Cardinality(BookedOf(issues, k[1], k[2])) <= Cardinality(IssueRowsOf(GoodRows(g.rows), k[1], k[2]))
  <2>1. PICK w, i, b, n : w = k[1] /\ i = k[2] /\ b = BookedOf(issues, w, i) /\ n = Cardinality(b)
    OBVIOUS
  <2>2. ASSUME NEW x \in b
        PROVE  /\ x[3] \in Nat /\ x[3] # 0 /\ x = <<w, i, x[3]>>
               /\ \E g \in IssueFiles : x[3] <= Cardinality(IssueRowsOf(GoodRows(g.rows), w, i))
    <3>1. x \in DOMAIN issues /\ x[1] = w /\ x[2] = i
      BY <2>1 DEF BookedOf
    <3>2. PICK g \in IssueFiles : \E j \in DOMAIN GoodRows(g.rows) : x = OccurrenceKey(GoodRows(g.rows), j)
      BY <1>5, <3>1 DEF RowsAreOfFiles
    <3>3. PICK good, N : good = GoodRows(g.rows) /\ N \in Nat /\ DOMAIN good \subseteq 1..N
      BY <1>4
    <3>4. PICK j \in DOMAIN good : x = OccurrenceKey(good, j)
      BY <3>2, <3>3
    <3>5. PICK m \in Nat : /\ OccurrenceKey(good, j) = <<good[j].wo, good[j].item, m>> /\ m # 0
                           /\ m <= Cardinality(IssueRowsOf(good, good[j].wo, good[j].item))
      BY <3>3, <3>4, KeysAreOfRows
    <3>6. good[j].wo = w /\ good[j].item = i /\ x[3] = m
      BY <3>1, <3>4, <3>5
    <3>7. QED
      BY <3>3, <3>4, <3>5, <3>6
  <2>3. k \in b /\ IsFiniteSet(b) /\ n \in Nat
    BY <1>7, <2>1 DEF BookedOf
  <2>4. n # 0
    BY <2>1, <2>3, FS_EmptySet
  <2>5. \E x \in b : x[3] >= n
    <3>1. SUFFICES ASSUME \A x \in b : ~(x[3] >= n) PROVE FALSE
      OBVIOUS
    <3>2. PICK place : place = [x \in b |-> x[3]]
      OBVIOUS
    <3>3. PICK onto : onto = 1..(n - 1)
      OBVIOUS
    <3>4. \A x \in b : x[3] \in onto
      BY <2>2, <2>3, <2>4, <3>1, <3>3
    <3>5. \A x, y \in b : place[x] = place[y] => x = y
      <4>1. SUFFICES ASSUME NEW x \in b, NEW y \in b, place[x] = place[y] PROVE x = y
        OBVIOUS
      <4>2. x = <<w, i, x[3]>> /\ y = <<w, i, y[3]>> /\ x[3] = y[3]
        BY <2>2, <3>2, <4>1
      <4>3. QED
        BY <4>2
    <3>6. place \in Injection(b, onto)
      <4>1. place \in [b -> onto]
        BY <3>2, <3>4
      <4>2. QED
        BY <3>5, <4>1 DEF Injection, IsInjective
    <3>7. n - 1 \in Int /\ 1 \in Int
      BY <2>3
    <3>8. IsFiniteSet(onto) /\ Cardinality(onto) = IF 1 > n - 1 THEN 0 ELSE n - 1 - 1 + 1
      BY <3>3, <3>7, FS_Interval
    <3>9. n <= Cardinality(onto)
      BY <2>1, <3>6, <3>8, FS_Injection
    <3>10. QED
      BY <2>3, <2>4, <3>8, <3>9
  <2>6. PICK x \in b : x[3] >= n
    BY <2>5
  <2>7. PICK g \in IssueFiles : x[3] <= Cardinality(IssueRowsOf(GoodRows(g.rows), w, i))
    BY <2>2
  <2>8. x[3] \in Nat /\ Cardinality(IssueRowsOf(GoodRows(g.rows), w, i)) \in Nat
    <3>1. PICK N \in Nat : DOMAIN GoodRows(g.rows) \subseteq 1..N
      BY <1>4
    <3>2. IssueRowsOf(GoodRows(g.rows), w, i) \in SUBSET (1..N) /\ 1 \in Int /\ N \in Int
      BY <3>1 DEF IssueRowsOf
    <3>3. IsFiniteSet(1..N)
      BY <3>2, FS_Interval
    <3>4. IsFiniteSet(IssueRowsOf(GoodRows(g.rows), w, i))
      BY <3>2, <3>3, FS_Subset
    <3>5. QED
      BY <2>2, <3>4, FS_CardinalityType
  <2>9. n <= Cardinality(IssueRowsOf(GoodRows(g.rows), w, i))
    BY <2>3, <2>6, <2>7, <2>8
  <2>10. QED
    BY <2>1, <2>9
<1>10. QED
  BY <1>2, <1>3, <1>5, <1>8, <1>9

LEMMA HistoryHolds ==
  ASSUME NEW s, RowsFit(db, s), \A g \in batch : IsFile(g)
  PROVE  HistoryIsBookedOnce
<1>1. ASSUME NEW f \in batch, f.kind = "issues",
             NEW after, after = Load(db, f)
      PROVE  /\ after.items = db.items
             /\ \A j \in DOMAIN GoodRows(f.rows) :
                  Cardinality({n \in {m \in DOMAIN GoodRows(f.rows) : f.rows[m].wo = f.rows[j].wo /\ f.rows[m].item = f.rows[j].item} :
                                 ChargedTo(db, f.rows[n]) # Blank})
                    <= Cardinality({k \in DOMAIN after.issues : k[1] = f.rows[j].wo /\ k[2] = f.rows[j].item})
             /\ \A k \in DOMAIN after.issues : \E g \in {h \in batch : h.kind = "issues"} :
                  Cardinality({l \in DOMAIN after.issues : l[1] = k[1] /\ l[2] = k[2]})
                    <= Cardinality({m \in DOMAIN GoodRows(g.rows) : g.rows[m].wo = k[1] /\ g.rows[m].item = k[2]})
             /\ \A p \in DOMAIN after.parts :
                  after.parts[p] = MapThenSumSet(LAMBDA k : Column(after.issues, "quantity")[k],
                     {k \in {l \in DOMAIN after.issues : l[1] = p[1] /\ l[2] = p[2]} : after.issues[k].to = p[1]})
  <2>1. f \in IssueFiles
    BY <1>1 DEF IssueFiles
  <2>2. after = LoadIssues(db, f.rows)
    BY <1>1, AdmittedIs, MergedIs DEF Load
  <2>3. /\ after.items = db.items /\ PartsAreBooked(after.issues, after.parts)
        /\ \A w, i : LET n == {j \in IssueRowsOf(GoodRows(f.rows), w, i) : ChargedTo(db, f.rows[j]) # Blank} IN
             Cardinality(n) <= Cardinality(BookedOf(after.issues, w, i))
        /\ \A k \in DOMAIN after.issues : \E g \in IssueFiles :
             Cardinality(BookedOf(after.issues, k[1], k[2])) <= Cardinality(IssueRowsOf(GoodRows(g.rows), k[1], k[2]))
    BY <2>1, <2>2, HistoryIs
  <2>4. ASSUME NEW g, NEW w, NEW i
        PROVE  IssueRowsOf(GoodRows(g.rows), w, i) = {m \in DOMAIN GoodRows(g.rows) : g.rows[m].wo = w /\ g.rows[m].item = i}
    <3>1. \A m \in DOMAIN GoodRows(g.rows) : GoodRows(g.rows)[m] = g.rows[m]
      BY DEF GoodRows, Restrict
    <3>2. QED
      BY <3>1 DEF IssueRowsOf
  <2>5. \A w, i : BookedOf(after.issues, w, i) = {k \in DOMAIN after.issues : k[1] = w /\ k[2] = i}
    BY DEF BookedOf
  <2>6. ASSUME NEW j \in DOMAIN GoodRows(f.rows)
        PROVE  Cardinality({n \in {m \in DOMAIN GoodRows(f.rows) : f.rows[m].wo = f.rows[j].wo /\ f.rows[m].item = f.rows[j].item} :
                                 ChargedTo(db, f.rows[n]) # Blank})
                    <= Cardinality({k \in DOMAIN after.issues : k[1] = f.rows[j].wo /\ k[2] = f.rows[j].item})
    <3>1. PICK w, i : w = f.rows[j].wo /\ i = f.rows[j].item
      OBVIOUS
    <3>2. PICK a : a = {m \in DOMAIN GoodRows(f.rows) : f.rows[m].wo = w /\ f.rows[m].item = i}
      OBVIOUS
    <3>3. a = IssueRowsOf(GoodRows(f.rows), w, i)
      BY <2>4, <3>2
    <3>a. PICK charged : charged = {n \in a : ChargedTo(db, f.rows[n]) # Blank}
      OBVIOUS
    <3>b. charged = {n \in IssueRowsOf(GoodRows(f.rows), w, i) : ChargedTo(db, f.rows[n]) # Blank}
      BY <3>3, <3>a
    <3>c. Cardinality({n \in IssueRowsOf(GoodRows(f.rows), w, i) : ChargedTo(db, f.rows[n]) # Blank})
            <= Cardinality(BookedOf(after.issues, w, i))
      BY <2>3
    <3>d. Cardinality(charged) <= Cardinality(BookedOf(after.issues, w, i))
      BY <3>b, <3>c
    <3>4. Cardinality({n \in a : ChargedTo(db, f.rows[n]) # Blank}) <= Cardinality(BookedOf(after.issues, w, i))
      BY <3>a, <3>d
    <3>5. QED
      BY <3>1, <3>2, <3>4 DEF BookedOf
  <2>7. ASSUME NEW k \in DOMAIN after.issues
        PROVE  \E g \in {h \in batch : h.kind = "issues"} :
                  Cardinality({l \in DOMAIN after.issues : l[1] = k[1] /\ l[2] = k[2]})
                    <= Cardinality({m \in DOMAIN GoodRows(g.rows) : g.rows[m].wo = k[1] /\ g.rows[m].item = k[2]})
    <3>1. PICK g \in IssueFiles :
             Cardinality(BookedOf(after.issues, k[1], k[2])) <= Cardinality(IssueRowsOf(GoodRows(g.rows), k[1], k[2]))
      BY <2>3
    <3>2. IssueRowsOf(GoodRows(g.rows), k[1], k[2])
            = {m \in DOMAIN GoodRows(g.rows) : g.rows[m].wo = k[1] /\ g.rows[m].item = k[2]}
      BY <2>4
    <3>3. BookedOf(after.issues, k[1], k[2]) = {l \in DOMAIN after.issues : l[1] = k[1] /\ l[2] = k[2]}
      BY DEF BookedOf
    <3>4. QED
      BY <3>1, <3>2, <3>3 DEF IssueFiles
  <2>8. ASSUME NEW p \in DOMAIN after.parts
        PROVE  after.parts[p] = MapThenSumSet(LAMBDA k : Column(after.issues, "quantity")[k],
                     {k \in {l \in DOMAIN after.issues : l[1] = p[1] /\ l[2] = p[2]} : after.issues[k].to = p[1]})
    <3>1. after.parts[p] = SetSum(Column(after.issues, "quantity"), BookedOn(after.issues, p))
      BY <2>3 DEF PartsAreBooked
    <3>2. QED
      BY <3>1 DEF SetSum, BookedOn, BookedOf
  <2>9. QED
    BY <2>3, <2>6, <2>7, <2>8
<1>2. QED
  BY <1>1 DEF HistoryIsBookedOnce

-----------------------------------------------------------------------------
(***************************************************************************)
(* A file loaded in full, whatever its kind.                               *)
(***************************************************************************)
Remembered(s, u, f) ==
  [s EXCEPT !.blanked = IF f.kind # "orders" THEN @ ELSE BlankedAfter(@, KeptOrders(f.rows)),
            !.alone = IF f.kind # "contacts" THEN @ ELSE @ \cup (ContactIds(f.rows) \ EffectiveAliases(f.rows)),
            !.byHand = IF f.kind = "schedules" /\ f.rows # <<>> THEN {} ELSE @,
            !.unlisted = IF f.kind = "schedules" /\ f.rows # <<>>
                         THEN DOMAIN u.schedules \ Scheduled(f) ELSE @]

LEMMA RememberedIs ==
  ASSUME NEW s, IsMemory(s), NEW u, NEW f
  PROVE  Remembers(Remembered(s, u, f), s, u, f)
BY DEF Remembers, Remembered, IsMemory

LEMMA SameMemory ==
  ASSUME NEW u, NEW s, RowsFit(u, s), NEW r, IsMemory(r), \A c \in DOMAIN s : r[c] = s[c]
  PROVE  RowsFit(u, r)
<1>1. /\ r.gone = s.gone /\ r.unlinked = s.unlinked /\ r.deleted = s.deleted /\ r.blanked = s.blanked
      /\ r.alone = s.alone /\ r.byHand = s.byHand /\ r.unlisted = s.unlisted
  BY DEF RowsFit, IsMemory
<1>2. QED
  BY <1>1 DEF RowsFit

PeopleStay(d, u) == DOMAIN d.persons \subseteq DOMAIN u.persons /\ DOMAIN d.aliases \subseteq DOMAIN u.aliases

LEMMA FileKeeps ==
  ASSUME NEW d, NEW s, RowsFit(d, s), NEW f \in batch, IsFile(f), Admitted(d, f),
         NEW u, u = Merged(d, f), NEW r, r = Remembered(s, u, f)
  PROVE  RowsFit(u, r) /\ Merged(u, f) = u /\ PeopleStay(d, u) /\ LoadedFit(u, {f})
<1>1. IsMemory(s)
  BY DEF RowsFit
<1>2. Remembers(r, s, u, f) /\ IsMemory(r)
  <2>1. Remembers(r, s, u, f)
    BY <1>1, RememberedIs
  <2>2. QED
    BY <2>1 DEF Remembers
<1>3. f.kind \notin {"orders", "contacts", "schedules"} => \A c \in DOMAIN s : r[c] = s[c]
  BY <1>1, <1>2 DEF IsMemory, Remembers
<1>4. f.kind # "contacts" => LoadedFit(u, {f})
  BY DEF LoadedFit
<1>5. ASSUME NEW cs, OnlyOf(u, d, cs), "persons" \notin cs, "aliases" \notin cs PROVE PeopleStay(d, u)
  BY <1>5, TablesAre DEF OnlyOf, PeopleStay
<1>6. CASE f.kind = "assets"
  <2>1. u = LoadAssets(d, f.rows) /\ Merged(u, f) = LoadAssets(u, f.rows)
    BY <1>6, MergedIs
  <2>2. RowsFit(u, s) /\ OnlyOf(u, d, {"assets"}) /\ LoadAssets(u, f.rows) = u
    BY <2>1, AssetsLoad
  <2>3. QED
    BY <1>2, <1>3, <1>4, <1>5, <1>6, <2>1, <2>2, SameMemory
<1>7. CASE f.kind = "relations"
  <2>1. u = LoadRelations(d, f.rows) /\ Merged(u, f) = LoadRelations(u, f.rows)
    BY <1>7, MergedIs
  <2>2. RowsFit(u, s) /\ OnlyOf(u, d, {"edges"}) /\ LoadRelations(u, f.rows) = u
    BY <2>1, RelationsKeep
  <2>3. QED
    BY <1>2, <1>3, <1>4, <1>5, <1>7, <2>1, <2>2, SameMemory
<1>8. CASE f.kind = "tasks"
  <2>1. u = LoadTasks(d, f.rows) /\ Merged(u, f) = LoadTasks(u, f.rows)
    BY <1>8, MergedIs
  <2>2. RowsFit(u, s) /\ OnlyOf(u, d, {"tasks"}) /\ LoadTasks(u, f.rows) = u
    BY <2>1, TasksLoad
  <2>3. QED
    BY <1>2, <1>3, <1>4, <1>5, <1>8, <2>1, <2>2, SameMemory
<1>9. CASE f.kind = "schedules"
  <2>1. u = LoadSchedules(d, f.rows) /\ Merged(u, f) = LoadSchedules(u, f.rows)
    BY <1>9, MergedIs
  <2>2. RowsFit(u, r) /\ OnlyOf(u, d, {"schedules", "tasks"}) /\ LoadSchedules(u, f.rows) = u
    BY <1>2, <1>9, <2>1, SchedulesLoad
  <2>3. QED
    BY <1>4, <1>5, <1>9, <2>1, <2>2
<1>10. CASE f.kind = "orders"
  <2>1. u = LoadOrders(d, f.rows) /\ Merged(u, f) = LoadOrders(u, f.rows)
    BY <1>10, MergedIs
  <2>2. RowsFit(u, r) /\ OnlyOf(u, d, {"orders", "people"}) /\ LoadOrders(u, f.rows) = u
    BY <1>2, <1>10, <2>1, OrdersLoad
  <2>3. QED
    BY <1>4, <1>5, <1>10, <2>1, <2>2
<1>11. CASE f.kind = "references"
  <2>1. u = LinkReferences(d) /\ Merged(u, f) = LinkReferences(u)
    BY <1>11, MergedIs
  <2>2. RowsFit(u, s) /\ OnlyOf(u, d, {"links"}) /\ LinkReferences(u) = u
    BY <2>1, ReferencesLink
  <2>3. QED
    BY <1>2, <1>3, <1>4, <1>5, <1>11, <2>1, <2>2, SameMemory
<1>12. CASE f.kind = "items"
  <2>1. u = LoadItems(d, f.rows) /\ Merged(u, f) = LoadItems(u, f.rows)
    BY <1>12, MergedIs
  <2>2. RowsFit(u, s) /\ OnlyOf(u, d, {"items", "kits"}) /\ LoadItems(u, f.rows) = u
    BY <2>1, ItemsLoad
  <2>3. QED
    BY <1>2, <1>3, <1>4, <1>5, <1>12, <2>1, <2>2, SameMemory
<1>13. CASE f.kind = "issues"
  <2>1. u = LoadIssues(d, f.rows) /\ Merged(u, f) = LoadIssues(u, f.rows) /\ f \in IssueFiles
    BY <1>13, MergedIs DEF IssueFiles
  <2>2. RowsFit(u, s) /\ OnlyOf(u, d, {"issues", "parts"}) /\ LoadIssues(u, f.rows) = u
    BY <2>1, IssuesKeep
  <2>3. QED
    BY <1>2, <1>3, <1>4, <1>5, <1>13, <2>1, <2>2, SameMemory
<1>14. CASE f.kind = "contacts"
  <2>1. u = LoadContacts(d, f.rows) /\ Merged(u, f) = LoadContacts(u, f.rows)
    BY <1>14, MergedIs
  <2>2. /\ RowsFit(u, r) /\ LoadContacts(u, f.rows) = u
        /\ DOMAIN u.persons = DOMAIN d.persons \cup (ContactIds(f.rows) \ EffectiveAliases(f.rows))
        /\ DOMAIN u.aliases = DOMAIN d.aliases \cup EffectiveAliases(f.rows)
    BY <1>2, <1>14, <2>1, ContactsLoad
  <2>3. QED
    BY <2>1, <2>2 DEF PeopleStay, LoadedFit
<1>15. CASE f.kind = "vocabulary"
  <2>1. u = LoadVocabulary(d, f.rows) /\ Merged(u, f) = LoadVocabulary(u, f.rows)
    BY <1>15, MergedIs
  <2>2. RowsFit(u, s) /\ OnlyOf(u, d, {"codes"}) /\ LoadVocabulary(u, f.rows) = u
    BY <2>1, VocabularyLoads
  <2>3. QED
    BY <1>2, <1>3, <1>4, <1>5, <1>15, <2>1, <2>2, SameMemory
<1>16. CASE f.kind = "media"
  <2>1. u = LoadMedia(d, f.rows) /\ Merged(u, f) = LoadMedia(u, f.rows)
    BY <1>16, MergedIs
  <2>2. RowsFit(u, s) /\ OnlyOf(u, d, {"photos"}) /\ LoadMedia(u, f.rows) = u
    BY <2>1, MediaLoad
  <2>3. QED
    BY <1>2, <1>3, <1>4, <1>5, <1>16, <2>1, <2>2, SameMemory
<1>17. CASE f.kind = "order quantities"
  <2>1. u = LoadOrderQuantities(d, f.rows) /\ Merged(u, f) = LoadOrderQuantities(u, f.rows)
    BY <1>17, MergedIs
  <2>2. RowsFit(u, s) /\ OnlyOf(u, d, {"reorder"}) /\ LoadOrderQuantities(u, f.rows) = u
    BY <2>1, OrderQuantitiesLoad
  <2>3. QED
    BY <1>2, <1>3, <1>4, <1>5, <1>17, <2>1, <2>2, SameMemory
<1>18. QED
  BY <1>6, <1>7, <1>8, <1>9, <1>10, <1>11, <1>12, <1>13, <1>14, <1>15, <1>16, <1>17 DEF IsFile, FileKinds

\* A file of pictures or of order quantities that stopped on the way.
LEMMA InterruptedKeeps ==
  ASSUME NEW d, NEW s, RowsFit(d, s), NEW f, DOMAIN f = {"kind", "rows"}, f.kind \in RowByRow, NEW rows,
         NEW u, u = Load(d, [f EXCEPT !.rows = rows])
  PROVE  RowsFit(u, s) /\ PeopleStay(d, u)
<1>1. PICK g : g = [f EXCEPT !.rows = rows]
  OBVIOUS
<1>2. g.kind = f.kind /\ g.rows = rows
  BY <1>1
<1>3. u = Merged(d, g)
  BY <1>1, <1>2, AdmittedIs DEF Load, RowByRow
<1>4. ASSUME NEW cs, OnlyOf(u, d, cs), "persons" \notin cs, "aliases" \notin cs PROVE PeopleStay(d, u)
  BY <1>4, TablesAre DEF OnlyOf, PeopleStay
<1>5. CASE f.kind = "media"
  <2>1. u = LoadMedia(d, rows)
    BY <1>2, <1>3, <1>5, MergedIs
  <2>2. RowsFit(u, s) /\ OnlyOf(u, d, {"photos"})
    BY <2>1, MediaLoad
  <2>3. QED
    BY <1>4, <2>2
<1>6. CASE f.kind = "order quantities"
  <2>1. u = LoadOrderQuantities(d, rows)
    BY <1>2, <1>3, <1>6, MergedIs
  <2>2. RowsFit(u, s) /\ OnlyOf(u, d, {"reorder"})
    BY <2>1, OrderQuantitiesLoad
  <2>3. QED
    BY <1>4, <2>2
<1>7. QED
  BY <1>5, <1>6 DEF RowByRow

-----------------------------------------------------------------------------
(***************************************************************************)
(* What is done in the application.                                        *)
(***************************************************************************)
LEMMA RetireKeeps ==
  ASSUME NEW d, NEW s, RowsFit(d, s), NEW a \in DOMAIN d.assets,
         NEW u, u = [d EXCEPT !.assets[a].active = FALSE], NEW r, r = [s EXCEPT !.gone = @ \cup {a}]
  PROVE  RowsFit(u, r) /\ PeopleStay(d, u)
<1>1. IsTables(d) /\ IsMemory(s) /\ AssetsFit(d.assets, s.gone)
  BY DEF RowsFit
<1>2. PICK assets : assets = [d.assets EXCEPT ![a].active = FALSE]
  OBVIOUS
<1>3. u = [d EXCEPT !.assets = assets]
  BY <1>1, <1>2, TablesAre DEF IsTables
<1>4. OnlyOf(u, d, {"assets"}) /\ u.assets = assets
  BY <1>1, <1>3, TablesAre DEF OnlyOf, IsTables
<1>5. /\ IsMemory(r) /\ r.gone = s.gone \cup {a} /\ r.unlinked = s.unlinked /\ r.deleted = s.deleted
      /\ r.blanked = s.blanked /\ r.alone = s.alone /\ r.byHand = s.byHand /\ r.unlisted = s.unlisted
  BY <1>1 DEF IsMemory
<1>6. DOMAIN assets = DOMAIN d.assets /\ "active" \in DOMAIN d.assets[a]
  BY <1>1, <1>2 DEF AssetsFit
<1>7. \A b \in DOMAIN assets : DOMAIN assets[b] = DOMAIN d.assets[b] /\ (b # a => assets[b] = d.assets[b])
  BY <1>2
<1>8. assets[a].active = FALSE
  BY <1>2, <1>6
<1>9. AssetsFit(assets, r.gone)
  <2>1. s.gone \cup {a} \subseteq DOMAIN assets
    BY <1>1, <1>6 DEF AssetsFit
  <2>2. ASSUME NEW b \in DOMAIN assets
        PROVE  "active" \in DOMAIN assets[b] /\ assets[b].active = (b \notin s.gone \cup {a})
    <3>1. CASE b = a
      BY <1>6, <1>7, <1>8, <3>1
    <3>2. CASE b # a
      BY <1>1, <1>6, <1>7, <3>2 DEF AssetsFit
    <3>3. QED
      BY <3>1, <3>2
  <2>3. QED
    BY <1>5, <2>1, <2>2 DEF AssetsFit
<1>10. DOMAIN d.assets \subseteq DOMAIN u.assets
  BY <1>4, <1>6
<1>11. /\ \A edges : EdgesFit(d, edges) => EdgesFit(u, edges)
       /\ \A x, b, c, h : SchedulesFit(x, b, d.assets, c, h) => SchedulesFit(x, b, u.assets, c, h)
       /\ \A x, b, c : OrdersFit(x, b, d.assets, c) => OrdersFit(x, b, u.assets, c)
  BY <1>10, AssetsGrow
<1>12. RowsFit(u, r)
  BY <1>4, <1>5, <1>9, <1>11, TablesAre DEF OnlyOf, RowsFit
<1>13. PeopleStay(d, u)
  BY <1>4, TablesAre DEF OnlyOf, PeopleStay
<1>14. QED
  BY <1>12, <1>13

LEMMA UnlinkKeeps ==
  ASSUME NEW d, NEW s, RowsFit(d, s), NEW e, NEW u, u = [d EXCEPT !.edges = @ \ {e}]
  PROVE  RowsFit(u, s) /\ PeopleStay(d, u)
<1>1. IsTables(d) /\ EdgesFit(d, d.edges)
  BY DEF RowsFit
<1>2. OnlyOf(u, d, {"edges"}) /\ u.edges = d.edges \ {e}
  BY <1>1, TablesAre DEF OnlyOf, IsTables
<1>3. PICK edges, fewer : edges = d.edges /\ fewer = d.edges \ {e}
  OBVIOUS
<1>4. IsTree(fewer) /\ IsFiniteSet(fewer) /\ fewer \subseteq edges
  <2>1. IsFiniteSet(edges) /\ IsTree(edges) /\ fewer \in SUBSET edges
    BY <1>1, <1>3 DEF EdgesFit
  <2>2. QED
    BY <2>1, PrunedIsTree, FS_Subset
<1>5. EdgesFit(u, fewer)
  <2>1. u.assets = d.assets
    BY <1>2, TablesAre DEF OnlyOf
  <2>2. QED
    BY <1>1, <1>3, <1>4, <2>1 DEF EdgesFit, UnknownEnd
<1>6. RowsFit(u, s)
  BY <1>2, <1>3, <1>5, TablesAre DEF OnlyOf, RowsFit
<1>7. PeopleStay(d, u)
  BY <1>2, TablesAre DEF OnlyOf, PeopleStay
<1>8. QED
  BY <1>6, <1>7

LEMMA TaskKeeps ==
  ASSUME NEW d, NEW s, RowsFit(d, s), NEW t \in DOMAIN d.tasks, NEW active \in BOOLEAN,
         NEW u, u = [d EXCEPT !.tasks[t].active = active], NEW r, r = [s EXCEPT !.byHand = @ \cup {t}]
  PROVE  RowsFit(u, r) /\ PeopleStay(d, u)
<1>1. /\ IsTables(d) /\ IsMemory(s) /\ TasksFit(d.tasks)
      /\ SchedulesFit(d.schedules, d.tasks, d.assets, s.byHand, s.unlisted)
  BY DEF RowsFit
<1>2. PICK tasks : tasks = [d.tasks EXCEPT ![t].active = active]
  OBVIOUS
<1>3. u = [d EXCEPT !.tasks = tasks]
  BY <1>1, <1>2, TablesAre DEF IsTables
<1>4. OnlyOf(u, d, {"tasks"}) /\ u.tasks = tasks
  BY <1>1, <1>3, TablesAre DEF OnlyOf, IsTables
<1>5. /\ IsMemory(r) /\ r.gone = s.gone /\ r.unlinked = s.unlinked /\ r.deleted = s.deleted
      /\ r.blanked = s.blanked /\ r.alone = s.alone /\ r.byHand = s.byHand \cup {t} /\ r.unlisted = s.unlisted
  BY <1>1 DEF IsMemory
<1>6. /\ DOMAIN tasks = DOMAIN d.tasks
      /\ \A k \in DOMAIN tasks : DOMAIN tasks[k] = DOMAIN d.tasks[k] /\ (k # t => tasks[k] = d.tasks[k])
  BY <1>2
<1>7. TasksFit(tasks)
  BY <1>1, <1>6 DEF TasksFit
<1>8. SchedulesFit(d.schedules, tasks, d.assets, r.byHand, r.unlisted)
  <2>1. ASSUME NEW p \in DOMAIN d.schedules
        PROVE  /\ d.schedules[p].asset \in DOMAIN d.assets /\ d.schedules[p].task \in DOMAIN tasks
               /\ ~tasks[d.schedules[p].task].active => d.schedules[p].task \in r.byHand \/ p \in r.unlisted
    <3>1. PICK k \in DOMAIN d.tasks : k = d.schedules[p].task
      BY <1>1 DEF SchedulesFit
    <3>2. CASE k = t
      BY <1>1, <1>5, <1>6, <3>1, <3>2 DEF SchedulesFit
    <3>3. CASE k # t
      BY <1>1, <1>5, <1>6, <3>1, <3>3 DEF SchedulesFit
    <3>4. QED
      BY <3>2, <3>3
  <2>2. QED
    BY <2>1 DEF SchedulesFit
<1>9. RowsFit(u, r)
  <2>1. EdgesFit(u, d.edges)
    BY <1>4, EdgesStay
  <2>2. QED
    BY <1>4, <1>5, <1>7, <1>8, <2>1, TablesAre DEF OnlyOf, RowsFit
<1>10. PeopleStay(d, u)
  BY <1>4, TablesAre DEF OnlyOf, PeopleStay
<1>11. QED
  BY <1>9, <1>10

LEMMA ScheduleKeeps ==
  ASSUME NEW d, NEW s, RowsFit(d, s), NEW p, p.asset \in DOMAIN d.assets, p.task \in DOMAIN d.tasks,
         NEW u, u = [d EXCEPT !.schedules = ScheduleUpserts(@, <<p>>)],
         NEW r, r = [s EXCEPT !.unlisted = @ \cup {p.pm}]
  PROVE  RowsFit(u, r) /\ PeopleStay(d, u)
<1>1. /\ IsTables(d) /\ IsMemory(s)
      /\ SchedulesFit(d.schedules, d.tasks, d.assets, s.byHand, s.unlisted)
  BY DEF RowsFit
<1>2. PICK rows, keys, values, table :
        /\ rows = <<p>> /\ keys = Column(rows, "pm") /\ values = Columns(rows, {"asset", "task"})
        /\ table = Upserted(d.schedules, keys, values)
  OBVIOUS
<1>3. /\ DOMAIN rows = 1..1 /\ DOMAIN keys = 1..1 /\ keys[1] = p.pm
      /\ values[1].asset = p.asset /\ values[1].task = p.task
  BY <1>2 DEF Column, Columns
<1>4. UpsertFits(table, d.schedules, keys, values)
  <2>1. IsPlaced(keys)
    BY <1>3 DEF IsPlaced
  <2>2. QED
    BY <1>2, <2>1, UpsertedIs
<1>5. OnlyOf(u, d, {"schedules"}) /\ u.schedules = table
  BY <1>1, <1>2, TablesAre DEF OnlyOf, IsTables, ScheduleUpserts
<1>6. /\ IsMemory(r) /\ r.gone = s.gone /\ r.unlinked = s.unlinked /\ r.deleted = s.deleted
      /\ r.blanked = s.blanked /\ r.alone = s.alone /\ r.byHand = s.byHand /\ r.unlisted = s.unlisted \cup {p.pm}
  BY <1>1 DEF IsMemory
<1>7. SchedulesFit(table, d.tasks, d.assets, r.byHand, r.unlisted)
  <2>1. ASSUME NEW q \in DOMAIN table
        PROVE  /\ table[q].asset \in DOMAIN d.assets /\ table[q].task \in DOMAIN d.tasks
               /\ ~d.tasks[table[q].task].active => table[q].task \in r.byHand \/ q \in r.unlisted
    <3>1. CASE q \in Range(keys)
      <4>1. PICK i \in DOMAIN keys : keys[i] = q /\ table[q] = values[i]
        BY <1>4, <3>1 DEF UpsertFits
      <4>2. i = 1
        BY <1>3, <4>1
      <4>3. QED
        BY <1>3, <1>6, <4>1, <4>2
    <3>2. CASE q \notin Range(keys)
      <4>1. q \in DOMAIN d.schedules /\ table[q] = d.schedules[q]
        BY <1>4, <2>1, <3>2 DEF UpsertFits
      <4>2. QED
        BY <1>1, <1>6, <4>1 DEF SchedulesFit
    <3>3. QED
      BY <3>1, <3>2
  <2>2. QED
    BY <2>1 DEF SchedulesFit
<1>8. RowsFit(u, r)
  <2>1. EdgesFit(u, d.edges)
    BY <1>5, EdgesStay
  <2>2. QED
    BY <1>5, <1>6, <1>7, <2>1, TablesAre DEF OnlyOf, RowsFit
<1>9. PeopleStay(d, u)
  BY <1>5, TablesAre DEF OnlyOf, PeopleStay
<1>10. QED
  BY <1>8, <1>9

Renamed(u, d, n, names) ==
  u = [d EXCEPT !.people[n] = names, !.orders[n].person = IF names = <<>> THEN Blank ELSE names[1]]

LEMMA AssignKeeps ==
  ASSUME NEW d, NEW s, RowsFit(d, s), NEW n \in DOMAIN d.orders, NEW names,
         NEW u, Renamed(u, d, n, names),
         NEW r, r = [s EXCEPT !.blanked = @ \ {n}]
  PROVE  RowsFit(u, r) /\ PeopleStay(d, u)
<1>1. IsTables(d) /\ IsMemory(s) /\ OrdersFit(d.orders, d.people, d.assets, s.blanked)
  BY DEF RowsFit
<1>2. PICK first, orders, people :
        /\ first = (IF names = <<>> THEN Blank ELSE names[1])
        /\ people = [d.people EXCEPT ![n] = names] /\ orders = [d.orders EXCEPT ![n].person = first]
  OBVIOUS
<1>3. u = [d EXCEPT !.people = people, !.orders = orders]
  BY <1>1, <1>2, TablesAre DEF IsTables, Renamed
<1>4. OnlyOf(u, d, {"orders", "people"}) /\ u.orders = orders /\ u.people = people
  BY <1>1, <1>3, TablesAre DEF OnlyOf, IsTables
<1>5. /\ IsMemory(r) /\ r.gone = s.gone /\ r.unlinked = s.unlinked /\ r.deleted = s.deleted
      /\ r.blanked = s.blanked \ {n} /\ r.alone = s.alone /\ r.byHand = s.byHand /\ r.unlisted = s.unlisted
  BY <1>1 DEF IsMemory
<1>6. /\ DOMAIN orders = DOMAIN d.orders /\ DOMAIN people = DOMAIN orders
      /\ \A m \in DOMAIN orders : m # n => orders[m] = d.orders[m] /\ people[m] = d.people[m]
      /\ people[n] = names /\ DOMAIN orders[n] = DOMAIN d.orders[n]
  BY <1>1, <1>2 DEF OrdersFit
<1>7. orders[n].person = first /\ "person" \in DOMAIN orders[n] /\ orders[n].asset = d.orders[n].asset
  BY <1>1, <1>2, <1>6 DEF OrdersFit
<1>8. OrdersFit(orders, people, d.assets, r.blanked)
  <2>1. ASSUME NEW m \in DOMAIN orders
        PROVE  /\ "person" \in DOMAIN orders[m] /\ orders[m].asset \in DOMAIN d.assets
               /\ m \notin r.blanked => orders[m].person = IF people[m] = <<>> THEN Blank ELSE people[m][1]
    <3>1. CASE m = n
      BY <1>1, <1>2, <1>6, <1>7, <3>1 DEF OrdersFit
    <3>2. CASE m # n
      BY <1>1, <1>5, <1>6, <3>2 DEF OrdersFit
    <3>3. QED
      BY <3>1, <3>2
  <2>2. QED
    BY <1>6, <2>1 DEF OrdersFit
<1>9. RowsFit(u, r)
  <2>1. EdgesFit(u, d.edges)
    BY <1>4, EdgesStay
  <2>2. QED
    BY <1>4, <1>5, <1>8, <2>1, TablesAre DEF OnlyOf, RowsFit
<1>10. PeopleStay(d, u)
  BY <1>4, TablesAre DEF OnlyOf, PeopleStay
<1>11. QED
  BY <1>9, <1>10

LEMMA MarkCleared ==
  ASSUME NEW marks, NEW cleared, MarksFit(marks, cleared), NEW k \in DOMAIN marks
  PROVE  MarksFit([marks EXCEPT ![k] = FALSE], cleared \cup {k})
BY DEF MarksFit

LEMMA RemoveKeeps ==
  ASSUME NEW d, NEW s, RowsFit(d, s), NEW k \in DOMAIN d.links,
         NEW u, u = [d EXCEPT !.links[k] = FALSE], NEW r, r = [s EXCEPT !.unlinked = @ \cup {k}]
  PROVE  RowsFit(u, r) /\ PeopleStay(d, u)
<1>1. IsTables(d) /\ IsMemory(s) /\ MarksFit(d.links, s.unlinked)
  BY DEF RowsFit
<1>2. PICK links : links = [d.links EXCEPT ![k] = FALSE]
  OBVIOUS
<1>3. OnlyOf(u, d, {"links"}) /\ u.links = links
  BY <1>1, <1>2, TablesAre DEF OnlyOf, IsTables
<1>4. /\ IsMemory(r) /\ r.gone = s.gone /\ r.unlinked = s.unlinked \cup {k} /\ r.deleted = s.deleted
      /\ r.blanked = s.blanked /\ r.alone = s.alone /\ r.byHand = s.byHand /\ r.unlisted = s.unlisted
  BY <1>1 DEF IsMemory
<1>5. MarksFit(links, s.unlinked \cup {k})
  BY <1>1, <1>2, MarkCleared
<1>6. RowsFit(u, r)
  <2>1. EdgesFit(u, d.edges)
    BY <1>3, EdgesStay
  <2>2. QED
    BY <1>3, <1>4, <1>5, <2>1, TablesAre DEF OnlyOf, RowsFit
<1>7. PeopleStay(d, u)
  BY <1>3, TablesAre DEF OnlyOf, PeopleStay
<1>8. QED
  BY <1>6, <1>7

LEMMA DeleteKeeps ==
  ASSUME NEW d, NEW s, RowsFit(d, s), NEW p \in DOMAIN d.photos,
         NEW u, u = [d EXCEPT !.photos[p] = FALSE], NEW r, r = [s EXCEPT !.deleted = @ \cup {p}]
  PROVE  RowsFit(u, r) /\ PeopleStay(d, u)
<1>1. IsTables(d) /\ IsMemory(s) /\ MarksFit(d.photos, s.deleted)
  BY DEF RowsFit
<1>2. PICK photos : photos = [d.photos EXCEPT ![p] = FALSE]
  OBVIOUS
<1>3. OnlyOf(u, d, {"photos"}) /\ u.photos = photos
  BY <1>1, <1>2, TablesAre DEF OnlyOf, IsTables
<1>4. /\ IsMemory(r) /\ r.gone = s.gone /\ r.unlinked = s.unlinked /\ r.deleted = s.deleted \cup {p}
      /\ r.blanked = s.blanked /\ r.alone = s.alone /\ r.byHand = s.byHand /\ r.unlisted = s.unlisted
  BY <1>1 DEF IsMemory
<1>5. MarksFit(photos, s.deleted \cup {p})
  BY <1>1, <1>2, MarkCleared
<1>6. RowsFit(u, r)
  <2>1. EdgesFit(u, d.edges)
    BY <1>3, EdgesStay
  <2>2. QED
    BY <1>3, <1>4, <1>5, <2>1, TablesAre DEF OnlyOf, RowsFit
<1>7. PeopleStay(d, u)
  BY <1>3, TablesAre DEF OnlyOf, PeopleStay
<1>8. QED
  BY <1>6, <1>7

LEMMA OrgKeeps ==
  ASSUME NEW d, NEW s, RowsFit(d, s), NEW o, NEW active, NEW u, u = [d EXCEPT !.orgs[o] = active]
  PROVE  RowsFit(u, s) /\ PeopleStay(d, u)
<1>1. IsTables(d)
  BY DEF RowsFit
<1>2. OnlyOf(u, d, {"orgs"})
  BY <1>1, TablesAre DEF OnlyOf, IsTables
<1>3. EdgesFit(u, d.edges)
  BY <1>2, EdgesStay
<1>4. RowsFit(u, s)
  BY <1>2, <1>3, TablesAre DEF OnlyOf, RowsFit
<1>5. PeopleStay(d, u)
  BY <1>2, TablesAre DEF OnlyOf, PeopleStay
<1>6. QED
  BY <1>4, <1>5

-----------------------------------------------------------------------------
(***************************************************************************)
(* The invariant of the loaders.                                           *)
(***************************************************************************)
ImportsFit ==
  /\ batch \in Batches /\ loaded \subseteq batch /\ edits \in 0..MaxEdits
  /\ RowsFit(db, since) /\ LoadedFit(db, loaded)

LEMMA LoadedStay ==
  ASSUME NEW d, NEW u, PeopleStay(d, u), NEW files, LoadedFit(d, files)
  PROVE  LoadedFit(u, files)
BY DEF PeopleStay, LoadedFit

\* Nothing but the batch is read besides the tables and the memory.
LEMMA FitsNext ==
  ASSUME NEW d, NEW u, NEW r, u = db', r = since', RowsFit(u, r), PeopleStay(d, u),
         UNCHANGED batch, batch \in Batches, loaded' \subseteq batch, edits' \in 0..MaxEdits,
         LoadedFit(u, loaded')
  PROVE  ImportsFit'
<1>1. IssueFiles' = IssueFiles
  BY DEF IssueFiles
<1>2. RowsFit(db, since)'
  BY <1>1 DEF RowsFit, RowsAreOfFiles
<1>3. LoadedFit(db, loaded)'
  BY DEF LoadedFit
<1>4. QED
  BY <1>2, <1>3 DEF ImportsFit

LEMMA LoadFileKeeps ==
  ASSUME ImportsFit, NEW f \in batch, LoadFile(f)
  PROVE  ImportsFit'
<1>1. /\ RowsFit(db, since) /\ LoadedFit(db, loaded) /\ IsFile(f) /\ batch \in Batches
      /\ loaded \subseteq batch /\ edits \in 0..MaxEdits
  BY BatchesAreFiles DEF ImportsFit
<1>2. UNCHANGED <<batch, edits>> /\ db' = Load(db, f)
  BY DEF LoadFile
<1>3. PICK u, r : u = db' /\ r = since'
  OBVIOUS
<1>4. CASE ~Admitted(db, f)
  <2>1. u = db /\ r = since /\ loaded' = loaded
    BY <1>3, <1>4 DEF LoadFile, Load
  <2>2. PeopleStay(db, u)
    BY <2>1 DEF PeopleStay
  <2>3. QED
    BY <1>1, <1>2, <1>3, <2>1, <2>2, FitsNext
<1>5. CASE Admitted(db, f)
  <2>1. u = Merged(db, f) /\ r = Remember(f) /\ loaded' = loaded \cup {f}
    BY <1>3, <1>5 DEF LoadFile, Load
  <2>2. r = Remembered(since, u, f)
    BY <1>3, <2>1 DEF Remember, Remembered
  <2>3. RowsFit(u, r) /\ PeopleStay(db, u) /\ LoadedFit(u, {f})
    BY <1>1, <1>5, <2>1, <2>2, FileKeeps
  <2>4. LoadedFit(u, loaded)
    BY <1>1, <2>3, LoadedStay
  <2>5. LoadedFit(u, loaded')
    BY <2>1, <2>3, <2>4 DEF LoadedFit
  <2>6. QED
    BY <1>1, <1>2, <1>3, <2>1, <2>3, <2>5, FitsNext
<1>6. QED
  BY <1>4, <1>5

LEMMA InterruptKeeps ==
  ASSUME ImportsFit, NEW f \in batch, Interrupt(f)
  PROVE  ImportsFit'
<1>1. /\ RowsFit(db, since) /\ LoadedFit(db, loaded) /\ IsFile(f) /\ batch \in Batches
      /\ loaded \subseteq batch /\ edits \in 0..MaxEdits
  BY BatchesAreFiles DEF ImportsFit
<1>2. UNCHANGED <<batch, loaded, since, edits>> /\ f.kind \in RowByRow
  BY DEF Interrupt
<1>3. PICK n : db' = Load(db, [f EXCEPT !.rows = Restrict(@, 1..n)])
  BY DEF Interrupt
<1>4. PICK rows, u : rows = Restrict(f.rows, 1..n) /\ u = db'
  OBVIOUS
<1>5. u = Load(db, [f EXCEPT !.rows = rows]) /\ DOMAIN f = {"kind", "rows"}
  BY <1>1, <1>3, <1>4 DEF IsFile
<1>6. RowsFit(u, since) /\ PeopleStay(db, u)
  BY <1>1, <1>2, <1>5, InterruptedKeeps
<1>7. LoadedFit(u, loaded)
  BY <1>1, <1>6, LoadedStay
<1>8. PICK r : r = since' /\ r = since
  BY <1>2
<1>9. QED
  BY <1>1, <1>2, <1>4, <1>6, <1>7, <1>8, FitsNext

LEMMA EditKeeps ==
  ASSUME ImportsFit, EditRow, NEW u, NEW r, u = db', r = since', RowsFit(u, r), PeopleStay(db, u)
  PROVE  ImportsFit'
<1>1. /\ LoadedFit(db, loaded) /\ batch \in Batches /\ loaded \subseteq batch /\ edits \in 0..MaxEdits
  BY DEF ImportsFit
<1>2. UNCHANGED <<batch, loaded>> /\ edits' \in 0..MaxEdits
  BY <1>1, ImportAssumption DEF EditRow, ImportAssumption
<1>3. LoadedFit(u, loaded)
  BY <1>1, LoadedStay
<1>4. QED
  BY <1>1, <1>2, <1>3, FitsNext

LEMMA ImportsKeep == ImportsFit /\ [ImportNext]_importVars => ImportsFit'
<1> SUFFICES ASSUME ImportsFit, [ImportNext]_importVars PROVE ImportsFit'
  OBVIOUS
<1>0. RowsFit(db, since)
  BY DEF ImportsFit
<1>1. ASSUME NEW f \in batch, LoadFile(f) PROVE ImportsFit'
  BY <1>1, LoadFileKeeps
<1>2. ASSUME NEW f \in batch, Interrupt(f) PROVE ImportsFit'
  BY <1>2, InterruptKeeps
<1> DEFINE u == db'
           r == since'
<1>3. ASSUME NEW a \in DOMAIN db.assets, RetireAsset(a) PROVE ImportsFit'
  <2>1. EditRow /\ u = [db EXCEPT !.assets[a].active = FALSE] /\ r = [since EXCEPT !.gone = @ \cup {a}]
    BY <1>3 DEF RetireAsset
  <2> HIDE DEF u, r
  <2>2. RowsFit(u, r) /\ PeopleStay(db, u)
    BY <1>0, <2>1, RetireKeeps
  <2>3. QED
    BY <2>1, <2>2, EditKeeps DEF u, r
<1>4. ASSUME NEW e \in db.edges, UnlinkEdge(e) PROVE ImportsFit'
  <2>1. EditRow /\ u = [db EXCEPT !.edges = @ \ {e}] /\ r = since
    BY <1>4 DEF UnlinkEdge
  <2> HIDE DEF u, r
  <2>2. RowsFit(u, r) /\ PeopleStay(db, u)
    BY <1>0, <2>1, UnlinkKeeps
  <2>3. QED
    BY <2>1, <2>2, EditKeeps DEF u, r
<1>5. ASSUME NEW t \in DOMAIN db.tasks, NEW active \in BOOLEAN, SetTaskActive(t, active) PROVE ImportsFit'
  <2>1. EditRow /\ u = [db EXCEPT !.tasks[t].active = active] /\ r = [since EXCEPT !.byHand = @ \cup {t}]
    BY <1>5 DEF SetTaskActive
  <2> HIDE DEF u, r
  <2>2. RowsFit(u, r) /\ PeopleStay(db, u)
    BY <1>0, <2>1, TaskKeeps
  <2>3. QED
    BY <2>1, <2>2, EditKeeps DEF u, r
<1>6. ASSUME NEW s \in NewSchedules, AddSchedule(s) PROVE ImportsFit'
  <2>1. /\ EditRow /\ s.asset \in DOMAIN db.assets /\ s.task \in DOMAIN db.tasks
        /\ u = [db EXCEPT !.schedules = ScheduleUpserts(@, <<s>>)]
        /\ r = [since EXCEPT !.unlisted = @ \cup {s.pm}]
    BY <1>6 DEF AddSchedule
  <2> HIDE DEF u, r
  <2>2. RowsFit(u, r) /\ PeopleStay(db, u)
    BY <1>0, <2>1, ScheduleKeeps
  <2>3. QED
    BY <2>1, <2>2, EditKeeps DEF u, r
<1>7. ASSUME NEW n \in DOMAIN db.orders, NEW names, AssignOrder(n, names) PROVE ImportsFit'
  <2>1. EditRow /\ Renamed(u, db, n, names) /\ r = [since EXCEPT !.blanked = @ \ {n}]
    BY <1>7 DEF AssignOrder, Renamed
  <2> HIDE DEF u, r
  <2>2. RowsFit(u, r) /\ PeopleStay(db, u)
    BY <1>0, <2>1, AssignKeeps
  <2>3. QED
    BY <2>1, <2>2, EditKeeps DEF u, r
<1>8. ASSUME NEW k \in DOMAIN db.links, RemoveLink(k) PROVE ImportsFit'
  <2>1. EditRow /\ u = [db EXCEPT !.links[k] = FALSE] /\ r = [since EXCEPT !.unlinked = @ \cup {k}]
    BY <1>8 DEF RemoveLink
  <2> HIDE DEF u, r
  <2>2. RowsFit(u, r) /\ PeopleStay(db, u)
    BY <1>0, <2>1, RemoveKeeps
  <2>3. QED
    BY <2>1, <2>2, EditKeeps DEF u, r
<1>9. ASSUME NEW p \in DOMAIN db.photos, DeletePhoto(p) PROVE ImportsFit'
  <2>1. EditRow /\ u = [db EXCEPT !.photos[p] = FALSE] /\ r = [since EXCEPT !.deleted = @ \cup {p}]
    BY <1>9 DEF DeletePhoto
  <2> HIDE DEF u, r
  <2>2. RowsFit(u, r) /\ PeopleStay(db, u)
    BY <1>0, <2>1, DeleteKeeps
  <2>3. QED
    BY <2>1, <2>2, EditKeeps DEF u, r
<1>10. ASSUME NEW o \in DOMAIN db.orgs, NEW active \in BOOLEAN, SetOrgActive(o, active) PROVE ImportsFit'
  <2>1. EditRow /\ u = [db EXCEPT !.orgs[o] = active] /\ r = since
    BY <1>10 DEF SetOrgActive
  <2> HIDE DEF u, r
  <2>2. RowsFit(u, r) /\ PeopleStay(db, u)
    BY <1>0, <2>1, OrgKeeps
  <2>3. QED
    BY <2>1, <2>2, EditKeeps DEF u, r
<1>11. CASE UNCHANGED importVars
  BY <1>11 DEF importVars, ImportsFit, RowsFit, RowsAreOfFiles, IssueFiles, LoadedFit
<1>12. QED
  BY <1>1, <1>2, <1>3, <1>4, <1>5, <1>6, <1>7, <1>8, <1>9, <1>10, <1>11 DEF ImportNext

LEMMA ImportsStart == ImportInit => ImportsFit
<1> SUFFICES ASSUME ImportInit PROVE ImportsFit
  OBVIOUS
<1>1. batch \in Batches /\ db = Tables /\ loaded = {} /\ edits = 0
  BY DEF ImportInit
<1>2. IsMemory(since) /\ \A c \in DOMAIN since : since[c] = {}
  BY DEF ImportInit, IsMemory
<1>3. IsTables(db)
  BY <1>1, TablesAre DEF IsTables, Tables
<1>4. /\ \A c \in DOMAIN Tables \ {"edges", "kits"} : DOMAIN db[c] = {}
      /\ db.edges = {} /\ db.kits = {}
  BY <1>1 DEF Tables, NoRows
<1>5. EdgesFit(db, {})
  <2>1. IsFiniteSet({})
    BY FS_EmptySet
  <2>2. QED
    BY <2>1 DEF EdgesFit, IsTree, Contained
<1>6. /\ DOMAIN db.assets = {} /\ DOMAIN db.links = {} /\ DOMAIN db.photos = {} /\ DOMAIN db.tasks = {}
      /\ DOMAIN db.schedules = {} /\ DOMAIN db.orders = {} /\ DOMAIN db.people = {} /\ DOMAIN db.persons = {}
      /\ DOMAIN db.aliases = {} /\ DOMAIN db.issues = {} /\ DOMAIN db.parts = {}
  BY <1>4, TablesAre
<1>7. /\ since.gone = {} /\ since.unlinked = {} /\ since.deleted = {}
  BY <1>2 DEF IsMemory
<1>8. PartsAreBooked(db.issues, db.parts) /\ RowsAreOfFiles(db.issues)
  <2>1. IsFiniteSet({})
    BY FS_EmptySet
  <2>2. QED
    BY <1>6, <2>1 DEF PartsAreBooked, RowsAreOfFiles
<1>9. /\ AssetsFit(db.assets, since.gone) /\ MarksFit(db.links, since.unlinked)
      /\ MarksFit(db.photos, since.deleted) /\ TasksFit(db.tasks)
      /\ SchedulesFit(db.schedules, db.tasks, db.assets, since.byHand, since.unlisted)
      /\ OrdersFit(db.orders, db.people, db.assets, since.blanked)
      /\ KitsFit(db.kits, db.items) /\ PersonsFit(db.persons, db.aliases, since.alone)
  BY <1>4, <1>6, <1>7 DEF AssetsFit, MarksFit, TasksFit, SchedulesFit, OrdersFit, KitsFit, PersonsFit
<1>10. RowsFit(db, since)
  BY <1>2, <1>3, <1>4, <1>5, <1>8, <1>9 DEF RowsFit
<1>11. LoadedFit(db, loaded)
  BY <1>1 DEF LoadedFit
<1>12. QED
  BY <1>1, <1>10, <1>11, ImportAssumption DEF ImportsFit, ImportAssumption

LEMMA ImportsSound == ImportsFit => MasterDataIsSound
<1> SUFFICES ASSUME ImportsFit PROVE MasterDataIsSound
  OBVIOUS
<1>1. /\ batch \in Batches /\ loaded \subseteq batch /\ edits \in 0..MaxEdits
      /\ RowsFit(db, since) /\ LoadedFit(db, loaded)
  BY DEF ImportsFit
<1>2. \A f \in batch : IsFile(f)
  BY <1>1, BatchesAreFiles
<1>3. ReferencesHold
  <2>1. DOMAIN db \in {DOMAIN Tables}
    BY <1>1 DEF RowsFit, IsTables
  <2>2. \A e \in db.edges : ~UnknownEnd(db, e)
    BY <1>1 DEF RowsFit, EdgesFit
  <2>3. \A s \in DOMAIN db.schedules : /\ db.schedules[s].asset \in DOMAIN db.assets
                                       /\ db.schedules[s].task \in DOMAIN db.tasks
    BY <1>1 DEF RowsFit, SchedulesFit
  <2>4. DOMAIN db.people = DOMAIN db.orders /\ \A n \in DOMAIN db.orders : db.orders[n].asset \in DOMAIN db.assets
    BY <1>1 DEF RowsFit, OrdersFit
  <2>5. /\ \A k \in db.kits : {k[1], k[2]} \subseteq DOMAIN db.items
        /\ \A a \in DOMAIN db.aliases : db.aliases[a] \in DOMAIN db.persons
    BY <1>1 DEF RowsFit, KitsFit, PersonsFit
  <2>6. QED
    BY <1>1, <2>1, <2>2, <2>3, <2>4, <2>5 DEF ReferencesHold
<1>4. ReloadIsIdle
  <2>1. ASSUME NEW f \in batch, NEW once, once = Load(db, f) PROVE Load(once, f) = once
    <3>1. CASE ~Admitted(db, f)
      BY <2>1, <3>1 DEF Load
    <3>2. CASE Admitted(db, f)
      <4>1. PICK u, r : u = Merged(db, f) /\ r = Remembered(since, u, f)
        OBVIOUS
      <4>2. RowsFit(u, r) /\ Merged(u, f) = u /\ PeopleStay(db, u) /\ LoadedFit(u, {f})
        BY <1>1, <1>2, <3>2, <4>1, FileKeeps
      <4>3. once = u
        BY <2>1, <3>2, <4>1 DEF Load
      <4>4. QED
        BY <4>2, <4>3 DEF Load
    <3>3. QED
      BY <3>1, <3>2
  <2>2. QED
    BY <2>1 DEF ReloadIsIdle
<1>5. EdgesAreAccounted
  <2>1. ASSUME NEW f \in batch, f.kind = "relations", NEW after, after = Load(db, f)
        PROVE  /\ \A i \in DOMAIN Classified(f.rows) : Accounted(db, after.edges, Classified(f.rows)[i])
               /\ IsTree(after.edges)
    <3>1. after = LoadRelations(db, f.rows) /\ IsFile(f)
      BY <1>2, <2>1, AdmittedIs, MergedIs DEF Load
    <3>2. /\ RowsFit(after, since)
          /\ \A i \in DOMAIN Classified(f.rows) : Accounted(db, after.edges, Classified(f.rows)[i])
      BY <1>1, <3>1, RelationsKeep
    <3>3. QED
      BY <3>2 DEF RowsFit, EdgesFit
  <2>2. QED
    BY <2>1 DEF EdgesAreAccounted, Accounted, IsTree
<1>6. GoneStaysGone
  BY <1>1 DEF RowsFit, AssetsFit, MarksFit, GoneStaysGone
<1>7. IdleTasksAreUnlisted
  BY <1>1 DEF RowsFit, SchedulesFit, IdleTasksAreUnlisted
<1>8. AssigneesAgree
  BY <1>1 DEF RowsFit, OrdersFit, AssigneesAgree
<1>9. HistoryIsBookedOnce
  BY <1>1, <1>2, HistoryHolds
<1>10. ContactsResolve
  <2>1. ASSUME NEW f \in loaded, f.kind = "contacts", NEW c \in ContactIds(f.rows)
        PROVE  /\ ResolvesTo(db, c) \in DOMAIN db.persons
               /\ c \in EffectiveAliases(f.rows) \ since.alone => ResolvesTo(db, c) = PersonAliases[c]
    <3>1. /\ EffectiveAliases(f.rows) \subseteq DOMAIN db.aliases
          /\ ContactIds(f.rows) \ EffectiveAliases(f.rows) \subseteq DOMAIN db.persons
      BY <1>1, <2>1 DEF LoadedFit
    <3>2. PersonsFit(db.persons, db.aliases, since.alone)
      BY <1>1 DEF RowsFit
    <3>3. QED
      BY <2>1, <3>1, <3>2 DEF PersonsFit, ResolvesTo
  <2>2. QED
    BY <2>1 DEF ContactsResolve
<1>11. QED
  BY <1>3, <1>4, <1>5, <1>6, <1>7, <1>8, <1>9, <1>10 DEF MasterDataIsSound

\* Whatever files are loaded, in whatever order and however often, and whatever is edited
\* meanwhile: a second load changes nothing, every row refers to rows that are there, the
\* relations stay a tree that accounts for every relation of a file, the past is booked once,
\* and what was retired, removed or assigned through the application stays so.
THEOREM ImportsHold == ImportSpec => []MasterDataIsSound
<1>1. ImportInit => ImportsFit
  BY ImportsStart
<1>2. ImportsFit /\ [ImportNext]_importVars => ImportsFit'
  BY ImportsKeep
<1>3. ImportsFit => MasterDataIsSound
  BY ImportsSound
<1>4. QED
  BY <1>1, <1>2, <1>3, PTL DEF ImportSpec
=============================================================================
