------------------------------ MODULE MCStock ------------------------------
(***************************************************************************)
(* Stock, the loaders of the legacy files, the replay of a synthetic       *)
(* world and the back ends of the Hermes gateway for TLC.  They share no   *)
(* state: a behaviour is of one of them (topic), and the others rest.      *)
(*                                                                         *)
(* Where requests of Stock overlap, all of them send the form of one       *)
(* nonce, the ledger stops short of its bound, no work order ends and no   *)
(* more is taken than there is: an end and an empty shelf concern only     *)
(* what is said of turns.                                                  *)
(***************************************************************************)
EXTENDS Stock, Imports, SeedReplay, Backends, TLC

CONSTANTS
  r1, r2, w1, a1, n1, n2,
  f1, f2, f3, t1, t2, p1, p2, p3, d1, d2, u1, u2, i1, i2, x1,
  g1, h1, h2, c1, c2, k2,
  m1, m2, k1, o1,
  j1, j2

VARIABLE topic

allVars == <<vars, importVars, seedVars, backendVars, topic>>

-----------------------------------------------------------------------------
(***************************************************************************)
(* The files of the loaders.                                               *)
(***************************************************************************)
File(kind, rows) == [kind |-> kind, rows |-> rows]
A(a, line) == [good |-> TRUE, asset |-> a, line |-> line]
Rel(p, c) == [parent |-> p, child |-> c]
T(t, text) == [good |-> TRUE, task |-> t, text |-> text]
S(p, a, t) == [good |-> TRUE, pm |-> p, asset |-> a, task |-> t]
O(n, a, s, u, ref) == [good |-> TRUE, no |-> n, asset |-> a, status |-> s, person |-> u, ref |-> ref, miscreated |-> FALSE]
I(i, q, kids) == [good |-> TRUE, line |-> "whole", item |-> i, onHand |-> q, children |-> kids]
Iss(w, i, a, q) == [good |-> TRUE, wo |-> w, item |-> i, asset |-> a, quantity |-> q]
C(c, o) == [good |-> TRUE, contact |-> c, org |-> o]
V(l, x) == [good |-> TRUE, label |-> l, text |-> x]
Bad(r) == [r EXCEPT !.good = FALSE]

Plant == {File("assets", <<A(f1, 1), A(f2, 1)>>), File("assets", <<A(f2, 2), A(f3, 1)>>),
          File("relations", <<Rel(f1, f2), Rel(f2, f3), Rel(f3, f1), Rel(f1, f1), Rel(f1, Blank), Rel(f1, f2)>>),
          File("relations", <<Rel(f1, f3), Rel(f2, f3), Rel(f1, d1)>>)}
Upkeep == {File("assets", <<A(f1, 1), A(f2, 1)>>), File("tasks", <<T(t1, 1), T(t2, 1)>>),
           File("schedules", <<S(p1, f1, t1), S(p2, f1, t2)>>), File("schedules", <<S(p1, f1, t2)>>),
           File("schedules", <<>>), File("tasks", <<T(t1, 2), Bad(T(t2, 2))>>)}
OrderBatch == {File("assets", <<A(f1, 1)>>),
               File("orders", <<O(d1, f1, "O", u1, x1), O(d2, f1, "H", Blank, Blank)>>),
               File("orders", <<O(d1, f1, "O", Blank, x1), [Bad(O(d2, f2, "H", Blank, Blank)) EXCEPT !.miscreated = TRUE]>>),
               File("references", <<>>)}
StoreBatch == {File("assets", <<A(f1, 1)>>), File("orders", <<O(d1, f1, "O", u1, Blank)>>),
               File("items", <<I(i1, 3, {i1, i2}), [I(i2, 1, {}) EXCEPT !.line = "lost"]>>),
               File("items", <<I(i2, 2, {i1}), [I(i1, 4, {}) EXCEPT !.line = "repaired"]>>),
               File("issues", <<Iss(d1, i1, f1, 1), Bad(Iss(d1, i1, f1, 1)), Iss(d1, i1, f1, 2), Iss(d2, i2, Blank, 1)>>),
               File("media", <<[item |-> i1, photo |-> g1], [item |-> i2, photo |-> g1]>>),
               File("order quantities", <<[good |-> TRUE, item |-> i1, quantity |-> 5], Bad([good |-> TRUE, item |-> i2, quantity |-> 5])>>)}
People == {File("contacts", <<C(h1, c1), C(h2, c2)>>), File("contacts", <<C(h2, c2)>>), File("contacts", <<C(h1, k2)>>),
           File("vocabulary", <<V(t1, 1), V(Blank, 1), V(t2, 1)>>), File("vocabulary", <<V(t1, 2), V(t1, 1)>>)}
BatchesDef == {{}, Plant, Upkeep, OrderBatch, StoreBatch, People}
AliasDef == h2 :> h1
NewDef == {S(p3, f1, t1), S(p3, f2, t1)}
-----------------------------------------------------------------------------
(***************************************************************************)
(* The ledgers of the replay.                                              *)
(***************************************************************************)
Ev(kind) == [kind |-> kind, role |-> "admin", asset |-> m1, parent |-> Nil, area |-> TRUE,
             item |-> Nil, wo |-> Nil, from |-> "", to |-> ""]
Define(a, p) == [Ev("define") EXCEPT !.asset = a, !.parent = p]
Item == [Ev("item") EXCEPT !.item = k1]
Opening(a, role) == [Ev("open") EXCEPT !.asset = a, !.wo = o1, !.role = role]
Moving(from, to, role) == [Ev("status") EXCEPT !.wo = o1, !.from = from, !.to = to, !.role = role]
PartOf(role) == [Ev("part") EXCEPT !.wo = o1, !.item = k1, !.role = role]

\* The n-th line, at time n.
Lines(evs) == [n \in DOMAIN evs |-> evs[n] @@ [good |-> TRUE, seq |-> n, at |-> n]]

Beginnings == {<<Define(m1, m2), Define(m2, Nil), Opening(m1, "operator")>>,
               <<Define(m1, m2), Ev("skip"), Define(m2, m1), Opening(m1, "operator")>>,
               <<Define(m2, m1), Define(m1, m2), Item, Opening(m1, "operator")>>,
               <<Define(m1, Nil), Define(m1, Nil), Item, Item, Opening(m1, "admin")>>}
Moves == {Moving("OPEN", "IN_PROGRESS", "engineer"), Moving("OPEN", "COMPLETED", "engineer"),
          Moving("OPEN", "CANCELLED", "operator"), Moving("IN_PROGRESS", "CANCELLED", "engineer"),
          Moving("IN_PROGRESS", "CANCELLED", "admin"), PartOf("engineer"), PartOf("operator")}
\* A torn line, and one that is late.
Torn(lines) == [n \in DOMAIN lines |-> CASE n = 2 -> [lines[n] EXCEPT !.good = FALSE]
                                        [] n = 4 -> [lines[n] EXCEPT !.seq = 1]
                                        [] OTHER -> lines[n]]
LedgersDef ==
  LET whole == {Lines(b \o <<x, y>>) : b \in Beginnings, x \in Moves, y \in Moves}
      hurt == {Torn(Lines(b \o <<PartOf("engineer")>>)) : b \in Beginnings}
      refusing == {Lines(b \o <<Moving("OPEN", "COMPLETED", "operator"), Moving("OPEN", "IN_PROGRESS", "engineer"),
                                 Moving("IN_PROGRESS", "COMPLETED", "engineer")>>) : b \in Beginnings}
      \* Exposed but for the last two lines.
      growing == refusing \cup {Lines(b \o <<Moving("OPEN", "IN_PROGRESS", "engineer"), PartOf("engineer")>>) :
                                  b \in Beginnings}
  IN  {[print |-> l, lines |-> l] : l \in whole \cup hurt \cup refusing}
        \cup {[print |-> l, lines |-> SubSeq(l, 1, Len(l) - 2)] : l \in growing}
OthersDef == {LET l == Lines(<<Define(m1, Nil), Opening(m1, "admin"), Moving("OPEN","IN_PROGRESS","engineer")>>)
              IN  [print |-> l, lines |-> l]}
-----------------------------------------------------------------------------
MCInit ==
  /\ Init /\ ImportInit /\ SeedInit /\ BackendsInit
  /\ topic \in {"stock", "imports", "seed", "backends"}
  /\ topic # "stock" => turns
  /\ topic # "imports" => batch = {}
  /\ topic # "seed" => eventLog = CHOOSE l \in Ledgers : TRUE
  /\ topic # "backends" => backend = "codex"

\* The forms that were sent all carry the same nonce, or none.
OneNonce ==
  LET keys == {ledger'[i].key : i \in DOMAIN ledger'}
                \cup {req'[r].key : r \in {q \in Requests : req'[q] # Idle}}
  IN  \E n \in Nonces : \A key \in keys : key.nonce \in {n, None}

Full == drawn' = MaxLedger

StockNext ==
  /\ Next
  /\ IF turns THEN OneNonce \/ ~Full ELSE OneNonce /\ ~Full /\ over' = {} /\ onHand' >= 0

\* A ledger is made anew once, between two runs that did not fail.
ReplayNext ==
  /\ SeedNext
  /\ eventLog'.print # eventLog.print =>
       replay.pc = "none" /\ crashes = 0 /\ eventLog.lines[2].kind = "skip"

MCNext ==
  /\ \/ topic = "stock" /\ StockNext /\ UNCHANGED <<importVars, seedVars, backendVars>>
     \/ topic = "imports" /\ ImportNext /\ UNCHANGED <<vars, seedVars, backendVars>>
     \/ topic = "seed" /\ ReplayNext /\ UNCHANGED <<vars, importVars, backendVars>>
     \/ topic = "backends" /\ BackendsNext /\ UNCHANGED <<vars, importVars, seedVars>>
  /\ UNCHANGED topic

MCSpec == MCInit /\ [][MCNext]_allVars

Symmetry == Permutations(Requests) \cup Permutations(Nonces)

=============================================================================
