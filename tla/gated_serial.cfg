SPECIFICATION Spec
CONSTANTS
  r1 = r1  r2 = r2  p1 = p1  p2 = p2  h1 = h1  w1 = w1  a1 = a1
  x1 = x1  b1 = b1  s1 = s1  c1 = c1  k1 = k1
  None = None
  Requests = {r1}
  Proposals = {p1, p2}
  Humans = {h1}
  WorkOrders = {w1}
  Assets = {}
  Items = {x1}
  Bins = {b1}
  Suppliers = {s1}
  Codes = {}
  Keys = {k1}
  Intents <- SerialIntents
SYMMETRY ProposalSymmetry
INVARIANTS OnePendingPerSubject
PROPERTIES LedgerSpec
