SPECIFICATION MCSpec
CONSTANTS
  r1 = r1  r2 = r2  w1 = w1  a1 = a1  n1 = n1  n2 = n2
  None = None  Nil = Nil  Blank = Blank
  Requests = {r1, r2}
  WorkOrders = {w1}
  Assets = {a1}
  Nonces = {n1, n2}
  LegacyRows = {1}
  Quantities = {1, 2}
  FirstOnHand = 2
  MaxLedger = 4
  f1 = f1  f2 = f2  f3 = f3  t1 = t1  t2 = t2  p1 = p1  p2 = p2  p3 = p3  d1 = d1  d2 = d2
  u1 = u1  u2 = u2  i1 = i1  i2 = i2  x1 = x1  g1 = g1  h1 = h1  h2 = h2  c1 = c1  c2 = c2  k2 = k2
  Batches <- BatchesDef
  PersonAliases <- AliasDef
  NewSchedules <- NewDef
  SeedOrgs = {k2}
  CuratedSkip = {d1}
  Persons = {u1, u2}
  MaxEdits = 2
  m1 = m1  m2 = m2  k1 = k1  o1 = o1
  Machines = {m1, m2}
  SeedItems = {k1}
  SeedOrders = {o1}
  Ledgers <- LedgersDef
  Others <- OthersDef
  CutOffs = {2, 4, 9}
  OnHandSeed = 2
  MaxCrashes = 1
  j1 = j1  j2 = j2
  Jobs = {j1, j2}
  Slots = 1
  MaxTurns = 2
SYMMETRY Symmetry
INVARIANTS StockIsSound MasterDataIsSound ReplayIsSound BackendsAreSound
PROPERTIES AmendingIsGuarded
CHECK_DEADLOCK FALSE
