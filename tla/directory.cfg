SPECIFICATION MCSpec
CONSTANTS
  u1 = u1  u2 = u2  u3 = u3  c1 = c1  c2 = c2  a1 = a1  a2 = a2  a3 = a3
  p1 = p1  p2 = p2  x1 = x1  cm = cm  bd = bd  i1 = i1
  Users = {u1, u2, u3}
  Admins = {u1, u2}
  Calls = {c1, c2}
  MaxSessions = 2
  MaxTokens = 2
  MaxPasswords = 3
  Slots = {s1}
  Keepers = {c1, c2}
  MaxCreds = 3
  Assets = {a1, a2, a3}
  FirstAssets = {a1, a2}
  Persons = {p1, p2}
  OwnerLists <- OwnerListsDef
  ExternalIds = {x1}
  Edits = {c1, c2}
  MaxEdges = 3
  NoAsset = NoAsset
  Members = {u1, u2}
  Chats = {h1, h2}
  Updates = {n1, n2}
  MaxCodes = 2
  MaxDeliveries = 2
  MaxCrashes = 1
  NoChat = NoChat
  Turns = {c1, c2}
  MaxOpen = 1
  MaxConversations = 2
  MaxMessages = 3
  Targets = {cm, bd}
  CmmsTarget = cm
  Sources = {v1}
  Asks = {c1, c2}
  Concurrency = 1
  DailyBudget <- TwoEach
  MonthlyBudget = 3
  QuestionLimit <- OneEach
  MaxCost = 1
  MonthLength = 2
  LastDay = 2
  Holders = {o1}
  Contents = {x1, x2}
  Uploads = {c1, c2}
  MaxPhotos = 2
  MaxStops = 2
  Contacts = {1, 2}
  Inquiries = {q1}
  Buyers = {c1, c2}
  Editors = {c1, c2}
  NoContact = NoContact
  MaxMails = 2
  MaxUpsets = 1
  ReportKeys = {r1}
  Posts = {c1, c2}
  Hands = {c1, c2}
  StepFile <- StepFileDef
  Spares = {i1}
  Desks = {c1, c2}
  MaxSteps = 2
INVARIANTS IdentityIsSound AssetsAreSound AssistantIsSound GatewayKeepsLimits PaperworkIsSound
PROPERTIES IdentityStepsKept
CHECK_DEADLOCK FALSE
