CONSTANTS
  Members = {p, q}
  Accounts = {a, b}
  Codes = {c, d}
  MaxFaults = 1
  Nil = Nil
  Endpoints = {"near", "far"}
  Tiers = {"local", "cloud"}
  Tagged <- TwoTiers
  Chain <- HouseFirst
  ProbeTTL = 1
  CooldownBase = 1
  CooldownCeiling = 2
  Requests = {c, d}
  LastTick = 2
  People = {1, 2, 3}
  Words = {"first", "second"}
  IdleLimit = 1
  MaxDeriv = 1
  LastTime = 2
  Views = {1, 2}
  Backlog = 1
  LastMessage = 2
  LastClock = 3
  Houses <- HousesInOrder
  Entries <- ThreeEntries
  Title <- NamesOfEntries
  Shelves <- SomeShelves
  Terms = {1, 2}
  Matches <- Finds
  Limit = 2
  Votes = 2
  MaxRoom = 3
  TokenLife = 0
  SetupLife = 0
  IdleLife = 0
  AttemptLimit = 2
  LoginWindow = 1
  Lockout = 2
  LastHour = 1
  MaxTokens = 2
  PodMembers = {"ann"}
  MaxReplaced = 2
  Pods = {1, 2}
  Images = {c, d}
  MaxStarts = 2
  MaxEdits = 1
  Releases = {1, 2, 3}
  NeedConsent = {2}
  Sick = {1}
  MaxBoots = 4
SYMMETRY Symmetry
SPECIFICATION Spec
INVARIANT ClaimsCanBeRevoked
CHECK_DEADLOCK FALSE
