CONSTANTS
  Msgs = {m1, m2, m3}
  Overheard = {m3}
  Kinds = {"direct", "group"}
  QueueLimit = 1
  HistoryLimit = 1
  Completions <- SomeCompletions
  LastBoundary = 2
  MaxFaults = 1

SPECIFICATION Spec
INVARIANTS
  TypeOK
  OneTurnAtATime
  EveryMessageIsAnswered
  HistoryIsHonest
  ForgettingIsTold
PROPERTY NobodyWaitsForATap
\* the conversation ends when every message has been handled
CHECK_DEADLOCK FALSE
