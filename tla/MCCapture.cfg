CONSTANTS
  Calls = {c1, c2}
  Users = {ann}
  Choices = {"personal", "shared", "decline", "publish", "cancel", "undo"}
  NoUser = NoUser
  NoChoice = NoChoice
  Members = {ann}
  Household = household
  Conversations = {ann}
  Sharing = {ann}
  SaveFirst = {ann}
  Titles = {t1}
  None = None
  MaxProposals = 1
  DeclineWindow = 2
  MaxTurns = 2
  MaxCrashes = 0
  Misfiles = TRUE
SPECIFICATION Spec
INVARIANTS TypeOK ChatTellsTheTruth SilentOnlyIfUndeliverable
PROPERTIES TurnedDownStaysDown EveryCallReturns
CHECK_DEADLOCK FALSE
