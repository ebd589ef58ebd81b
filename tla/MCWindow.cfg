CONSTANTS
  Calls = {c1, c2}
  Users = {ann}
  Choices = {"personal", "shared", "decline", "publish", "cancel", "undo"}
  NoUser = NoUser
  NoChoice = NoChoice
  Members = {ann}
  Household = household
  Conversations = {household}
  Sharing = {}
  SaveFirst = {}
  Titles = {t1}
  None = None
  MaxProposals = 1
  DeclineWindow = 2
  MaxTurns = 3
  MaxCrashes = 0
  Misfiles = FALSE
SPECIFICATION WindowSpec
PROPERTY SuppressedForAWindow
CHECK_DEADLOCK FALSE
