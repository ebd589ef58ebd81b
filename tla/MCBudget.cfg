CONSTANTS
  Calls = {c1, c2, c3}
  Users = {ann}
  Choices = {"personal", "shared", "decline", "publish", "cancel", "undo"}
  NoUser = NoUser
  NoChoice = NoChoice
  Members = {ann}
  Household = household
  Conversations = {ann}
  Sharing = {}
  SaveFirst = {}
  Titles = {t1}
  None = None
  MaxProposals = 1
  DeclineWindow = 2
  MaxTurns = 2
  MaxCrashes = 0
  Misfiles = FALSE
SPECIFICATION Spec
INVARIANTS WithinBudget
CHECK_DEADLOCK FALSE
SYMMETRY Symmetry
