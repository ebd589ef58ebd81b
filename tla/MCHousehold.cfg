CONSTANTS
  Calls = {c1, c2}
  Users = {ann, bob}
  Choices = {"personal", "shared", "decline", "publish", "cancel", "undo"}
  NoUser = NoUser
  NoChoice = NoChoice
  Members = {ann, bob}
  Household = household
  Conversations = {household, bob}
  Sharing = {bob}
  SaveFirst = {bob}
  Titles = {t1}
  None = None
  MaxProposals = 1
  DeclineWindow = 1
  MaxTurns = 1
  MaxCrashes = 1
  Misfiles = FALSE
SPECIFICATION Spec
INVARIANTS AnswerIsTheAskedUsers MessageAgreesWithResult
PROPERTY KeepsItsPromise
SYMMETRY Symmetry
CHECK_DEADLOCK FALSE
