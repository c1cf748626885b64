SPECIFICATION FairSpec
CONSTANTS
  Branch = {"main"}
  Message <- Messages
  NoMessage = ""
  Title <- FirstLine
  Matched <- Patterns
  Markers <- Configured
  MessagesOf <- AllServers
  MaxCommits = 2
  MaxChanges = 2
  MaxManual = 1
INVARIANTS
  SourceInv
  ProtectedWasProtected
PROPERTIES
  PushIsBuilt
CHECK_DEADLOCK FALSE
