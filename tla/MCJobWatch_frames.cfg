SPECIFICATION FairWatchSpec
CONSTANTS
  Outputs <- ShortOrLong
  MaxChunks = 2
  MaxLines = 1
  HiddenParts = {2}
  Watched <- Lines
  Viewers = {"user", "anonymous"}
INVARIANTS
  WatchInv
  WatcherMissesNothing
PROPERTIES
  AllIsLogged
CHECK_DEADLOCK FALSE
