SPECIFICATION FairSpec
CONSTANTS
  Browsers = {b1, b2}
  NoUser = nouser
  MaxMoves = 2
INVARIANTS TypeOK ConsoleAfterPassword ConfirmedSecretProved
PROPERTIES Settles NoDeadEnd
CHECK_DEADLOCK FALSE
