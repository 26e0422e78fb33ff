CONSTANTS
  Sessions = {s1, s2}
  NoSession = NoSession
  Uses = {"external", "socket"}
  MaxRequests = 2
SPECIFICATION FairSpec
INVARIANT TypeOK
INVARIANT GreeterShown
INVARIANT DesktopBack
PROPERTY LockScreenHasExit
