CONSTANTS
  a1 = a1
  a2 = a2
  w1 = w1
  w2 = w2
  NoApp = NoApp
  Apps = {a1, a2}
  Windows = {w1, w2}
  XWindows = {w2}
  AppOf <- AppOfWindows
  DdeWindows = {w1}
  MaxRequests = 2
  MaxObjects = 2
SPECIFICATION Spec
INVARIANT TypeOK
INVARIANT OneSplashPerApp
INVARIANT NobodyForgotten
INVARIANT AnswersMatch
INVARIANT FlagIsTrue
PROPERTY EverybodyDecided
