CONSTANTS
  w1 = w1
  w2 = w2
  w3 = w3
  NoWindow = NoWindow
  Windows = {w1, w2}
  Ancestors <- DialogOf
  NumWorkspace = 2
  MaxId = 3
  Uses = {"pin", "swipe"}
SPECIFICATION Spec
INVARIANT HistoryNoDup
INVARIANT HiddenIffElsewhere
