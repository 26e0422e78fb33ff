CONSTANTS
  w1 = w1
  w2 = w2
  w3 = w3
  NoWindow = NoWindow
  Windows = {w1, w2, w3}
  Ancestors <- DialogOf
  NumWorkspace = 2
  MaxId = 3
  Uses = {"Multitaskview"}
SPECIFICATION Spec
INVARIANT TypeOK
INVARIANT HistoryExact
INVARIANT ActivatedIsLatest
