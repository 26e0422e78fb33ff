CONSTANTS
  Locks = {l1, l2, l3}
  NoLock = NoLock
  Outputs = {o1, o2}
  Uses = {"Multitaskview"}
SPECIFICATION Spec
INVARIANT TypeOK
INVARIANT OutputsCovered
INVARIANT GraceIsCurrent
PROPERTY LockHoldsMode
PROPERTY KeepsPromise
