CONSTANTS
  Ids <- MCIds
  MaxSlots = 1
  Sources = {"axis"}
  MaxMail = 3
SPECIFICATION FairSpec
INVARIANT TypeOK
INVARIANT TablesAgree
INVARIANT NothingStuck
PROPERTY SlotsAreFreed
