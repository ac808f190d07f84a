SPECIFICATION FairSpec
CONSTANTS
  Book = {b1}
  NoBook = NoBook
  RoleSets = {{"view", "create", "edit", "delete"}}
  MaxQueryRetries = 0
  MaxClock = 2
  MaxOthers = 1
  MaxVisits = 2
  MaxCalls = 2
INVARIANTS
  TypeOK
  OwnSaveSeen
  OwnSavesInOrder
  AdmittedIsOffered
PROPERTIES
  EditsYieldToNewer
  MutationEnds
