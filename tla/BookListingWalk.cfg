SPECIFICATION Spec
CONSTANTS
  Id <- MCId
  Title <- MCTitle
  PageRequest <- MCPage
  SizeRequest <- MCSize
  MaxPageSize = 2
  IntBits = 8
INVARIANTS
  TypeOK
  QuietWalkIsExact
  RemovalsRepeatNothing
  AdditionsSkipNothing
  PagerLeadsBack
