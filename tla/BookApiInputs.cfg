SPECIFICATION FairSpec
CONSTANTS
  Title <- MCTitle
  TitleLength <- MCTitleLength
  BlankTitle <- MCBlankTitle
  GenreCode <- MCGenreCode
  GenreLength <- MCGenreLength
  Trim <- MCTrim
  User <- MCUser
  RolesOf <- MCRolesOf
  Id = {"b1", "b2"}
  NoId = NoId
  Request = {r1}
  Call <- AllCalls
  InitialTable <- MCEmptyOrOne
  MaxRetry = 1
  MaxLostAck = 1
INVARIANTS
  TypeOK
  AnswersAreUnderstood
PROPERTIES
  EveryRequestAnswered
\* Every request is answered at most once, so a behaviour ends.
CHECK_DEADLOCK FALSE
