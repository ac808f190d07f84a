SPECIFICATION Spec
CONSTANTS
  Title <- MCTitle
  TitleLength <- MCTitleLength
  BlankTitle <- MCBlankTitle
  GenreCode <- MCGenreCode
  GenreLength <- MCGenreLength
  Trim <- MCTrim
  User <- MCUser
  RolesOf <- MCRolesOf
  Id = {"b1", "b2"}
  NoId = NoId
  Request = {r1, r2}
  Call <- RaceCalls
  InitialTable <- MCOne
  MaxRetry = 0
  MaxLostAck = 0
PROPERTIES
  UpdatedByNamesLastWriter
\* Every request is answered at most once, so a behaviour ends.
CHECK_DEADLOCK FALSE
