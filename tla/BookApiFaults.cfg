SPECIFICATION Spec
CONSTANTS
  Title <- MCTitle
  TitleLength <- MCTitleLength
  BlankTitle <- MCBlankTitle
  GenreCode <- MCGenreCode
  GenreLength <- MCGenreLength
  Trim <- MCTrim
  User <- MCUser
  RolesOf <- MCRolesOf
  Id = {"b1", "b2"}
  NoId = NoId
  Request = {r1, r2, r3}
  Call <- WriteCalls
  InitialTable <- MCOne
  MaxRetry = 1
  MaxLostAck = 1
SYMMETRY Symmetry
INVARIANTS
  RowsSound
  AnswerMatchesEffect
  CreatedBookSurvives
PROPERTIES
  NoResurrection
  CreatedDateKept
\* Every request is answered at most once, so a behaviour ends.
CHECK_DEADLOCK FALSE
