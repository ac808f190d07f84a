SPECIFICATION Spec
CONSTANTS
  Locale = {"en", "fa"}
  Card = {"UserMetaCard", "UserInfoCard"}
  Chart = {"MonthlyTarget"}
INVARIANTS
  TypeOK
  ContentBesideSidebar
  OpenSubmenuShows
  SubmenuStaysOnPage
  PageScrolls
PROPERTY
  PressToggles
