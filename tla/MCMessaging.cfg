SPECIFICATION Spec
CONSTANTS
  Parties = {requester, traveler}
  Sockets = {s1, s2}
  ChatTabs = {s1}
  CallIds = {c1, c2}
  MaxMessages = 2
  PageSize = 1
  Nobody = Nobody
SYMMETRY Symmetry
INVARIANTS
  TypeOK
  OpenThreadShowsAll
  OpenThreadIsRead
PROPERTY DismissedStays
