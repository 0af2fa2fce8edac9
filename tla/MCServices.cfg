SPECIFICATION MCSpec
CONSTANTS
  p1 = p1
  p2 = p2
  p3 = p3
  u1 = u1
  u2 = u2
  u3 = u3
  s1 = s1
  s2 = s2
  b1 = b1
  house = house
  favourites = favourites
  Requests = {p1, p2, p3}
  Users = {u1, u2, u3}
  Stays = {b1}
  Sockets = {s1, s2}
  UserOf <- MCUserOf
  Rows <- MCRows
  Ranks = {0, 1}
  Limits = {2}
  Uploaders = {u1}
  Files <- MCFiles
  MaxFiles = 2
  AllowedTypes = {"image", "video"}
  MaxFileSize = 1
  Owners = {u1, u2}
  Places = {house}
  Existing = {favourites}
SYMMETRY Symmetry
INVARIANTS TypesOK ConversationsExplained PreviewExplained GatewayExplained
  LiveRowsHaveFiles OrphansExplained StrangersSeeShared WalkComplete
CHECK_DEADLOCK FALSE
