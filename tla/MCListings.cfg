SPECIFICATION Spec
CONSTANTS
  p1 = p1
  p2 = p2
  p3 = p3
  house = house
  h1 = h1
  h2 = h2
  Requests = {p1, p2}
  Existing = {house}
  Hosts = {h1}
  MaxPhotos = 2
  Nights = {1, 2}
  Stays <- MCStays
SYMMETRY Symmetry
INVARIANTS TypeOK PublishedExplained PhotosExplained 
CHECK_DEADLOCK FALSE
