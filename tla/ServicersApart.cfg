SPECIFICATION ApartSpec
CONSTANTS
  p1 = p1
  p2 = p2
  s1 = s1
  s2 = s2
  Processes = {p1, p2}
  Servicers = {s1, s2}
  ProcessOf <- MCProcessOf
  NoOne = NoOne
  MaxAsks <- MCMaxAsks
  MaxMessages = 1
  UpdateMayFail = TRUE
CHECK_DEADLOCK FALSE
INVARIANTS
  AgreedUnlessCrossed
  ServedSeesAll
