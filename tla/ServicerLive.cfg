SPECIFICATION FairSpec
CONSTANTS
  a1 = a1
  b1 = b1
  s1 = s1
  s2 = s2
  u1 = u1
  u2 = u2
  Talks = {t1}
  Acts = {a1}
  Bizs = {b1}
  Senders = {s1, s2, w1}
  Users = {u1, u2}
  NoOne = NoOne
  Servicers = {s1, s2}
  UserOf <- MCOneUser
  ActsOf <- MCActsOf
  BizsOf <- MCBizsOf
  MaxServicerCache = 1
  MaxServiceMessages = 2
  ServiceSendCap = 4
  ServiceRequests <- MCAsks11
  RequestKinds = {"attach"}
  Quitters = {}
  Readers = {}
  Writers = {w1}
  MaxWrites = 1
  CustomerMoves = {"lose"}
  ServiceStoreMayFail = FALSE
CHECK_DEADLOCK FALSE
PROPERTIES
  AssigneeHears
  PendingIsAnnounced
