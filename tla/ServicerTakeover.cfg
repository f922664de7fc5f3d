SPECIFICATION Spec
CONSTANTS
  a1 = a1
  b1 = b1
  s1 = s1
  s2 = s2
  u1 = u1
  u2 = u2
  Talks = {t1}
  Acts = {a1}
  Bizs = {b1}
  Senders = {s1, s2, w1}
  Users = {u1, u2}
  NoOne = NoOne
  Servicers = {s1, s2}
  UserOf <- MCTwoUsers
  ActsOf <- MCActsOf
  BizsOf <- MCBizsOf
  MaxServicerCache = 2
  MaxServiceMessages = 3
  ServiceSendCap = 12
  ServiceRequests <- MCAsks21
  RequestKinds = {"attach", "detach"}
  Quitters = {}
  Readers = {}
  Writers = {w1}
  MaxWrites = 1
  CustomerMoves = {"close", "reopen"}
  ServiceStoreMayFail = FALSE
CHECK_DEADLOCK FALSE
CONSTRAINT MCClosedEarly
INVARIANTS
  AssignmentTold
  CloseTold
  NoGap
