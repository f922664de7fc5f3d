SPECIFICATION Spec
CONSTANTS
  a1 = a1
  b1 = b1
  s1 = s1
  s2 = s2
  u1 = u1
  u2 = u2
  Talks = {t1}
  Acts = {a1}
  Bizs = {b1}
  Senders = {s1, s2, w1}
  Users = {u1, u2}
  NoOne = NoOne
  Servicers = {s1, s2}
  UserOf <- MCOneUser
  ActsOf <- MCActsOf
  BizsOf <- MCBizsOf
  MaxServicerCache = 1
  MaxServiceMessages = 1
  ServiceSendCap = 2
  ServiceRequests <- MCAsks20
  RequestKinds = {"attachedTalks", "pendingTalks", "reload", "message", "attach"}
  Quitters = {s2}
  Readers = {s2}
  Writers = {w1}
  MaxWrites = 0
  CustomerMoves = {}
  ServiceStoreMayFail = TRUE
CHECK_DEADLOCK FALSE
CONSTRAINT MCOnceServed
INVARIANTS
  TypeOK
  RegistryExplained
  ToldIsStored
  NoGap
