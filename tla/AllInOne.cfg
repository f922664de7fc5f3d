SPECIFICATION AllSpec
CONSTANTS
  a1 = a1
  b1 = b1
  c1 = c1
  s1 = s1
  u1 = u1
  Talks = {t1}
  Acts = {a1}
  Bizs = {b1}
  Senders = {c1, s1}
  Users = {u1}
  NoOne = NoOne
  NoTalk = NoTalk
  Customers = {c1}
  ActOf <- MCActOf
  BizOf <- MCBizOf
  MaxCache = 1
  MaxMessageCache = 2
  SendCap = 4
  MaxRequests <- MCRequests
  Leavers = {}
  StoreMayFail = FALSE
  Servicers = {s1}
  UserOf <- MCUserOf
  ActsOf <- MCSees
  BizsOf <- MCSees
  MaxServicerCache = 1
  MaxServiceMessages = 1
  ServiceSendCap = 12
  ServiceRequests <- MCAsks
  RequestKinds = {"message", "attach"}
  Quitters = {}
  Readers = {}
  ServiceStoreMayFail = FALSE
  MaxWrites = 1
CHECK_DEADLOCK FALSE
CONSTRAINT MCServedFirst
INVARIANTS
  NobodyMisses
PROPERTIES
  IsServicerSide
