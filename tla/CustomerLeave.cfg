SPECIFICATION Spec
CONSTANTS
  a1 = a1
  b1 = b1
  c1 = c1
  c2 = c2
  Talks = {t1, t2}
  Acts = {a1}
  Bizs = {b1}
  Senders = {c1, c2}
  Users = {}
  NoOne = NoOne
  NoTalk = NoTalk
  Customers = {c1, c2}
  ActOf <- MCActOf
  BizOf <- MCBizOf
  MaxCache = 1
  MaxMessageCache = 2
  SendCap = 1
  MaxRequests <- MCRequests10
  Leavers = {c1, c2}
  StoreMayFail = TRUE
CHECK_DEADLOCK FALSE
INVARIANTS
  TypeOK
  ServedOrKicked
  ToldIsStored
  RegistryExplained
