SPECIFICATION FairSpec
CONSTANTS
  a1 = a1
  b1 = b1
  c1 = c1
  c2 = c2
  Talks = {t1}
  Acts = {a1}
  Bizs = {b1}
  Senders = {c1, c2}
  Users = {}
  NoOne = NoOne
  NoTalk = NoTalk
  Customers = {c1, c2}
  ActOf <- MCActOf
  BizOf <- MCBizOf
  MaxCache = 2
  MaxMessageCache = 1
  SendCap = 2
  MaxRequests <- MCRequests10
  Leavers = {c1}
  StoreMayFail = FALSE
CHECK_DEADLOCK FALSE
PROPERTIES
  EveryoneHears
  LeftIsForgotten
  RemovedLeaves
