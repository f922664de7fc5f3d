SPECIFICATION Spec
CONSTANTS
  a1 = a1
  b1 = b1
  c1 = c1
  c2 = c2
  Talks = {t1}
  Acts = {a1}
  Bizs = {b1}
  Senders = {c1, c2}
  Users = {}
  NoOne = NoOne
  NoTalk = NoTalk
  Customers = {c1, c2}
  ActOf <- MCActOf
  BizOf <- MCBizOf
  MaxCache = 1
  MaxMessageCache = 2
  SendCap = 4
  MaxRequests <- MCRequests22
  Leavers = {}
  StoreMayFail = FALSE
CHECK_DEADLOCK FALSE
CONSTRAINT MCTwoRequests
SYMMETRY MCSymmetry
INVARIANTS
  NoGap
  SameOrder
  SenderOrder
