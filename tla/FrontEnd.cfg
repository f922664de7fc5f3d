SPECIFICATION FrontFairSpec
CONSTANTS
  Relayed <- MCRelayed
  MaxRequests = 2
  MaxResponses = 2
  Window = 1
  SocketRoom = 1
  demo = demo
  ann = ann
  r1 = r1
  r2 = r2
  Names = {demo, ann}
  Demo = demo
  Callers = {r1, r2}
  Offers <- MCOffers
  MaxUsers = 3
  MaxGrants = 1
  UpdateScopeFails = TRUE
CHECK_DEADLOCK FALSE
INVARIANTS
  FrontTypeOK
  ServedWhileThere
  ListenerSeesAll
  PageIsScoped
PROPERTIES
  EndIsPassedOn
  LeaveIsNoticed
