SPECIFICATION FairSpec
CONSTANTS
  c1 = c1
  c2 = c2
  Clients = {c1, c2}
  NoClient = NoClient
  MaxHandles = 2
  MaxData = 2
  Octet = {1, 2}
  Junk = 0
  ApiArgs <- MCApiArgs
  DirectArgs <- MCDirectArgs
INVARIANTS
  TypeOK
  EchoIntact
  SidesAgree
PROPERTY
  EveryEchoReturns
