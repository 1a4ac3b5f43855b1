SPECIFICATION MCSpec
CONSTANTS
  Ifaces = {eth0, eth1}
  Clients = {client1, client2, client3}
  client1 = client1
  client2 = client2
  client3 = client3
  shared = shared
  own = own
  eth0 = eth0
  eth1 = eth1
  Address <- MCAddress
  Link <- MCLink
  None = None
  MaxSent = 2
  MaxAnswers = 2
  MaxFds = 2
  MaxStarts = 2
  leased = leased
  prefix = prefix
  MaxReceived = 2
CHECK_DEADLOCK FALSE
INVARIANTS
  Delivery
  EndReasons
  Understood
PROPERTIES
  LogTruth
  Forwarded
