SPECIFICATION NetSpec
CONSTANTS
  TxCap = 2
  RxCap = 1
  QueueSize = 2
  ArpSize = 2
  Sockets = 1
  Me = "me"
  OnLink = {"G", "P", "Q"}
  Far = {"R"}
  Targets = {"P", "R"}
  Pingers = {"Q", "R"}
  Askers = {"Q"}
  Servers = {"G", "S"}
  Lease <- MCLease
  Names = {"n", "m"}
  Addr <- MCAddr
  DnsPort = 53001
  Seqs <- MCSeqs
  MaxCalls = 4
  MaxExtra = 1
INVARIANTS
  SentToOwner
  DnsTruth
  LeaseHeld
  PingHeard
  NothingLeft
CHECK_DEADLOCK FALSE
PROPERTIES
  CallReturns
