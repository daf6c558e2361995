SPECIFICATION NetSpec
CONSTANTS
  TxCap = 2
  RxCap = 1
  QueueSize = 2
  ArpSize = 2
  Sockets = 1
  Me = "me"
  OnLink = {"G", "P", "Q"}
  Far = {"R"}
  Targets = {"P", "R"}
  Pingers = {"Q", "R"}
  Askers = {"Q"}
  Servers = {"G", "S"}
  Lease <- MCLease
  Names = {}
  Addr <- MCAddr
  DnsPort = 53001
  Seqs <- MCSeqs
  MaxCalls = 4
  MaxExtra = 1
INVARIANTS
  PingMatched
CHECK_DEADLOCK FALSE
