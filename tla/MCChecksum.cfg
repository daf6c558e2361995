SPECIFICATION SumSpec
CONSTANTS
  Addresses <- MCAddresses
  Payloads <- MCPayloads
INVARIANT
  UdpChecksumCorrect
CHECK_DEADLOCK FALSE
