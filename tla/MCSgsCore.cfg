SPECIFICATION FairSpec
CONSTANTS
  c1 = c1
  c2 = c2
  c3 = c3
  c4 = c4
  c5 = c5
  c6 = c6
  hopper = hopper
  Nobody = Nobody
  NoNonce = NoNonce
  NoReply = NoReply
  Calls = {c1, c2, c3, c4, c5, c6}
  Together <- Pairs
  Transports = {hopper}
  TransportOf <- SixOnOne
  DialAt = {hopper}
  CallOf <- Mixed
  Unsupported = {"Power"}
  OneNonce = TRUE
  Faults <- AllFaults
CHECK_DEADLOCK FALSE
INVARIANTS TypeOK DeliveryInv LockIsolatesExchange TypedInOrder PrefixTyped NoSpuriousRepair
PROPERTIES DeliversKeys CallsEnd
