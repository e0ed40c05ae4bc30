SPECIFICATION Spec
CONSTANTS
  c1 = c1
  c2 = c2
  c3 = c3
  c4 = c4
  hopper = hopper
  c5 = c5
  c6 = c6
  Nobody = Nobody
  NoNonce = NoNonce
  NoReply = NoReply
  Calls = {c1, c2}
  Together <- Both
  Transports = {hopper}
  TransportOf <- OneTransport
  DialAt = {}
  CallOf <- TwoTunes
  Unsupported = {}
  OneNonce = FALSE
  Faults <- NoFaults
CHECK_DEADLOCK FALSE
INVARIANT TuneIsExact
