SPECIFICATION Spec
CONSTANTS
  Sids = {s1, s2}
  Grants = {6}
  DEFAULT_TIMEOUT = 6
  RENEW_MARGIN = 3
  MIN_DELAY = 3
  TIMEOUT = 1
  Faults = {"disconnected"}
  MaxFaults = 1
  MaxReboots = 0
  NoSid = NoSid
  NoCall = NoCall
  NoAnswer = NoAnswer
  NoTimeout = NoTimeout
CHECK_DEADLOCK FALSE
INVARIANT StopShutsDown
