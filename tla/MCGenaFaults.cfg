SPECIFICATION FairSpec
CONSTANTS
  Sids = {s1, s2, s3, s4}
  Grants = {7}
  DEFAULT_TIMEOUT = 6
  RENEW_MARGIN = 3
  MIN_DELAY = 3
  TIMEOUT = 1
  Faults = {"status", "oserror", "disconnected", "no_sid", "no_timeout", "lost", "late", "bind"}
  MaxFaults = 3
  MaxReboots = 2
  NoSid = NoSid
  NoCall = NoCall
  NoAnswer = NoAnswer
  NoTimeout = NoTimeout
CHECK_DEADLOCK FALSE
INVARIANTS TypeOK TaskDiscipline RenewedInTime StopLeavesNothing
  ListenerBeforeSubscription FewSubscriptions
PROPERTIES PushRecovers StopEnds
