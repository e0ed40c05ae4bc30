SPECIFICATION FairSpec
CONSTANTS
  c1 = c1
  c2 = c2
  c3 = c3
  c4 = c4
  Clicks = {c1, c2, c3, c4}
  Ask <- Mixed
  Visits <- TwoThreads
  Unsupported = {"Power"}
  OneNonce = TRUE
  LateRequests = TRUE
  Faults = {"timeout", "http_error", "no_nonce", "unexpected", "not_json", "no_result"}
  MayStop = TRUE
  Polls = {p1, p2}
  MaxChanges = 1
  Nothing = Nothing
  NoNonce = NoNonce
  NoReply = NoReply
CHECK_DEADLOCK FALSE
INVARIANTS TypeOK ToldTruth
PROPERTIES DeliversKeys IndicatorCatchesUp
