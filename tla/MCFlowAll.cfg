SPECIFICATION Spec
CONSTANTS
  hopper = hopper
  joey = joey
  wally = wally
  None = None
  Boxes = {hopper, joey, wally}
  LinkOf <- Family
  Addrs = {a1, a2, a3, a4}
  Flows = {f1, f2}
  Sources = {"user", "ssdp"}
  Methods = {"local_http", "cloud", "delegate"}
  Lossy = TRUE
SYMMETRY Symmetric
CHECK_DEADLOCK FALSE
INVARIANTS TypeOK OneEntryPerReceiver CredsFromOwnBox HostFollowsAnnouncement
