SPECIFICATION Spec
CONSTANTS
  hopper = hopper
  joey = joey
  wally = wally
  None = None
  Boxes = {hopper, joey}
  LinkOf <- HopperAndJoey
  Addrs = {a1, a2, a3}
  Flows = {f1, f2, f3}
  Sources = {"ssdp"}
  Methods = {}
  Lossy = FALSE
CHECK_DEADLOCK FALSE
INVARIANT JoeyFollowsHopper
