SPECIFICATION FairSpec
CONSTANTS
  Entries = {wally, hopper}
  Forms <- SavedForms
  Apps <- LaunchableApps
  Faults = {"connect", "subscribe", "unload", "hang_up"}
  MaxFaults = 2
  MaxOptions = 2
  None = None
CHECK_DEADLOCK FALSE
INVARIANTS TypeOK ListenersOwned OptionsApplied SourcesWork
PROPERTIES CardServed ReloadEnds
