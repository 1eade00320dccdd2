\* The desktop dialog: Cancel may be pressed at any moment of a run.
SPECIFICATION FairSpec
CONSTANTS
  write = write
  build = build
  publish = publish
  asset = asset
  NoAction = NoAction
  Actions <- MCActions
  Plans <- MCDialogPlans
  Grants <- MCGrants
  BaseFiles <- MCBase
  Kind <- MCKind
  Caps <- MCCaps
  Permitted <- MCPermitted
  Timeout <- MCTimeout
  PollSlack = 1
  Limits <- MCLimits
  Desktop = TRUE
  MaxStarts = 2
  MaxFaults = 0
INVARIANTS
  CandidateHoldsCompletedWork
PROPERTIES
  RunsEnd
  CancelStopsTheRun
CHECK_DEADLOCK FALSE
