\* Cancel is pressed while the checkpoint is made.
SPECIFICATION Spec
CONSTANTS
  write = write
  build = build
  publish = publish
  asset = asset
  NoAction = NoAction
  Actions <- MCActions
  Plans <- MCDialogPlans
  Grants <- MCGrants
  BaseFiles <- MCBase
  Kind <- MCKind
  Caps <- MCCaps
  Permitted <- MCPermitted
  Timeout <- MCTimeout
  PollSlack = 1
  Limits <- MCLimits
  Desktop = TRUE
  MaxStarts = 2
  MaxFaults = 0
INVARIANTS
  CancelledNeverCandidate
CHECK_DEADLOCK FALSE
