\* A run dies while its checkpoint is copied.
SPECIFICATION Spec
CONSTANTS
  write = write
  build = build
  publish = publish
  asset = asset
  NoAction = NoAction
  Actions <- MCActions
  Plans <- MCPlans
  Grants <- MCGrants
  BaseFiles <- MCBase
  Kind <- MCKind
  Caps <- MCCaps
  Permitted <- MCPermitted
  Timeout <- MCTimeout
  PollSlack = 1
  Limits <- MCLimits
  Desktop = FALSE
  MaxStarts = 2
  MaxFaults = 1
PROPERTIES
  RestoreGivesBack
CHECK_DEADLOCK FALSE
