\* One process at a time, with one crash or I/O error.
SPECIFICATION Spec
CONSTANTS
  write = write
  build = build
  publish = publish
  asset = asset
  NoAction = NoAction
  Actions <- MCActions
  Plans <- MCPlans
  Grants <- MCGrants
  BaseFiles <- MCBase
  Kind <- MCKind
  Caps <- MCCaps
  Permitted <- MCPermitted
  Timeout <- MCTimeout
  PollSlack = 1
  Limits <- MCLimits
  Desktop = FALSE
  MaxStarts = 2
  MaxFaults = 1
INVARIANTS
  TypeOK
  RunsOnlyApproved
  CompletedOnce
  BudgetsHold
  CandidateHoldsCompletedWork
  FailedRunRestores
  RestingSessionLoads
PROPERTIES
  CancelledIsFinal
  TellsLegalStory
CHECK_DEADLOCK FALSE
