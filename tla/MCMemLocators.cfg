\* Three planners compete for three locators while they are pushed.
SPECIFICATION FairSpec
CONSTANTS
  Planners = {p1, p2, p3}
  NumLocators = 3
  MaxLocators = 4
  NoLocator = NoLocator
INVARIANTS
  TypeOK
  ClaimedOnce
  ClaimsAccountedFor
  SegmentHasItsLocator
PROPERTIES
  DrainedAfterCompletion
  PlannersExit
  ImplementsQueue
