\* Finding: every planner leaves and the last locators stay in the queue.
SPECIFICATION Spec
CONSTANTS
  Planners = {p1, p2}
  NumLocators = 2
  MaxLocators = 2
  NoLocator = NoLocator
INVARIANT EveryLocatorPlanned
