SPECIFICATION Spec
CONSTANTS
  Contexts = {c1, c2, c3}
  Loop = Loop
  NoContext = NoContext
  Capacity = 1
  MaxOutages = 1
  MaxRestarts = 0
INVARIANT
  FailedPublishIsBuffered
