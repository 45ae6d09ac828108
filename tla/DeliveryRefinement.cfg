SPECIFICATION FairSpec
CONSTANTS
  Contexts = {c1, c2}
  Loop = Loop
  NoContext = NoContext
  Capacity = 1
  MaxOutages = 2
  MaxRestarts = 1
PROPERTIES
  ImplementsDelivery
  BufferedEventuallyQueued
