SPECIFICATION Spec
CONSTANTS
  Contexts = {c1, c2, c3}
  Loop = Loop
  NoContext = NoContext
  Capacity = 2
  MaxOutages = 1
  MaxRestarts = 1
SYMMETRY Symmetry
INVARIANTS
  TypeOK
  NoLossWithoutOverflow
  LossBoundedByEvictions
  DrainHoldsOldest
PROPERTY
  PopsUnsentOnlyAfterEviction
