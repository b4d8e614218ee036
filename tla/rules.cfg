SPECIFICATION MCSpec
CONSTANTS
  Id = {g, a, b}
  Start = g
  Cap = 4
  Premine = 1
  MintedBound = 6
CHECK_DEADLOCK FALSE
INVARIANTS
  SupplyCapped
  IntervalSound
  BitsSound
  RootIsUnique
  MeansWhatItSays
PROPERTIES
  RetargetBounded
