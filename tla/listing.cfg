SPECIFICATION ListingSpec
CONSTANTS
  MaxUser = 3
  MaxKey = 2
  MaxShifts = 2
  DefaultLimit = 2
  MaxLimit = 3
  LimitInputs = {Garbage, 1, 5}
  PageInputs = {Garbage, 2, 12, 23}
  Garbage = Garbage
  MaxInt = 31
INVARIANTS ListingTypeOK WalkComplete NoRepeats OnlyItsPages
