CONSTANTS
  hook = hook
  Workers = {w1, w2}
  Events = {1, 2}
  Kinds = {"order", "low", "restock"}
  Histories <- mcHistories
  Endpoints = {hook}
  Subscribers <- mcSubscribers
  Shoppers = {"shopper"}
  clerk = clerk
  Clerks = {clerk}
  Beside <- mcBeside
  Staff = {"staff"}
  LookLimit = 1
  MaxOthers = 1
  MaxMissed = 1
  BatchLimit = 2
  MaxAttempts = 2
  MaxCrashes = 1
SPECIFICATION Spec
SYMMETRY Symmetry
INVARIANTS NothingLost InductiveInv RepeatsExplained AlertsBounded
