CONSTANTS
  hook = hook
  Workers = {w1, w2}
  Events = {1, 2}
  Kinds = {"order", "low", "restock"}
  Histories <- mcLowOnly
  Endpoints = {hook}
  Subscribers <- mcSubscribers
  Shoppers = {"shopper"}
  clerk = clerk
  Clerks = {}
  Beside <- mcNoneBeside
  Staff = {"staff"}
  LookLimit = 1
  MaxOthers = 0
  MaxMissed = 0
  BatchLimit = 2
  MaxAttempts = 2
  MaxCrashes = 1
SPECIFICATION FairSpec
PROPERTIES EventuallyProcessed
