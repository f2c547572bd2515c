\* The feed of the console: it is parked and never woken.
SPECIFICATION FairSpec
CONSTANTS
  MaxAttempts = 1
  MaxRefs = 1
  MaxTimers = 1
  MaxFaults = 1
CHECK_DEADLOCK FALSE
PROPERTY FeedComesBack
