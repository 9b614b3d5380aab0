\* A session of three calls with the retry budget of the code.
CONSTANTS
  MaxRetries = 3
  MaxCalls = 3
  MaxExpiries = 2
SPECIFICATION FairSpec
INVARIANTS SendsBounded TransientFailuresAbsorbed TokenSpared RealmGetsCredentials
PROPERTY CallEnds
CHECK_DEADLOCK FALSE
