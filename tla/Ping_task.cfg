SPECIFICATION FairSpec
CONSTANTS
  one = one
  two = two
  name = name
  Name = name
  Addresses <- TwoAddresses
  Kinds <- AllKinds
  Timeout = 2
  Threshold = 1
  Retries = 2
  Tries = 2
  Longest = 5
INVARIANTS TypeOK PatientEnough
PROPERTIES RetryNeverWorsens TaskEnds
