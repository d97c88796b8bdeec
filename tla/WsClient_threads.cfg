\* Faults at any moment; the report thread may run out of retries.
SPECIFICATION FairSpec
CONSTANTS
  Threshold = 2
  MaxRetries = 3
  FaultMax = 3
INVARIANTS TypeOK ReceiverHasConnection DestroyedAlone
PROPERTIES ImplementsConnection Stops Reconnects
