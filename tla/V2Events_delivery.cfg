\* Retransmissions over a seen list smaller than the number of ids.
SPECIFICATION FairSpec
CONSTANTS
  Event <- ThreeEvents
  IntHalf = 8
  SeenMax = 2
  AckMax = 1
  ReportMax = 1
  FrameMax = 2
  LogMax = 3
  FaultMax = 1
INVARIANTS TypeOK NoReplayInWindow
PROPERTIES ImplementsDelivery EventuallyRetired
