\* Counter restarts, clock changes, failing writes and crashes.
SPECIFICATION NSFairSpec
CONSTANTS
  NoFile = NoFile
  Broken = Broken
  MaxSamples = 2
  Keep = 2
  SaveInterval = 2
  Wrap = 16
  Latest = 3
  TrafficMax = 2
  FaultMax = 2
INVARIANTS NSTypeOK NeverOvercounts StopSavesAll
PROPERTIES OnlyOldDropped SavesGoOn
