SPECIFICATION Spec
CONSTANTS
  Caches = {"disk", "process"}
  SlowTtl = 2
  Interval = 1
  InfoInterval = 2
  Width = 16
  Machines <- TwoMachines
  Loads <- SomeLoads
  Disks <- SomeDisks
  MaxBytes = 1
  MaxAway = 3
  Steps <- AStep
  Adjustments = 1
INVARIANTS TypeOK StaleOnlyAfterSetBack GpuNamed FiguresBacked
