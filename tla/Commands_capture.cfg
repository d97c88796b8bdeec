SPECIFICATION FairSpec
CONSTANTS
  receive = receive
  update = update
  agent = agent
  ash = ash
  Receiver = receive
  Updater = update
  Agent = agent
  Callers <- TwoCallers
  Shells = {ash}
  OutputSize = 2
  PipeSize = 1
  Longest = 4
INVARIANTS TypeOK DescriptorsConfined OutputComplete
PROPERTIES CaptureReturns
