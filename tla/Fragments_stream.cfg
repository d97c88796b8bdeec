\* Buffers that double up to twice the limit, frames in any order.
SPECIFICATION Spec
CONSTANTS
  Byte = {1, 2}
  Junk = 0
  NoMessage = NoMessage
  MsgMax = 2
  FragMax = 3
  CapMin = 2
  LenMax = 3
INVARIANTS TypeOK BufferSound
PROPERTY ImplementsStream
