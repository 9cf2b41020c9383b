SPECIFICATION Spec
CONSTANTS
  Device = Device
  Viewer = Viewer
  b1 = b1
  b2 = b2
  b3 = b3
  Byte <- MCByte
  Payload <- MCPayload
  SharedArraySize = 2
INVARIANTS TypeOK MutualExclusion NoThrow ReceivedIsPrefix
PROPERTIES ImplementsRendezvous
CHECK_DEADLOCK FALSE
