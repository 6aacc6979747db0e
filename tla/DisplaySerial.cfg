CONSTANTS
  Size = 4
  Byte = {b1, b2}
  NoByte = none
SPECIFICATION Spec
INVARIANTS TypeOK AnnouncedByteIsThere
PROPERTY ImplementsFifo
