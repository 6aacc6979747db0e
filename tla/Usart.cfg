CONSTANTS
  TxSize = 5
  RxSize = 3
  FrameSize = 2
  Modulus = 10
  CountRange = 4
SPECIFICATION Spec
INVARIANTS TypeOK FrameHasRoom AnnouncedByteIsThere
PROPERTIES SentInOrder Drains
