CONSTANTS
  Half = 8
  StreamLen = 9
  Window = 7
  MaxPending = 8
  ISN <- WrapIsn
  Segments <- Split
  HelloBytes <- MCHello
  Dirs <- Sides
  RecordHeader = 2
  MessageHeader = 2
  RecordLen <- MCRecordLen
  MessageLen <- MCMessageLen
  Handshakes <- MCHandshakes
SPECIFICATION PathSpec
INVARIANTS Complete FramesAbut WholeFrames
