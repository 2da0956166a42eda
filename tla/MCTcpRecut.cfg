CONSTANTS
  Half = 8
  StreamLen = 6
  Window = 7
  MaxPending = 4
  ISN <- WrapIsn
  Segments <- Recut
  HelloBytes <- Hellos
SPECIFICATION Spec
INVARIANTS TypeOK FedInOrder InPlace StartsAtHello BoundedBuffer
PROPERTY DeliversOrderedStream
