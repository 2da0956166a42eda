CONSTANTS
  Half = 8
  StreamLen = 6
  Window = 7
  MaxPending = 4
  ISN <- WrapIsn
  Segments <- OneSided
  HelloBytes <- Hellos
SPECIFICATION Spec
INVARIANT Complete
