SPECIFICATION Spec
CONSTANTS
  Packets <- Capture
  MaxPackets = 6
  Decrypting = TRUE
INVARIANTS TypeOK BooksBalance DirectionCounts NamesApplied SpansNest
