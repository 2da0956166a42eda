SPECIFICATION Spec
CONSTANTS
  Base = 32
  RandomLen = 2
  Messages <- MCMessages
  Unparsable <- MCUnparsable
  Others <- MCOthers
  Suites <- MCSuites
  Contents <- MCContents
  MaxByte = 3
  BlockSize = 2
  TagLen = 1
  ExplicitLen = 2
  MaxRecords = 2
INVARIANTS MessagesRead PayloadsRead OpensExactly ContentExact
CHECK_DEADLOCK FALSE
