SPECIFICATION Spec
CONSTANTS
  Packets <- SynAckFirst
  MaxPackets = 3
  Decrypting = TRUE
INVARIANT TrackedFromClient
