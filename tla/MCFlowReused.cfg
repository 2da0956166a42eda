SPECIFICATION Spec
CONSTANTS
  Packets <- Reused
  MaxPackets = 4
  Decrypting = TRUE
INVARIANT ConnectionsNotMixed
