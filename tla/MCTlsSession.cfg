CONSTANTS
  Conns <- Captured
  KeyStores <- Stores
SPECIFICATION FairSpec
INVARIANTS TypeOK AllSurfaced ResolvedKeysFit SurfacedIsPrefix
PROPERTIES Settles VerdictIsFinal
