CONSTANTS
  Conns <- PskFamily
  KeyStores <- Stores
SPECIFICATION Spec
INVARIANT ResolvedKeysFit
