\* A mail server that has LOGIN only, with the right credentials.
SPECIFICATION Spec
CONSTANTS
  Lossy = FALSE
  None = None
INVARIANTS
  FallbackDelivers
