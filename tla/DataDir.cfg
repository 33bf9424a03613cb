\* The first start of a server, and its commands.
SPECIFICATION Spec
CONSTANTS
  DataDirs <- MCDataDirs
  Secrets = {s1}
  None = None
INVARIANTS
  DefaultIsServed
