\* Starts, edits and commands in any order.
SPECIFICATION Spec
CONSTANTS
  DataDirs <- MCDataDirs
  Secrets = {s1}
  None = None
INVARIANTS
  DeploymentTypeOK
  ServesAgain
  DefaultsNeverSplit
PROPERTIES
  RestartKeepsSettings
