SPECIFICATION Spec
CONSTANTS
  Worker = {"v"}
  Block <- MCBlock
  Account <- MCAccount
  HasTime <- MCNoTimes
  None = None
  MaxBox = 2
  MaxChanges = 2
  MaxCommands = 2
  MaxChecks = 0
  MaxThrows = 0
INVARIANT SilentAfterStop
