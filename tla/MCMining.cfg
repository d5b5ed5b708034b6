SPECIFICATION Spec
CONSTANTS
  Worker = {"v"}
  Block <- MCBlock
  Account <- MCAccount
  HasTime <- MCHasTime
  None = None
  MaxBox = 2
  MaxChanges = 2
  MaxCommands = 2
  MaxChecks = 1
  MaxThrows = 1
PROPERTY StopsInTheEnd KeepsUp
