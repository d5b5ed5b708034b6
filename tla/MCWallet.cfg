SPECIFICATION Spec
CONSTANTS
  MaxNonce = 4
  None = None
INVARIANT AnsweredOnce DeletedIsGone
PROPERTY AnsweredIsKept
CHECK_DEADLOCK FALSE
