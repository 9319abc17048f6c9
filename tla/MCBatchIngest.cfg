SPECIFICATION Spec
CONSTANTS
  Bodies <- MCBodies
  MaxAttempts = 3
  Null = Null
INVARIANTS
  AcceptanceAddsUp
  AttemptsLeavePrefixes
