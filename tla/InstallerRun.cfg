SPECIFICATION Spec
CONSTANTS
  MaxCommands = 2
  MaxRuns = 2
  MaxOwner = 3
INVARIANTS OwnerKeeps EvidenceOfWrites AppliedIsConfirmed
CHECK_DEADLOCK FALSE
