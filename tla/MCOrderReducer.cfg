CONSTANTS
  MaxFilled = 1
  PermanentIds <- MCPermanentIds
SPECIFICATION Spec
INVARIANTS
  TypeOK
  RowAgreesWithTerminalDoc
  CancellationLatched
  DuplicateIsHarmless
PROPERTIES
  TerminalIsFinal
  ConflictIsSticky
  RejectionIsRemembered
  IdentityIsKept
