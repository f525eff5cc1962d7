SPECIFICATION Spec
CONSTANTS
  r1 = r1
  r2 = r2
  c1 = c1
  c2 = c2
  NoRun = NoRun
  Runs = {r1, r2}
  Contracts = {c1, c2}
  ContractOf <- TwoContracts
  Capacity = 1
  MaxEntries = 1
  MaxReviews = 2
  MaxAlarms = 1
  MaxRestarts = 1
SYMMETRY Swapped
INVARIANTS
  TypeOK
  ExposureIsReserved
  HeldEntryIsCancelled
  EmergencyStopsEntries
PROPERTY
  DispatchIsAuthorized
