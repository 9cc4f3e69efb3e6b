CONSTANTS
  r1 = r1
  r2 = r2
  r3 = r3
  u1 = u1
  u2 = u2
  approved1 = approved1
  approved2 = approved2
  pending = pending
  completed = completed
  Requests = {r1, r2, r3}
  Users = {u1, u2}
  Projects = {approved1, pending}
  Target <- MCTarget
  Owner <- MCOwner
  SeedProjects <- MCSeedProjects
  SeedUsers <- MCSeedUsers
  Amounts = {0, 1, 2}
  Verdicts = {"approved", "rejected", "completed"}
  Profiles = {"old", "new"}
  PoolSize = 2
SPECIFICATION Spec
SYMMETRY RequestSymmetry
CHECK_DEADLOCK FALSE
INVARIANTS
  TypeOK
  NoMoneyBeforeApproval
  NoPhantomMoney
  CompletedIsFunded
  UncontestedBooksBalance
PROPERTIES
  KeepsSharedLedger
