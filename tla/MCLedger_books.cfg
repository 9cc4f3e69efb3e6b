CONSTANTS
  r1 = r1
  r2 = r2
  r3 = r3
  u1 = u1
  u2 = u2
  approved1 = approved1
  approved2 = approved2
  pending = pending
  completed = completed
  Requests = {r1, r2}
  Users = {u1}
  Projects = {approved1}
  Target <- MCTarget
  Owner <- MCOwner
  SeedProjects <- MCSeedProjects
  SeedUsers <- MCSeedUsers
  Amounts = {1, 2}
  Verdicts = {}
  Profiles = {"old"}
  PoolSize = 50
SPECIFICATION DonationSpec
SYMMETRY RequestSymmetry
CHECK_DEADLOCK FALSE
INVARIANTS
  BooksBalance
