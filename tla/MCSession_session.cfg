CONSTANTS
  Tabs = {t1, t2}
  Accounts = {donor, admin}
  donor = donor
  admin = admin
  Tokens = {k1, k2}
  Calls = {c1, c2}
  Routes = {"home", "login", "register", "admin"}
  Role <- MCRole
  Seeded = {admin}
  None = None
SPECIFICATION Spec
CHECK_DEADLOCK FALSE
INVARIANT TypeOK
INVARIANT TabInStep
INVARIANT ActsAsShown
INVARIANT ButtonWaits
SYMMETRY SessionSymmetry
