CONSTANTS
  Requests = {r1, r2, r3, r4}
  Usernames = {alice}
  Emails = {mail1, mail2}
  Roles = {"user", "org", "admin"}
SPECIFICATION Spec
SYMMETRY OnboardingSymmetry
CHECK_DEADLOCK FALSE
INVARIANTS
  TypeOK
  OneAccountPerName
  SuccessMeansDone
  PublishedByApprovedOrg
PROPERTIES
  KeepsRegistry
