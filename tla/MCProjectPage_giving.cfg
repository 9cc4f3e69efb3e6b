CONSTANTS
  Projects = {p1, p2}
  Gifts = {g1, g2}
  Amounts = {0, 10}
  MaxLoads = 3
  ListLimit = 1
  None = None
SPECIFICATION Spec
CHECK_DEADLOCK FALSE
INVARIANT TypeOK
INVARIANT OneGiftAtATime
INVARIANT DonorSeesGift
PROPERTY KeepsPromise
PROPERTY DonorsAreAnswered
PROPERTY SpinnerEnds
