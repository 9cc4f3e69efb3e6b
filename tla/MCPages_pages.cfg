CONSTANTS
  project = project
  Items = {project}
  Kind <- MCKind
  Categories = {"all", "other"}
  Matches <- MCMatches
  Limit = 2
  Posts = {s1, s2}
  MaxLoads = 3
  None = None
SPECIFICATION Spec
CHECK_DEADLOCK FALSE
INVARIANT TypeOK
INVARIANT SpinnerIsJustified
INVARIANT ListIsTheOneChosen
INVARIANT PageExists
INVARIANT DecidedIsNotOffered
INVARIANT FormWaits
PROPERTY SpinnersStop
PROPERTY FormsReturn
