SPECIFICATION Spec
CONSTANTS
  Proc = {a, b, c}
  NULL = NULL
  pseudoclock_semaphore = pseudoclock_semaphore
  UserSem = UserSem
  Installed <- MCInstalled
  PSECOND = 3
  DISPATCH = 2
  TIMESLICE = 2
  MaxTime = 4
INVARIANTS
  TypeOK
  NeverUndercharged
  ChargedOnce
  UnitsHaveWaiters
  AnswersItsUnit
PROPERTIES
  NeverBackwards
SYMMETRY MCSymmetry
CHECK_DEADLOCK FALSE
