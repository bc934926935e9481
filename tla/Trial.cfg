SPECIFICATION Spec
CONSTANTS
  None = None
  Users = {u1}
  Trials = {t1, t2}
  Workers = {w1, w2}
  Cap = 1
  PerUser = 2
  MaxChanges = 1
  Faults = {"timeout"}
SYMMETRY AnyTrial
INVARIANTS TypeOK 
PROPERTIES ImplementsTrialPromise
CHECK_DEADLOCK FALSE
