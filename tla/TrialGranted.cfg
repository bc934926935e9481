SPECIFICATION FairSpec
CONSTANTS
  None = None
  Users = {u1}
  Trials = {t1}
  Workers = {w1}
  Cap = 1
  PerUser = 2
  MaxChanges = 1
  Faults = {"timeout", "crash", "lostAnswer"}
PROPERTIES CompletedIsGranted 
CHECK_DEADLOCK FALSE
