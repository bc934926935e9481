SPECIFICATION FairSpec
CONSTANTS
  Traffic = {t1, t2, t3}
  MaxBatches = 1
  MaxStats = 2
  Faults = {"disk", "network", "panel", "xray", "crash", "power"}
INVARIANTS TypeOK PendingFits ChargedAtMostOnce
PROPERTIES ImplementsMetering CarriedIsSettled
