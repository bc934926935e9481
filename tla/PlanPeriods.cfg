CONSTANTS
    Plans = {p1, p2}
    Capped = {p1}
    Tickets = {k1}
    Usage = {u1}
    Requests = {q1, q2}
    Resets = {r1, r2}
    Expiries = {e1}
    FirstDay <- Calendar
    Duration = 2
    Validity = 2
    Terms <- EarlierTerm
    MaxOps = 2
    None = None
SPECIFICATION FairSpec
INVARIANTS UsageIsResetOnce OnceAPeriod
PROPERTIES EveryPeriodIsReset
\* The clock stops at the calendar's last day.
CHECK_DEADLOCK FALSE
