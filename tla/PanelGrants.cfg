SPECIFICATION FairSpec
CONSTANTS
  None = None
  u1 = u1
  u2 = u2
  o1 = o1
  o2 = o2
  c1 = c1
  Users = {u1}
  Orders = {o1}
  OwnerOf <- OneOwner
  Coupons = {}
  Partners = {p1}
  BasePrice <- Free
  DiscountOf <- OneCent
  MaxRedemptions <- CapOne
  MaxPerUser <- CapOne
  Sessions = {}
  Channels = {"grant", "promotion", "admin"}
  Workers = {w1, w2}
  Faults = {"grantError"}
  MaxLostAcks = 1
INVARIANTS NoneStranded CommissionIsBacked
PROPERTIES GrantIsResolved
CHECK_DEADLOCK FALSE
