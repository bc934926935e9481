SPECIFICATION Spec
CONSTANTS
  None = None
  u1 = u1
  u2 = u2
  o1 = o1
  o2 = o2
  c1 = c1
  Users = {u1}
  Orders = {o1, o2}
  OwnerOf <- OneOwner
  Coupons = {}
  Partners = {}
  BasePrice <- TwoCents
  DiscountOf <- OneCent
  MaxRedemptions <- CapOne
  MaxPerUser <- CapOne
  Sessions = {s1}
  Channels = {"webhook"}
  Workers = {w1}
  Faults = {"grantError"}
  MaxLostAcks = 1
INVARIANTS NoneStranded
SYMMETRY Handlers
CHECK_DEADLOCK FALSE
