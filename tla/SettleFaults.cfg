SPECIFICATION Spec
CONSTANTS
  None = None
  u1 = u1
  u2 = u2
  o1 = o1
  o2 = o2
  c1 = c1
  Users = {u1}
  Orders = {o1}
  OwnerOf <- OneOwner
  Coupons = {c1}
  Partners = {}
  BasePrice <- TwoCents
  DiscountOf <- OneCent
  MaxRedemptions <- CapOne
  MaxPerUser <- CapOne
  Sessions = {s1}
  Channels = {"admin", "confirm", "webhook"}
  Workers = {w1, w2}
  Faults = {"grantError", "dbError", "crash"}
  MaxLostAcks = 1
INVARIANTS TypeOK AtMostOneGrant
PROPERTIES ImplementsEntitlement
SYMMETRY Handlers
CHECK_DEADLOCK FALSE
