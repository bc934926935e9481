SPECIFICATION FairSpec
CONSTANTS
  None = None
  u1 = u1
  u2 = u2
  o1 = o1
  o2 = o2
  c1 = c1
  Users = {u1, u2}
  Orders = {o1, o2}
  OwnerOf <- TwoOwners
  Coupons = {c1, c2}
  Partners = {}
  BasePrice <- TwoCents
  DiscountOf <- OneCent
  MaxRedemptions <- CapOne
  MaxPerUser <- CapOne
  Sessions = {s1}
  Channels = {"webhook"}
  Workers = {w1}
  Faults = {"grantError", "lostAck"}
  MaxLostAcks = 1
INVARIANTS CountIsLiveReservations ReservedBacksLiveOrder
CHECK_DEADLOCK FALSE
 
