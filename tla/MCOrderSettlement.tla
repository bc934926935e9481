------------------------- MODULE MCOrderSettlement -------------------------
(* Small instances of OrderSettlement for TLC. *)
EXTENDS OrderSettlement, TLC

CONSTANTS o1, o2, u1, u2, c1

OneOwner  == [o \in Orders |-> u1]
TwoOwners == [o \in Orders |-> IF o = o1 THEN u1 ELSE u2]
TwoCents  == [o \in Orders |-> 2]
Free      == [o \in Orders |-> 0]
OneCent   == [c \in Codes |-> 1]
CapOne    == [c \in Coupons |-> 1]
Handlers == Permutations(Workers)
=============================================================================
