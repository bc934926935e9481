---------------------------- MODULE MCUuidSlots ----------------------------
(* Small instances of UuidSlots for TLC. *)
EXTENDS UuidSlots, TLC

CONSTANTS n1, n2

\* One Exit is restarted and its requests may be late; those of the other one
\* arrive in their tick.
OneIsSlow == [n \in Nodes |-> IF n = n1 THEN 1 ELSE 0]

SameDevices == Permutations(Devices)
=============================================================================
