------------------------------ MODULE Metering ------------------------------
(***************************************************************************)
(* What the accounting of traffic promises.  A unit that a device sends is *)
(* held in memory, then queued on a disk, then charged, once and for good. *)
(* Only what is in memory may be lost, and what is lost is never charged.  *)
(* TrafficAccounting implements this.                                      *)
(***************************************************************************)
CONSTANT Traffic

VARIABLE meter

States == {"unused", "held", "queued", "charged", "lost"}

Moves == {<<"unused", "held">>, <<"held", "queued">>, <<"held", "lost">>,
          <<"queued", "charged">>}

Init == meter = [t \in Traffic |-> "unused"]

\* A batch queues or charges, and a failure loses, several units at once.
Next == /\ meter' \in [Traffic -> States]
        /\ \A t \in Traffic : meter'[t] # meter[t] => <<meter[t], meter'[t]>> \in Moves

Spec == Init /\ [][Next]_meter
=============================================================================
