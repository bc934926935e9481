------------------------------- MODULE MCAlerts -------------------------------
(* Instances of Alerts for TLC: the durations in sweeps, shortened. *)
EXTENDS Alerts

AnyFireFor  == [k \in Kinds |-> CASE k = "offline" -> 0 [] k = "xray_down" -> 1 [] OTHER -> 2]
AnyClearFor == [k \in Kinds |-> IF k = "offline" THEN 2 ELSE 1]

=============================================================================
