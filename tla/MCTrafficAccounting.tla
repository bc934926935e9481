------------------------ MODULE MCTrafficAccounting ------------------------
(* The instance of TrafficAccounting for TLC: its constants are sets of    *)
(* model values, given in Traffic.cfg.                                     *)
EXTENDS TrafficAccounting
=============================================================================
