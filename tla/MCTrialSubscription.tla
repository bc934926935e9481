------------------------- MODULE MCTrialSubscription -------------------------
(* Small instances of TrialSubscription for TLC. *)
EXTENDS TrialSubscription, TLC

AnyHandler == Permutations(Workers)
AnyTrial   == Permutations(Trials) \cup AnyHandler
=============================================================================
