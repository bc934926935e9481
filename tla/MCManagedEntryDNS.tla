-------------------------- MODULE MCManagedEntryDNS --------------------------
(* Instances of ManagedEntryDNS for TLC. *)
EXTENDS ManagedEntryDNS
=============================================================================
