------------------------ MODULE MCCredentialEviction ------------------------
(* Instances of CredentialEviction for TLC. *)
EXTENDS CredentialEviction
=============================================================================
