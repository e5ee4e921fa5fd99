---------------------- MODULE MCCredentialRevocation ----------------------
(***************************************************************************)
(* An instance of CredentialRevocation: a credential that expires before   *)
(* its cache entry would.                                                  *)
(***************************************************************************)
EXTENDS CredentialRevocation

ExpiresSoon == [k \in Keys |-> 1]
=============================================================================
