--------------------------- MODULE MCCredentialSource ---------------------------
(* Instances of CredentialSource for TLC; their runs check liveness, so without *)
(* symmetry.                                                                    *)
EXTENDS CredentialSource

=============================================================================
