-------------------------- MODULE MCCredentialFile --------------------------
(* CredentialFile with a long and a short version of the credentials. *)
EXTENDS CredentialFile

MCData == {"short", "long"}
MCSize == [short |-> 1, long |-> 2]

=============================================================================
