------------------------------ MODULE MCSetup -------------------------------
(* The instance of Setup that TLC checks.                                  *)
EXTENDS Setup

MCMethods == [p \in Providers |-> IF p = "nios" THEN {"backup", "wapi"} ELSE {"ntlm", "kerberos"}]
MCSources == [p \in Providers |-> IF p = "nios" THEN {"m1", "m2"} ELSE {"dc1"}]
=============================================================================
