-------------------------- MODULE MCDoIpConnection --------------------------
(* TLC instances of DoIpConnection: two tester addresses, of which either  *)
(* may be bound, and small pools of send jobs.                             *)
EXTENDS DoIpConnection

CONSTANTS a1, a2, none

TesterAddresses == {a1, a2}
=============================================================================
