----------------------------- MODULE MCGateway -----------------------------
(* Instances of Gateway for TLC.                                           *)
EXTENDS Gateway

CONSTANTS c1, c2

TwoClients == {c1, c2}
JustData == {"Data"}
=============================================================================
