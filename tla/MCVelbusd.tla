----------------------------- MODULE MCVelbusd -----------------------------
(* Instances of Velbusd for TLC: small sets of clients and kinds.          *)
EXTENDS Velbusd, TLC

CONSTANTS c1, c2

TwoClients == {c1, c2}
OneClient == {c1}
ClientSymmetry == Permutations(TwoClients)

JustData == {"Data"}
FlowAndData == FlowKind \cup {"Data"}

\* What "RxBuffFull" does to clients is left to Gateway and to the proofs.
NoisyBus == (FlowAndData \ {"RxBuffFull"}) \cup {"Garbage"}
=============================================================================
