---------------------------- MODULE MCFloorplan ----------------------------
\* An instance of Floorplan for TLC: two blinds, or two controls of which
\* every other kind is one.
EXTENDS Floorplan, TLC

CONSTANTS a1, a2
TwoControls == {a1, a2}
Pair(k1, k2) == {[a \in TwoControls |-> IF a = b THEN k1 ELSE k2] : b \in TwoControls}
Pairs == Pair("blind", "blind") \cup Pair("relay", "gate") \cup Pair("temp", "dimmer")
ControlSymmetry == Permutations(TwoControls)
=============================================================================
