--------------------------- MODULE MCStateStream ---------------------------
\* Instances of StateStream for TLC.
EXTENDS StateStream

CONSTANTS b1, b2, on, off
OnePage == {b1}
TwoPages == {b1, b2}
OnOff == {on, off}
=============================================================================
