--------------------------- MODULE MCVelbusClient ---------------------------
\* Instances of VelbusClient for TLC: a request without data, the shortest
\* status, and a longer one whose data holds start bytes and a frame header.
EXTENDS VelbusClient

Request == [prio |-> 3, address |-> 1, rtr |-> 1, data |-> <<>>]
Short == [prio |-> 0, address |-> 15, rtr |-> 0, data |-> <<15>>]
Long == [prio |-> 3, address |-> 2, rtr |-> 0, data |-> <<251, 15, 248, 4, 0, 4>>]

ThreeMessages == {Request, Short, Long}
=============================================================================
