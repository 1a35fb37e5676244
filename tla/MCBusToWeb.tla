----------------------------- MODULE MCBusToWeb -----------------------------
\* Instances of BusToWeb for TLC: a request without data; a status whose data
\* hold start bytes and a frame header; the interface's RxReady and the same
\* command of another module.  Noise: one byte; a header that announces more
\* data than a message has, and one after which a frame of Long has an end byte
\* in the right place, so that only the checksum tells.
EXTENDS BusToWeb

Request == [prio |-> 3, address |-> 1, rtr |-> 1, data |-> <<>>]
Short == [prio |-> 0, address |-> 12, rtr |-> 0, data |-> <<12>>]
Long == [prio |-> 3, address |-> 2, rtr |-> 0, data |-> <<251, 15, 248, 4, 0, 4>>]
Ready == [prio |-> 0, address |-> 0, rtr |-> 0, data |-> <<12>>]

FourMessages == {Request, Short, Long, Ready}
Disturbances == {<<7>>, <<15, 248, 0, 15>>, <<15, 248, 0, 6>>}
=============================================================================
