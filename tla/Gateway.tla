------------------------------ MODULE Gateway ------------------------------
(***************************************************************************)
(* velbusd together with its serial interface module.  The interface is    *)
(* hardware, modelled from what src/src/velbusd.cpp expects of it: it      *)
(* answers a status request with its bus and buffer state (156-160) and    *)
(* says RxReady once a buffer it reported full has room again.  Its bus    *)
(* stays on here; Velbusd covers the loss of the bus.                      *)
(***************************************************************************)
EXTENDS Velbusd

\* What the interface says of itself comes from its actions below, and no client
\* asks it for its status: the daemon would take the answer for its own.
ASSUME InterfaceAssumption ==
    BusKind \cap FlowKind = {} /\ "IntStatusRequest" \notin ClientKind

VARIABLES
    taken,  \* items of serial_out that the interface has received
    room    \* "room", "full", or "told": full and reported so

gatewayVars == <<vars, taken, room>>

GatewayInit == Init /\ taken = 0 /\ room = "room"

NextItem == serial_out[taken + 1]
Flow(k) == [kind |-> k, src |-> Serial, n |-> 0]
InterfaceWrites(q) ==
    /\ inbox' = [inbox EXCEPT ![Serial] = @ \o q]
    /\ UNCHANGED <<running, serialState, c_network, loop, buf, world, output,
                   history>>

\* The answer is a combination of bus state and buffer state.
InterfaceAnswers ==
    /\ taken < Len(serial_out) /\ NextItem.kind = "IntStatusRequest"
    /\ Len(inbox[Serial]) + 2 <= MaxQueue
    /\ taken' = taken + 1
    /\ IF room = "room"
       THEN /\ InterfaceWrites(<<Flow("BusActive"), Flow("RxReady")>>)
            /\ UNCHANGED room
       ELSE /\ InterfaceWrites(<<Flow("BusActive"), Flow("RxBuffFull")>>)
            /\ room' = "told"

\* A message for the bus; it may fill the buffer, and is lost if it was full.
InterfaceTakes ==
    /\ taken < Len(serial_out) /\ NextItem.kind # "IntStatusRequest"
    /\ taken' = taken + 1
    /\ IF room = "room" THEN room' \in {"room", "full"} ELSE UNCHANGED room
    /\ UNCHANGED vars

InterfaceDrains ==
    /\ room # "room"
    /\ room = "told" => Len(inbox[Serial]) < MaxQueue
    /\ room' = "room"
    /\ InterfaceWrites(IF room = "told" THEN <<Flow("RxReady")>> ELSE <<>>)
    /\ UNCHANGED taken

Interface == InterfaceAnswers \/ InterfaceTakes \/ InterfaceDrains

GatewayNext ==
    \/ (Daemon \/ Clients \/ BusSends) /\ UNCHANGED <<taken, room>>
    \/ Interface

\* libev calls back a watcher that stays active and ready.  Reading is strongly
\* fair: a frame comes in finitely many pieces, and in every iteration readable
\* sockets are served before idle watchers, which alone can stop them.
Reads(c) == ready_to_read(c) /\ inbox'[c] # inbox[c]

Fairness ==
    /\ \A c \in Conn :
          /\ SF_gatewayVars(Reads(c) /\ UNCHANGED <<taken, room>>)
          /\ WF_gatewayVars(process_read_data(c) /\ UNCHANGED <<taken, room>>)
    /\ \A c \in Client :
          WF_gatewayVars(incomming_connection(c) /\ UNCHANGED <<taken, room>>)
    /\ WF_gatewayVars(InterfaceAnswers)
    /\ WF_gatewayVars(InterfaceTakes)
    /\ WF_gatewayVars(InterfaceDrains)

GatewaySpec == GatewayInit /\ [][GatewayNext]_gatewayVars /\ Fairness
-----------------------------------------------------------------------------
\* Messages of clients on the serial line that the interface has yet to get.
Outstanding ==
    {i \in taken + 1 .. Len(serial_out) : serial_out[i].kind # "IntStatusRequest"}

\* The flow control knows one question and its answer.  There are more once
\* the daemon was started again (an answer to the process before it may still
\* come), when it is built to be ready before the first answer, and when a
\* callback has run on a freed struct.
FirstLife == starts = 1 /\ ~OptimisticBus /\ ~undefined

\* "And wait until the module replies it's free" (velbusd.cpp:250): of all the
\* messages the interface has yet to get, the line holds at most one.
WaitsForReply == FirstLife => Cardinality(Outstanding) <= 1

\* The flow control does its job: no message reaches an interface whose buffer
\* is full, over all delays of its answers.
NoOverrun ==
    [][(taken' # taken /\ FirstLife /\ NextItem.kind # "IntStatusRequest")
          => room = "room"]_gatewayVars

\* What a client sent gets to the serial line, through every stop of its
\* watchers (229, 251) and every restart (236), or the connection is gone.
Delivered ==
    \A c \in Client : \A n \in 1 .. MaxSent :
        (sent[c] >= n) ~> \/ peer[c] = "gone"
                          \/ \E m \in Items(serial_out) : m.src = c /\ m.n = n

\* A closed gate opens again: after each message the daemon hears RxReady.
GateReopens == (running /\ ~rx_ready) ~> (rx_ready \/ ~running)
=============================================================================
