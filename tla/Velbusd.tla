------------------------------ MODULE Velbusd ------------------------------
(***************************************************************************)
(* The gateway daemon, src/src/velbusd.cpp: one libev loop that relays     *)
(* Velbus frames between a serial interface and any number of TCP clients, *)
(* one message to the serial line per "receive ready" of the interface.    *)
(*                                                                         *)
(* A connection is an element of Client (one struct connection, never used *)
(* twice) or Serial.  A watcher variable is the set of connections whose   *)
(* watcher of that name is active in the loop.  Bytes are abstracted to    *)
(* items: a frame of some kind, or a Garbage byte that no frame starts     *)
(* with.  inbox[c] is what the kernel still has to deliver from c, whose   *)
(* first item may have arrived in part.                                    *)
(***************************************************************************)
EXTENDS Integers, Sequences, FiniteSets

CONSTANTS
    Client,         \* TCP connections that clients may open
    Serial,         \* the serial line (serial.conn)
    ClientKind,     \* kinds of item a client may send
    BusKind,        \* kinds of item the interface may send
    OptimisticBus,  \* WANT_OPTIMISTIC_BUS of configure
    MaxSent,        \* bound: numbered items per client
    MaxBus,         \* bound: numbered items from the interface
    MaxQueue,       \* bound: items of one sender in the kernel's buffer
    MaxStarts       \* bound: times the daemon is started

FlowKind == {"BusOff", "BusActive", "RxBuffFull", "RxReady"}
Kind == FlowKind \cup {"IntStatusRequest", "ModuleTypeRequest", "Data", "Garbage"}
Conn == Client \cup {Serial}

ASSUME ConnAssumption == Serial \notin Client
ASSUME KindAssumption == ClientKind \subseteq Kind /\ BusKind \subseteq Kind
ASSUME OptimisticAssumption == OptimisticBus \in BOOLEAN
ASSUME BoundAssumption ==
    MaxSent \in Nat /\ MaxBus \in Nat /\ MaxQueue \in Nat /\ MaxStarts \in Nat

\* n numbers what its author sends and expects to be relayed; 0 for the rest.
StatusRequest == [kind |-> "IntStatusRequest", src |-> Serial, n |-> 0]
Item == [kind : ClientKind, src : Client, n : 0 .. MaxSent]
        \cup [kind : BusKind \cup FlowKind, src : {Serial}, n : 0 .. MaxBus]
        \cup {StatusRequest}
LogEntry == [id : Conn, msg : Item]
NotRelayed == {"BusActive", "RxBuffFull", "RxReady", "Garbage"}

VARIABLES
    running,          \* the process is in its event loop
    bus_active,       \* serial.bus_active
    rx_ready,         \* serial.rx_ready
    c_network,        \* the list of client connections
    read_ready,       \* active ev_io watchers of connections
    processing_todo,  \* active ev_idle watchers of connections in use
    freed_todo,       \* idle entries libev still holds for memory once freed
    buf,              \* buf[c]: items read and not yet processed
    inbox,            \* inbox[c]: items on their way from c
    peer,             \* peer[c]: has client c connected, is it still there
    sent,             \* sent[c]: numbered items sent so far by c
    outbox,           \* outbox[c]: everything written to client c
    serial_out,       \* everything written to the serial line
    log,              \* the messages logged as relayed
    starts,           \* times the daemon was started
    undefined         \* a callback has run on a freed struct

loop == <<read_ready, processing_todo, freed_todo>>
serialState == <<bus_active, rx_ready>>
output == <<outbox, serial_out, log>>
world == <<peer, sent>>
history == <<starts, undefined>>
vars == <<running, bus_active, rx_ready, c_network, read_ready,
          processing_todo, freed_todo, buf, inbox, peer, sent, outbox,
          serial_out, log, starts, undefined>>

Init ==
    /\ running = TRUE
    /\ bus_active = OptimisticBus
    /\ rx_ready = OptimisticBus
    /\ c_network = {}
    /\ read_ready = {Serial}
    /\ processing_todo = {}
    /\ freed_todo = {}
    /\ buf = [c \in Conn |-> <<>>]
    /\ inbox = [c \in Conn |-> <<>>]
    /\ peer = [c \in Client |-> "new"]
    /\ sent = [c \in Conn |-> 0]
    /\ outbox = [c \in Client |-> <<>>]
    /\ serial_out = <<StatusRequest>>
    /\ log = <<>>
    /\ starts = 1
    /\ undefined = FALSE
-----------------------------------------------------------------------------
(* The end of the process, and its next start by Upstart.                  *)

\* The kernel closes every socket; nothing of the process survives.
Terminate ==
    /\ running' = FALSE
    /\ bus_active' = OptimisticBus
    /\ rx_ready' = OptimisticBus
    /\ c_network' = {}
    /\ read_ready' = {}
    /\ processing_todo' = {}
    /\ freed_todo' = {}
    /\ buf' = [c \in Conn |-> <<>>]
    /\ inbox' = [c \in Conn |-> IF c = Serial THEN inbox[c] ELSE <<>>]
    /\ peer' = [c \in Client |-> IF peer[c] = "new" THEN "new" ELSE "gone"]

\* main(): the serial port is opened (its old input kept or flushed by the
\* driver), the flags are reset and the interface is asked for its status.
Start ==
    /\ ~running /\ starts < MaxStarts
    /\ running' = TRUE
    /\ starts' = starts + 1
    /\ read_ready' = {Serial}
    /\ serial_out' = Append(serial_out, StatusRequest)
    /\ \E kept \in {inbox[Serial], <<>>} :
          inbox' = [inbox EXCEPT ![Serial] = kept]
    /\ UNCHANGED <<serialState, c_network, processing_todo, freed_todo, buf,
                   world, outbox, log, undefined>>

\* SIGINT, SIGTERM, a serial line that fails to read, an accept() that throws.
Exit ==
    /\ running
    /\ Terminate
    /\ UNCHANGED <<sent, output, history>>
-----------------------------------------------------------------------------
(* Destroying connections.                                                 *)

\* The struct of every connection of K is freed.  Only its ev_io was stopped:
\* the idle entry of a connection with work left stays in the loop.
Watchers(K) ==
    /\ read_ready' = read_ready \ K
    /\ processing_todo' = processing_todo \ K
    /\ freed_todo' = freed_todo \cup (processing_todo \cap K)

Disconnect(K) ==
    /\ peer' = [c \in Client |-> IF c \in K THEN "gone" ELSE peer[c]]
    /\ inbox' = [c \in Conn |-> IF c \in K THEN <<>> ELSE inbox[c]]

\* What memory of K still holds: only an idle entry can read it again.
Freed(b, K) ==
    [c \in Conn |-> IF c \in K \ (processing_todo \cup freed_todo)
                    THEN <<>> ELSE b[c]]

kill_connection(c) ==
    /\ c_network' = c_network \ {c}
    /\ Watchers({c})
    /\ Disconnect({c} \cap Client)
    /\ buf' = Freed(buf, {c})
-----------------------------------------------------------------------------
(* Reading.                                                                *)

\* Mutant: the assertion compiled out.
ReadsAlways(c) == TRUE

\* assert( serial.rx_ready || c == &serial.conn )
MayRead(c) == rx_ready \/ c = Serial

\* Processing is queued, and the kernel buffers what comes until it is done.
QueueProcessing(c) ==
    /\ processing_todo' = processing_todo \cup {c}
    /\ read_ready' = read_ready \ {c}

\* A readable connection whose assertion holds; k = 0 is a partial frame.
ready_to_read(c) ==
    /\ running /\ c \in read_ready
    /\ c \in c_network \cup {Serial}
    /\ MayRead(c)
    /\ inbox[c] # <<>>
    /\ \E k \in 0 .. Len(inbox[c]) :
          /\ buf' = [buf EXCEPT ![c] = @ \o SubSeq(inbox[c], 1, k)]
          /\ inbox' = [inbox EXCEPT ![c] = SubSeq(@, k + 1, Len(@))]
    /\ QueueProcessing(c)
    /\ UNCHANGED <<running, serialState, c_network, freed_todo, world, output,
                   history>>

\* EOF or an IO error on a client; a freed struct reads from a closed fd.
ReadFails(c) ==
    /\ running /\ c \in read_ready \ {Serial}
    /\ MayRead(c)
    /\ kill_connection(c)
    /\ UNCHANGED <<running, serialState, sent, output, history>>

AssertionFails(c) ==
    /\ running /\ c \in read_ready \ {Serial}
    /\ ~MayRead(c)
    /\ Terminate
    /\ UNCHANGED <<sent, output, history>>
-----------------------------------------------------------------------------
(* Processing: one item of one connection per invocation.                  *)

\* Also on a struct whose memory was freed, or is that of a freed one.
Processing(c) ==
    /\ running /\ c \in processing_todo \cup freed_todo
    /\ undefined' = (undefined \/ c \in freed_todo)

\* The callback on freed memory may also end the process.
FreedWatcherCrashes(c) ==
    /\ running /\ c \in freed_todo \ c_network
    /\ undefined' = TRUE
    /\ Terminate
    /\ UNCHANGED <<sent, output, starts>>

InsufficientData(c) ==
    /\ Processing(c) /\ buf[c] = <<>>
    /\ processing_todo' = processing_todo \ {c}
    /\ freed_todo' = IF c \in c_network THEN freed_todo ELSE freed_todo \ {c}
    /\ read_ready' = read_ready \cup {c}
    /\ UNCHANGED <<running, serialState, c_network, buf, inbox, world, output,
                   starts>>

\* One item leaves the front of the buffer.
Consume(c) == buf' = [buf EXCEPT ![c] = Tail(@)]

FormError(c) ==
    /\ Processing(c) /\ buf[c] # <<>> /\ Head(buf[c]).kind = "Garbage"
    /\ Consume(c)
    /\ UNCHANGED <<running, serialState, c_network, loop, inbox, world, output,
                   starts>>

Parsed(c, m) ==
    /\ Processing(c)
    /\ buf[c] # <<>> /\ m = Head(buf[c]) /\ m.kind # "Garbage"

\* Mutants: only the reading stops; only those with data are started again.
StopsReadingOnly ==
    /\ read_ready' = read_ready \ c_network
    /\ UNCHANGED processing_todo
StartsThoseWithData ==
    processing_todo' = processing_todo \cup {c \in c_network : buf[c] # <<>>}

stop_all_net_watchers ==
    /\ read_ready' = read_ready \ c_network
    /\ processing_todo' = processing_todo \ c_network

\* Only the idle watchers: they start the reading again when there is no work.
start_all_net_watchers == processing_todo' = processing_todo \cup c_network

\* The interface's own flow control, never relayed.
BusActive(m) ==
    /\ Parsed(Serial, m) /\ m.kind = "BusActive"
    /\ Consume(Serial)
    /\ bus_active' = TRUE
    /\ UNCHANGED <<running, rx_ready, c_network, loop, inbox, world, output,
                   starts>>

RxBuffFull(m) ==
    /\ Parsed(Serial, m) /\ m.kind = "RxBuffFull"
    /\ Consume(Serial)
    /\ rx_ready' = FALSE
    /\ stop_all_net_watchers
    /\ UNCHANGED <<running, bus_active, c_network, freed_todo, inbox, world,
                   output, starts>>

RxReady(m) ==
    /\ Parsed(Serial, m) /\ m.kind = "RxReady"
    /\ Consume(Serial)
    /\ rx_ready' = TRUE
    /\ start_all_net_watchers
    /\ UNCHANGED <<running, bus_active, c_network, read_ready, freed_todo,
                   inbox, world, output, starts>>

\* Mutants: no status request; a write that is repeated; the log line only for
\* clients; a relay loop that echoes to the sender, or ends at the first failure.
WritesMessageOnly(m) == serial_out' = Append(serial_out, m)
WritesTwice(m) == serial_out' = serial_out \o <<m, StatusRequest, m>>
LogsClientsOnly(c, m) ==
    log' = IF c = Serial THEN log ELSE Append(log, [id |-> c, msg |-> m])
EchoesToSender(c, m, failed) ==
    outbox' = [d \in Client |-> IF d \in c_network \ failed
                                THEN Append(outbox[d], m) ELSE outbox[d]]
EndsAtFailure(c, m, failed) ==
    outbox' = [d \in Client |-> IF d \in c_network \ {c} /\ failed = {}
                                THEN Append(outbox[d], m) ELSE outbox[d]]

\* The message, followed by a status request.
WritesToSerial(m) == serial_out' = serial_out \o <<m, StatusRequest>>

Logged(c, m) == log' = Append(log, [id |-> c, msg |-> m])

\* The relay loop: m to every connection but its own and those that fail.
Relay(c, m, failed) ==
    outbox' = [d \in Client |-> IF d \in c_network \ (failed \cup {c})
                                THEN Append(outbox[d], m) ELSE outbox[d]]

\* kill_all_connections, then the message is logged and relayed to nobody.
BusOff(m) ==
    /\ Parsed(Serial, m) /\ m.kind = "BusOff"
    /\ bus_active' = FALSE
    /\ c_network' = {}
    /\ Watchers(c_network)
    /\ Disconnect(c_network)
    /\ buf' = Freed([buf EXCEPT ![Serial] = Tail(@)], c_network)
    /\ Logged(Serial, m)
    /\ UNCHANGED <<running, rx_ready, sent, outbox, serial_out, starts>>

FromBus(m, failed) ==
    /\ Parsed(Serial, m) /\ m.kind \notin FlowKind
    /\ failed \subseteq c_network
    /\ Logged(Serial, m)
    /\ Relay(Serial, m, failed)
    /\ c_network' = c_network \ failed
    /\ Watchers(failed)
    /\ Disconnect(failed)
    /\ buf' = Freed([buf EXCEPT ![Serial] = Tail(@)], failed)
    /\ UNCHANGED <<running, serialState, sent, serial_out, starts>>

\* From a client: to the serial line with a status request behind it, every
\* client stopped until the interface answers, then to the other clients.
FromClient(c, m, failed) ==
    /\ c # Serial /\ Parsed(c, m)
    /\ failed \subseteq c_network \ {c}
    /\ Logged(c, m)
    /\ WritesToSerial(m)
    /\ rx_ready' = FALSE
    /\ stop_all_net_watchers
    /\ Relay(c, m, failed)
    /\ c_network' = c_network \ failed
    /\ Disconnect(failed)
    /\ buf' = [d \in Conn |-> IF d = c THEN Tail(buf[c])
                              ELSE IF d \in failed \ freed_todo THEN <<>>
                              ELSE buf[d]]
    /\ UNCHANGED <<running, bus_active, freed_todo, sent, starts>>

\* An IOError of the serial line leaves the callback: the process ends, with
\* the message written or not and already logged.
SerialWriteFails(c, m) ==
    /\ c # Serial /\ Parsed(c, m)
    /\ Logged(c, m)
    /\ serial_out' \in {serial_out, Append(serial_out, m)}
    /\ Terminate
    /\ UNCHANGED <<sent, outbox, starts>>

process_read_data(c) ==
    \/ InsufficientData(c)
    \/ FormError(c)
    \/ /\ buf[c] # <<>>
       /\ LET m == Head(buf[c]) IN
          \/ c = Serial /\ (BusActive(m) \/ RxBuffFull(m) \/ RxReady(m))
          \/ c = Serial /\ BusOff(m)
          \/ c = Serial /\ \E failed \in SUBSET c_network : FromBus(m, failed)
          \/ \E failed \in SUBSET c_network : FromClient(c, m, failed)
          \/ SerialWriteFails(c, m)
-----------------------------------------------------------------------------
(* Accepting.                                                              *)

Pending(c) == running /\ peer[c] = "open" /\ c \notin c_network

\* The bus is off, or fcntl() failed: the socket is closed on return.
ConnectionRefused(c) ==
    /\ Pending(c)
    /\ Disconnect({c})
    /\ UNCHANGED <<running, serialState, c_network, loop, buf, sent, output,
                   history>>

\* Mutant: the bus is not looked at.
AcceptsAlways(c) == Pending(c)

Acceptable(c) == Pending(c) /\ bus_active

\* The new struct may get the memory of a freed one, idle entry included.
ConnectionKept(c) ==
    /\ Acceptable(c)
    /\ c_network' = c_network \cup {c}
    /\ read_ready' = read_ready \cup {c}
    /\ \/ UNCHANGED <<freed_todo, buf>>
       \/ \E f \in freed_todo \ c_network :
             /\ freed_todo' = (freed_todo \ {f}) \cup {c}
             /\ buf' = [buf EXCEPT ![f] = <<>>]
    /\ UNCHANGED <<running, serialState, processing_todo, inbox, world, output,
                   history>>

incomming_connection(c) == ConnectionRefused(c) \/ ConnectionKept(c)
-----------------------------------------------------------------------------
(* The clients and the bus.                                                *)

ClientConnects(c) ==
    /\ running /\ peer[c] = "new"
    /\ peer' = [peer EXCEPT ![c] = "open"]
    /\ UNCHANGED <<running, serialState, c_network, loop, buf, inbox, sent,
                   output, history>>

Sends(x, k, numbered, max) ==
    /\ Len(inbox[x]) < MaxQueue
    /\ numbered => sent[x] < max
    /\ sent' = [sent EXCEPT ![x] = IF numbered THEN @ + 1 ELSE @]
    /\ inbox' = [inbox EXCEPT ![x] = Append(@,
                    [kind |-> k, src |-> x,
                     n |-> IF numbered THEN sent[x] + 1 ELSE 0])]
    /\ UNCHANGED <<running, serialState, c_network, loop, buf, peer, output,
                   history>>

ClientSends(c) ==
    /\ peer[c] = "open"
    /\ \E k \in ClientKind : Sends(c, k, k # "Garbage", MaxSent)

BusSends ==
    \E k \in BusKind : Sends(Serial, k, k \notin NotRelayed, MaxBus)

Daemon ==
    \/ \E c \in Conn :
          \/ ready_to_read(c)
          \/ ReadFails(c)
          \/ AssertionFails(c)
          \/ process_read_data(c)
          \/ FreedWatcherCrashes(c)
    \/ \E c \in Client : incomming_connection(c)
    \/ Exit
    \/ Start

Clients == \E c \in Client : ClientConnects(c) \/ ClientSends(c)

Next == Daemon \/ Clients \/ BusSends

Spec == Init /\ [][Next]_vars
-----------------------------------------------------------------------------
(* Properties.                                                             *)

Items(q) == {q[i] : i \in 1 .. Len(q)}

\* Every variable has its type; the active watchers in use belong to live
\* connections, and a live connection is one whose client is connected.
TypeOK ==
    /\ running \in BOOLEAN /\ bus_active \in BOOLEAN /\ rx_ready \in BOOLEAN
    /\ c_network \in SUBSET {c \in Client : peer[c] = "open"}
    /\ read_ready \in SUBSET Conn
    /\ processing_todo \in SUBSET (c_network \cup {Serial})
    /\ freed_todo \in SUBSET Client
    /\ buf \in [Conn -> Seq(Item)]
    /\ inbox \in [Conn -> Seq(Item)]
    /\ peer \in [Client -> {"new", "open", "gone"}]
    /\ sent \in [Conn -> Nat]
    /\ outbox \in [Client -> Seq(Item)]
    /\ serial_out \in Seq(Item)
    /\ log \in Seq(LogEntry)
    /\ starts \in Nat /\ undefined \in BOOLEAN

\* No client is connected while the bus is off: incomming_connection (279-282)
\* and process_read_data (217-219) keep the list and the flag in step, over
\* every interleaving of accepts with BusOff and BusActive.
BusOffMeansNoClients == ~bus_active => c_network = {}

\* Nobody is forgotten by the loop.  The serial line is either watched for
\* input or has input to process, never both and never neither; a client is
\* one of the two whenever the interface is ready (ready_to_read 182-192,
\* process_read_data 203-206, 229, 236, 251 each stop one watcher and start
\* another, in callbacks that run in any order).
Served ==
    /\ running => Serial \in read_ready \cup processing_todo
    /\ ~(Serial \in read_ready /\ Serial \in processing_todo)
    /\ rx_ready => c_network \subseteq read_ready \cup processing_todo

\* While the interface has no room, no live client has an active idle watcher:
\* the code never tests rx_ready before it writes to the serial line, and
\* relies on stop_all_net_watchers (229, 251) and on the assertion (165).
IdleOnlyWhenReady == processing_todo \cap Client # {} => rx_ready

\* A connection is read only when all it sent before has been processed: at
\* most one read() of data is held in memory, the kernel buffers the rest
\* (comment at 188-191).
ReadsOnlyWhenDrained ==
    \A c \in c_network \cup {Serial} : c \in read_ready => buf[c] = <<>>

\* What makes the four above inductive: a stopped process keeps nothing, and a
\* connection that was not accepted yet has no data.
Stopped ==
    ~running => /\ c_network = {} /\ read_ready = {}
                /\ processing_todo = {} /\ freed_todo = {}
                /\ \A c \in Conn : buf[c] = <<>>
FreshBuffers == \A c \in Client \ c_network : peer[c] # "gone" => buf[c] = <<>>
InStep ==
    /\ BusOffMeansNoClients /\ Served /\ IdleOnlyWhenReady
    /\ ReadsOnlyWhenDrained /\ Stopped /\ FreshBuffers
IInv == TypeOK /\ InStep

\* The numbered items of x in q are those after number lo up to hi, in order.
Run(q, x, lo, hi) ==
    LET own == {i \in 1 .. Len(q) : q[i].src = x /\ q[i].n > 0}
    IN /\ {q[i].n : i \in own} = lo + 1 .. hi
       /\ \A i, j \in own : i < j => q[i].n < q[j].n

\* Nothing a connected client sends is lost, duplicated or reordered on its
\* way to the serial line, whatever stops, restarts and flow control happen:
\* written, waiting in the daemon and waiting in the kernel are its items 1..n.
Conserved ==
    \A c \in c_network : Run(serial_out \o buf[c] \o inbox[c], c, 0, sent[c])

\* A client sees every message of the bus from its connection on, in order and
\* once: what it got, what is being processed and what is still to be read end
\* with the newest message of the bus and have no gap.
BroadcastComplete ==
    \A c \in c_network : \E k \in 0 .. sent[Serial] :
        Run(outbox[c] \o buf[Serial] \o inbox[Serial], Serial, k, sent[Serial])

\* A message of a live client goes out only when the interface is ready, and
\* the daemon then waits ("And wait until the module replies it's free", 250),
\* as long as no callback has run on a freed struct.
OneMessagePerReady ==
    [][(Len(log') > Len(log) /\ log'[Len(log')].id # Serial /\ ~undefined')
          => rx_ready /\ (~rx_ready' \/ ~running')]_vars

\* "Remove from event loop" (kill_connection, 106): once a connection is
\* destroyed, no watcher of its struct is left in the loop.
RemovedFromLoop == freed_todo = {}

\* assert(serial.rx_ready || c == &serial.conn) (165): a client is readable and
\* watched only while the interface is ready.
AssertionHolds ==
    \A c \in read_ready \cap c_network : inbox[c] # <<>> => rx_ready

\* The daemon is an atomic broadcast of the messages it logs.
Broadcast == INSTANCE Hub
    WITH Member <- Client, Author <- Conn, Message <- Item,
         members <- c_network, view <- outbox
ImplementsHub == Broadcast!Spec

\* Any two clients agree on the order of what both received: each was sent a
\* stretch of the log up to its end, without what it wrote itself.
RelayAgreement == Broadcast!Agreement
=============================================================================
