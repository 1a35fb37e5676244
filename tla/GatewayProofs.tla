---------------------------- MODULE GatewayProofs ----------------------------
(***************************************************************************)
(* What holds of velbusd for any clients, any kinds of item, either build  *)
(* and any bounds.  First the event loop: its watchers and flags stay in   *)
(* step, and it implements Hub.  Then what it does with the messages       *)
(* themselves: none is lost, doubled or moved between a client and the     *)
(* serial line, and none is missing in what a client sees of the bus.      *)
(* Last the flow control with the interface, which never has more than one *)
(* question of the daemon, or one answer, under way.                       *)
(***************************************************************************)
EXTENDS Gateway, Induction, SequenceTheorems

-----------------------------------------------------------------------------
(* Facts about sequences and items.                                        *)

LEMMA TailInSeq ==
    ASSUME NEW S, NEW q \in Seq(S), q # <<>>
    PROVE  Tail(q) \in Seq(S) /\ Head(q) \in S
OBVIOUS

LEMMA SplitInSeq ==
    ASSUME NEW S, NEW q \in Seq(S), NEW r \in Seq(S), NEW k \in 0 .. Len(q)
    PROVE  /\ r \o SubSeq(q, 1, k) \in Seq(S)
           /\ SubSeq(q, k + 1, Len(q)) \in Seq(S)
OBVIOUS

LEMMA StatusRequestIsItem == StatusRequest \in Item
BY DEF Item

LEMMA PairInSeq ==
    ASSUME NEW q \in Seq(Item), NEW m \in Item
    PROVE  q \o <<m, StatusRequest>> \in Seq(Item)
<1>1. <<m, StatusRequest>> \in Seq(Item)
  BY StatusRequestIsItem
<1> QED
  BY <1>1
-----------------------------------------------------------------------------
(* Type correctness.                                                       *)

LEMMA TypeInit == Init => TypeOK
<1> SUFFICES ASSUME Init PROVE TypeOK
  OBVIOUS
<1>1. /\ running \in BOOLEAN /\ bus_active \in BOOLEAN /\ rx_ready \in BOOLEAN
      /\ undefined \in BOOLEAN /\ starts \in Nat
  BY OptimisticAssumption DEF Init
<1>2. /\ c_network \in SUBSET {c \in Client : peer[c] = "open"}
      /\ read_ready \in SUBSET Conn /\ freed_todo \in SUBSET Client
      /\ processing_todo \in SUBSET (c_network \cup {Serial})
  BY DEF Init, Conn
<1>3. /\ buf \in [Conn -> Seq(Item)] /\ inbox \in [Conn -> Seq(Item)]
      /\ outbox \in [Client -> Seq(Item)] /\ log \in Seq(LogEntry)
  BY DEF Init
<1>4. /\ peer \in [Client -> {"new", "open", "gone"}] /\ sent \in [Conn -> Nat]
  BY DEF Init
<1>5. serial_out \in Seq(Item)
  BY StatusRequestIsItem DEF Init
<1> QED
  BY <1>1, <1>2, <1>3, <1>4, <1>5 DEF TypeOK

LEMMA TypeTerminate ==
    ASSUME TypeOK, Terminate
    PROVE  /\ running' \in BOOLEAN /\ bus_active' \in BOOLEAN /\ rx_ready' \in BOOLEAN
           /\ c_network' \in SUBSET {c \in Client : peer'[c] = "open"}
           /\ read_ready' \in SUBSET Conn
           /\ processing_todo' \in SUBSET (c_network' \cup {Serial})
           /\ freed_todo' \in SUBSET Client
           /\ buf' \in [Conn -> Seq(Item)]
           /\ inbox' \in [Conn -> Seq(Item)]
           /\ peer' \in [Client -> {"new", "open", "gone"}]
<1>1. buf' \in [Conn -> Seq(Item)] /\ inbox' \in [Conn -> Seq(Item)]
  BY DEF TypeOK, Terminate
<1>2. peer' \in [Client -> {"new", "open", "gone"}]
  BY DEF TypeOK, Terminate
<1>3. /\ running' \in BOOLEAN /\ bus_active' \in BOOLEAN /\ rx_ready' \in BOOLEAN
      /\ c_network' = {} /\ read_ready' = {} /\ processing_todo' = {}
      /\ freed_todo' = {}
  BY OptimisticAssumption DEF Terminate
<1> QED
  BY <1>1, <1>2, <1>3

\* Destroying the connections of K keeps every type.
LEMMA TypeKill ==
    ASSUME TypeOK, NEW K \in SUBSET Client,
           c_network' = c_network \ K, Watchers(K), Disconnect(K)
    PROVE  /\ c_network' \in SUBSET {c \in Client : peer'[c] = "open"}
           /\ read_ready' \in SUBSET Conn
           /\ processing_todo' \in SUBSET (c_network' \cup {Serial})
           /\ freed_todo' \in SUBSET Client
           /\ inbox' \in [Conn -> Seq(Item)]
           /\ peer' \in [Client -> {"new", "open", "gone"}]
<1>1. c_network' \in SUBSET {c \in Client : peer'[c] = "open"}
  BY DEF TypeOK, Disconnect
<1>2. processing_todo' \in SUBSET (c_network' \cup {Serial})
  BY DEF TypeOK, Watchers
<1>3. freed_todo' \in SUBSET Client /\ read_ready' \in SUBSET Conn
  BY DEF TypeOK, Watchers
<1>4. inbox' \in [Conn -> Seq(Item)]
  BY DEF TypeOK, Disconnect
<1>5. peer' \in [Client -> {"new", "open", "gone"}]
  BY DEF TypeOK, Disconnect
<1> QED
  BY <1>1, <1>2, <1>3, <1>4, <1>5

LEMMA TypeFreed ==
    ASSUME NEW b \in [Conn -> Seq(Item)], NEW K
    PROVE  Freed(b, K) \in [Conn -> Seq(Item)]
BY DEF Freed

LEMMA TypeConsumed ==
    ASSUME TypeOK, NEW c \in Conn, buf[c] # <<>>
    PROVE  /\ [buf EXCEPT ![c] = Tail(@)] \in [Conn -> Seq(Item)]
           /\ Head(buf[c]) \in Item
<1>1. buf[c] \in Seq(Item)
  BY DEF TypeOK
<1>2. Tail(buf[c]) \in Seq(Item) /\ Head(buf[c]) \in Item
  BY <1>1, TailInSeq
<1> QED
  BY <1>2 DEF TypeOK

LEMMA TypeLogged ==
    ASSUME TypeOK, NEW c \in Conn, NEW m \in Item, Logged(c, m)
    PROVE  log' \in Seq(LogEntry)
<1>1. [id |-> c, msg |-> m] \in LogEntry
  BY DEF LogEntry
<1> QED
  BY <1>1 DEF TypeOK, Logged

LEMMA TypeRelay ==
    ASSUME TypeOK, NEW c, NEW m \in Item, NEW failed, Relay(c, m, failed)
    PROVE  outbox' \in [Client -> Seq(Item)]
BY DEF TypeOK, Relay

\* An action that ends the process, having written q to the serial line.
LEMMA TypeEnds ==
    ASSUME TypeOK, Terminate, UNCHANGED <<sent, outbox, starts>>,
           serial_out' \in Seq(Item), log' \in Seq(LogEntry),
           undefined' \in BOOLEAN
    PROVE  TypeOK'
<1>1. sent' \in [Conn -> Nat] /\ outbox' \in [Client -> Seq(Item)] /\ starts' \in Nat
  BY DEF TypeOK
<1> QED
  BY <1>1, TypeTerminate DEF TypeOK

LEMMA TypeReading ==
    ASSUME TypeOK, NEW c \in Conn,
           ready_to_read(c) \/ ReadFails(c) \/ AssertionFails(c)
    PROVE  TypeOK'
<1>1. CASE ready_to_read(c)
  <2>1. buf' \in [Conn -> Seq(Item)] /\ inbox' \in [Conn -> Seq(Item)]
    <3>1. PICK k \in 0 .. Len(inbox[c]) :
             /\ buf' = [buf EXCEPT ![c] = @ \o SubSeq(inbox[c], 1, k)]
             /\ inbox' = [inbox EXCEPT ![c] = SubSeq(@, k + 1, Len(@))]
      BY <1>1 DEF ready_to_read
    <3>2. inbox[c] \in Seq(Item) /\ buf[c] \in Seq(Item)
      BY DEF TypeOK
    <3>3. /\ buf[c] \o SubSeq(inbox[c], 1, k) \in Seq(Item)
          /\ SubSeq(inbox[c], k + 1, Len(inbox[c])) \in Seq(Item)
      BY <3>2, SplitInSeq
    <3> QED
      BY <3>1, <3>3 DEF TypeOK
  <2>2. /\ processing_todo' \in SUBSET (c_network \cup {Serial})
        /\ read_ready' \in SUBSET Conn
    BY <1>1 DEF ready_to_read, QueueProcessing, TypeOK
  <2> QED
    BY <1>1, <2>1, <2>2
       DEF ready_to_read, TypeOK, serialState, world, output, history
<1>2. CASE ReadFails(c)
  <2>1. c \in Client /\ {c} \cap Client = {c}
    BY <1>2 DEF ReadFails, Conn
  <2>2. c_network' = c_network \ {c} /\ Watchers({c}) /\ Disconnect({c})
    BY <1>2, <2>1 DEF ReadFails, kill_connection
  <2>3. buf' \in [Conn -> Seq(Item)]
    BY <1>2, TypeFreed DEF ReadFails, kill_connection, TypeOK
  <2> QED
    BY <1>2, <2>1, <2>2, <2>3, TypeKill
       DEF ReadFails, TypeOK, serialState, output, history
<1>3. CASE AssertionFails(c)
  BY <1>3, TypeEnds DEF AssertionFails, TypeOK, output, history
<1> QED
  BY <1>1, <1>2, <1>3

LEMMA TypeFlowControl ==
    ASSUME TypeOK, NEW m, BusActive(m) \/ RxBuffFull(m) \/ RxReady(m) \/ BusOff(m)
    PROVE  TypeOK'
<1> Serial \in Conn /\ buf[Serial] # <<>>
  BY DEF Conn, BusActive, RxBuffFull, RxReady, BusOff, Parsed
<1>0. /\ [buf EXCEPT ![Serial] = Tail(@)] \in [Conn -> Seq(Item)]
      /\ Head(buf[Serial]) \in Item
  BY TypeConsumed
<1>u. undefined' \in BOOLEAN
  BY DEF BusActive, RxBuffFull, RxReady, BusOff, Parsed, Processing, TypeOK
<1>1. CASE BusActive(m)
  BY <1>1, <1>0, <1>u
     DEF BusActive, Consume, TypeOK, loop, world, output
<1>2. CASE RxBuffFull(m)
  <2>1. /\ processing_todo' \in SUBSET (c_network \cup {Serial})
        /\ read_ready' \in SUBSET Conn
    BY <1>2 DEF RxBuffFull, TypeOK, stop_all_net_watchers
  <2> QED
    BY <1>2, <1>0, <1>u, <2>1 DEF RxBuffFull, Consume, TypeOK, world, output
<1>3. CASE RxReady(m)
  <2>1. processing_todo' \in SUBSET (c_network \cup {Serial})
    BY <1>3 DEF RxReady, TypeOK, start_all_net_watchers
  <2> QED
    BY <1>3, <1>0, <1>u, <2>1 DEF RxReady, Consume, TypeOK, world, output
<1>4. CASE BusOff(m)
  <2>1. buf' \in [Conn -> Seq(Item)]
    BY <1>4, <1>0, TypeFreed DEF BusOff
  <2>2. c_network' = c_network \ c_network /\ c_network \in SUBSET Client
    BY <1>4 DEF BusOff, TypeOK
  <2>3. log' \in Seq(LogEntry)
    BY <1>4, <1>0, TypeLogged DEF BusOff, Parsed
  <2>4. /\ c_network' \in SUBSET {c \in Client : peer'[c] = "open"}
        /\ read_ready' \in SUBSET Conn
        /\ processing_todo' \in SUBSET (c_network' \cup {Serial})
        /\ freed_todo' \in SUBSET Client
        /\ inbox' \in [Conn -> Seq(Item)]
        /\ peer' \in [Client -> {"new", "open", "gone"}]
    BY <1>4, <2>2, TypeKill DEF BusOff
  <2> QED
    BY <1>4, <1>u, <2>1, <2>3, <2>4 DEF BusOff, TypeOK
<1> QED
  BY <1>1, <1>2, <1>3, <1>4

LEMMA TypeFromBus ==
    ASSUME TypeOK, NEW m, NEW failed \in SUBSET c_network, FromBus(m, failed)
    PROVE  TypeOK'
<1> Serial \in Conn /\ buf[Serial] # <<>> /\ failed \in SUBSET Client
  BY DEF Conn, FromBus, Parsed, TypeOK
<1>1. /\ [buf EXCEPT ![Serial] = Tail(@)] \in [Conn -> Seq(Item)]
      /\ m \in Item
  BY TypeConsumed DEF FromBus, Parsed
<1>2. buf' \in [Conn -> Seq(Item)]
  BY <1>1, TypeFreed DEF FromBus
<1>3. log' \in Seq(LogEntry)
  BY <1>1, TypeLogged DEF FromBus
<1>4. outbox' \in [Client -> Seq(Item)]
  BY <1>1, TypeRelay DEF FromBus
<1>5. undefined' \in BOOLEAN
  BY DEF FromBus, Parsed, Processing, TypeOK
<1>6. /\ c_network' \in SUBSET {c \in Client : peer'[c] = "open"}
      /\ read_ready' \in SUBSET Conn
      /\ processing_todo' \in SUBSET (c_network' \cup {Serial})
      /\ freed_todo' \in SUBSET Client
      /\ inbox' \in [Conn -> Seq(Item)]
      /\ peer' \in [Client -> {"new", "open", "gone"}]
  BY TypeKill DEF FromBus
<1> QED
  BY <1>2, <1>3, <1>4, <1>5, <1>6 DEF FromBus, TypeOK, serialState

LEMMA TypeFromClient ==
    ASSUME TypeOK, NEW c \in Conn, NEW m, NEW failed, FromClient(c, m, failed)
    PROVE  TypeOK'
<1> buf[c] # <<>> /\ failed \in SUBSET Client
  BY DEF FromClient, Parsed, TypeOK
<1>1. /\ [buf EXCEPT ![c] = Tail(@)] \in [Conn -> Seq(Item)]
      /\ m \in Item
  BY TypeConsumed DEF FromClient, Parsed
<1>2. buf' \in [Conn -> Seq(Item)]
  BY <1>1 DEF FromClient, TypeOK
<1>3. log' \in Seq(LogEntry)
  BY <1>1, TypeLogged DEF FromClient
<1>4. outbox' \in [Client -> Seq(Item)]
  BY <1>1, TypeRelay DEF FromClient
<1>5. undefined' \in BOOLEAN
  BY DEF FromClient, Parsed, Processing, TypeOK
<1>6. serial_out' \in Seq(Item)
  BY <1>1, PairInSeq DEF FromClient, TypeOK, WritesToSerial
<1>7. /\ inbox' \in [Conn -> Seq(Item)]
      /\ peer' \in [Client -> {"new", "open", "gone"}]
  BY DEF FromClient, Disconnect, TypeOK
<1>8. /\ c_network' \in SUBSET {d \in Client : peer'[d] = "open"}
      /\ read_ready' \in SUBSET Conn
      /\ processing_todo' \in SUBSET (c_network' \cup {Serial})
  BY DEF FromClient, Disconnect, TypeOK, stop_all_net_watchers
<1> QED
  BY <1>2, <1>3, <1>4, <1>5, <1>6, <1>7, <1>8 DEF FromClient, TypeOK

LEMMA TypeProcessing ==
    ASSUME TypeOK, NEW c \in Conn, process_read_data(c) \/ FreedWatcherCrashes(c)
    PROVE  TypeOK'
<1>1. CASE FreedWatcherCrashes(c)
  BY <1>1, TypeEnds DEF FreedWatcherCrashes, TypeOK, output
<1>2. CASE InsufficientData(c)
  <2>1. undefined' \in BOOLEAN
    BY <1>2 DEF InsufficientData, Processing, TypeOK
  <2>2. /\ processing_todo' \in SUBSET (c_network \cup {Serial})
        /\ freed_todo' \in SUBSET Client
        /\ read_ready' \in SUBSET Conn
    BY <1>2 DEF InsufficientData, TypeOK
  <2> QED
    BY <1>2, <2>1, <2>2 DEF InsufficientData, TypeOK, serialState, world, output
<1>3. CASE FormError(c)
  <2>1. undefined' \in BOOLEAN
    BY <1>3 DEF FormError, Processing, TypeOK
  <2>2. buf' \in [Conn -> Seq(Item)]
    BY <1>3, TypeConsumed DEF FormError, Consume
  <2> QED
    BY <1>3, <2>1, <2>2
       DEF FormError, TypeOK, serialState, loop, world, output
<1>4. ASSUME NEW m, SerialWriteFails(c, m)
      PROVE  TypeOK'
  <2>1. m \in Item
    BY <1>4, TypeConsumed DEF SerialWriteFails, Parsed
  <2>2. log' \in Seq(LogEntry)
    BY <1>4, <2>1, TypeLogged DEF SerialWriteFails
  <2>3. serial_out' \in Seq(Item)
    <3>1. serial_out \in Seq(Item) /\ Append(serial_out, m) \in Seq(Item)
      BY <2>1 DEF TypeOK
    <3> QED
      BY <1>4, <3>1 DEF SerialWriteFails
  <2>4. undefined' \in BOOLEAN
    BY <1>4 DEF SerialWriteFails, Parsed, Processing, TypeOK
  <2> QED
    BY <1>4, <2>2, <2>3, <2>4, TypeEnds DEF SerialWriteFails
<1>5. CASE process_read_data(c)
  <2>1. PICK m :
           \/ BusActive(m) \/ RxBuffFull(m) \/ RxReady(m) \/ BusOff(m)
           \/ \E failed \in SUBSET c_network : FromBus(m, failed)
           \/ \E failed \in SUBSET c_network : FromClient(c, m, failed)
           \/ SerialWriteFails(c, m)
           \/ InsufficientData(c)
           \/ FormError(c)
    BY <1>5 DEF process_read_data
  <2> QED
    BY <2>1, <1>2, <1>3, <1>4, TypeFlowControl, TypeFromBus, TypeFromClient
<1> QED
  BY <1>1, <1>5

LEMMA TypeSends ==
    ASSUME TypeOK, NEW x \in Conn, NEW k, NEW numbered \in BOOLEAN, NEW max \in Nat,
           [kind |-> k, src |-> x, n |-> 0] \in Item,
           \A n \in 1 .. max : [kind |-> k, src |-> x, n |-> n] \in Item,
           Sends(x, k, numbered, max)
    PROVE  TypeOK'
<1> DEFINE i == [kind |-> k, src |-> x, n |-> IF numbered THEN sent[x] + 1 ELSE 0]
<1>1. sent[x] \in Nat /\ (numbered => sent[x] + 1 \in 1 .. max)
  BY DEF Sends, TypeOK
<1>2. i \in Item
  BY <1>1
<1>3. inbox' = [inbox EXCEPT ![x] = Append(@, i)]
  BY DEF Sends
<1> HIDE DEF i
<1>4. Append(inbox[x], i) \in Seq(Item)
  BY <1>2 DEF TypeOK
<1>5. inbox' \in [Conn -> Seq(Item)]
  BY <1>3, <1>4 DEF TypeOK
<1>6. sent' \in [Conn -> Nat]
  BY <1>1 DEF Sends, TypeOK
<1> QED
  BY <1>5, <1>6 DEF Sends, TypeOK, serialState, loop, output, history

LEMMA TypeWorld ==
    ASSUME TypeOK, Clients \/ BusSends \/ \E c \in Client : incomming_connection(c)
    PROVE  TypeOK'
<1>1. ASSUME NEW c \in Client, ClientSends(c)
      PROVE  TypeOK'
  <2>1. PICK k \in ClientKind : Sends(c, k, k # "Garbage", MaxSent)
    BY <1>1 DEF ClientSends
  <2>2. /\ [kind |-> k, src |-> c, n |-> 0] \in Item
        /\ \A n \in 1 .. MaxSent : [kind |-> k, src |-> c, n |-> n] \in Item
        /\ MaxSent \in Nat
    BY BoundAssumption DEF Item
  <2>3. c \in Conn /\ (k # "Garbage") \in BOOLEAN
    BY DEF Conn
  <2> QED
    BY <2>1, <2>2, <2>3, TypeSends
<1>2. CASE BusSends
  <2>1. PICK k \in BusKind : Sends(Serial, k, k \notin NotRelayed, MaxBus)
    BY <1>2 DEF BusSends
  <2>2. /\ [kind |-> k, src |-> Serial, n |-> 0] \in Item
        /\ \A n \in 1 .. MaxBus : [kind |-> k, src |-> Serial, n |-> n] \in Item
        /\ MaxBus \in Nat
    BY BoundAssumption DEF Item
  <2>3. Serial \in Conn /\ (k \notin NotRelayed) \in BOOLEAN
    BY DEF Conn
  <2> QED
    BY <2>1, <2>2, <2>3, TypeSends
<1>3. ASSUME NEW c \in Client, ClientConnects(c)
      PROVE  TypeOK'
  <2>1. peer' \in [Client -> {"new", "open", "gone"}]
    BY <1>3 DEF ClientConnects, TypeOK
  <2>2. c_network' \in SUBSET {d \in Client : peer'[d] = "open"}
    BY <1>3 DEF ClientConnects, TypeOK
  <2> QED
    BY <1>3, <2>1, <2>2
       DEF ClientConnects, TypeOK, serialState, loop, output, history
<1>4. ASSUME NEW c \in Client, ConnectionRefused(c)
      PROVE  TypeOK'
  <2>1. /\ peer' \in [Client -> {"new", "open", "gone"}]
        /\ inbox' \in [Conn -> Seq(Item)]
    BY <1>4 DEF ConnectionRefused, Disconnect, TypeOK
  <2>2. c_network' \in SUBSET {d \in Client : peer'[d] = "open"}
    BY <1>4 DEF ConnectionRefused, Pending, Disconnect, TypeOK
  <2> QED
    BY <1>4, <2>1, <2>2
       DEF ConnectionRefused, TypeOK, serialState, loop, output, history
<1>5. ASSUME NEW c \in Client, ConnectionKept(c)
      PROVE  TypeOK'
  <2>1. /\ c_network' \in SUBSET {d \in Client : peer'[d] = "open"}
        /\ read_ready' \in SUBSET Conn
        /\ processing_todo' \in SUBSET (c_network' \cup {Serial})
    BY <1>5 DEF ConnectionKept, Acceptable, Pending, TypeOK, Conn, world
  <2>2. CASE UNCHANGED <<freed_todo, buf>>
    BY <1>5, <2>1, <2>2
       DEF ConnectionKept, TypeOK, serialState, world, output, history
  <2>3. ASSUME NEW f, freed_todo' = (freed_todo \ {f}) \cup {c},
               buf' = [buf EXCEPT ![f] = <<>>]
        PROVE  TypeOK'
    <3>1. freed_todo' \in SUBSET Client
      BY <2>3 DEF TypeOK
    <3>2. <<>> \in Seq(Item)
      OBVIOUS
    <3>3. buf' \in [Conn -> Seq(Item)]
      BY <2>3, <3>2 DEF TypeOK
    <3> QED
      BY <1>5, <2>1, <3>1, <3>3
         DEF ConnectionKept, TypeOK, serialState, world, output, history
  <2> QED
    BY <1>5, <2>2, <2>3 DEF ConnectionKept
<1> QED
  BY <1>1, <1>2, <1>3, <1>4, <1>5 DEF Clients, incomming_connection

LEMMA TypeProcess ==
    ASSUME TypeOK, Exit \/ Start
    PROVE  TypeOK'
<1>1. CASE Exit
  BY <1>1, TypeEnds DEF Exit, TypeOK, output, history
<1>2. CASE Start
  <2>1. inbox' \in [Conn -> Seq(Item)]
    <3>1. PICK kept \in {inbox[Serial], <<>>} :
             inbox' = [inbox EXCEPT ![Serial] = kept]
      BY <1>2 DEF Start
    <3>2. inbox[Serial] \in Seq(Item) /\ <<>> \in Seq(Item)
      BY DEF TypeOK, Conn
    <3>3. kept \in Seq(Item)
      BY <3>1, <3>2
    <3> QED
      BY <3>1, <3>3 DEF TypeOK
  <2>2. serial_out' \in Seq(Item)
    BY <1>2, StatusRequestIsItem DEF Start, TypeOK
  <2>3. read_ready' \in SUBSET Conn
    BY <1>2 DEF Start, Conn
  <2> QED
    BY <1>2, <2>1, <2>2, <2>3 DEF Start, TypeOK, serialState, world
<1> QED
  BY <1>1, <1>2

LEMMA TypeStep == TypeOK /\ [Next]_vars => TypeOK'
<1> SUFFICES ASSUME TypeOK, [Next]_vars PROVE TypeOK'
  OBVIOUS
<1>1. CASE Next
  BY <1>1, TypeReading, TypeProcessing, TypeWorld, TypeProcess
     DEF Next, Daemon
<1>2. CASE UNCHANGED vars
  BY <1>2 DEF vars, TypeOK
<1> QED
  BY <1>1, <1>2

\* The types of Velbusd hold in every reachable state.
THEOREM TypeCorrect == Spec => []TypeOK
<1> QED
  BY TypeInit, TypeStep, PTL DEF Spec
-----------------------------------------------------------------------------
(* The watchers and the flags stay in step.                                *)

LEMMA InvInit == Init => IInv
<1> SUFFICES ASSUME Init PROVE IInv
  OBVIOUS
<1>1. TypeOK
  BY TypeInit
<1>2. BusOffMeansNoClients /\ Served /\ IdleOnlyWhenReady /\ Stopped
  BY DEF Init, BusOffMeansNoClients, Served, IdleOnlyWhenReady, Stopped
<1>3. ReadsOnlyWhenDrained /\ FreshBuffers
  BY DEF Init, ReadsOnlyWhenDrained, FreshBuffers, Conn
<1> QED
  BY <1>1, <1>2, <1>3 DEF IInv, InStep

\* Nothing survives the end of the process, so everything holds.
LEMMA InvTerminate ==
    ASSUME Terminate
    PROVE  InStep'
<1>1. /\ c_network' = {} /\ read_ready' = {} /\ processing_todo' = {}
      /\ freed_todo' = {} /\ running' = FALSE
      /\ \A c \in Conn : buf'[c] = <<>>
  BY DEF Terminate
<1>2. BusOffMeansNoClients' /\ Served' /\ IdleOnlyWhenReady' /\ Stopped'
  BY <1>1 DEF BusOffMeansNoClients, Served, IdleOnlyWhenReady, Stopped
<1>3. ReadsOnlyWhenDrained' /\ FreshBuffers'
  BY <1>1 DEF ReadsOnlyWhenDrained, FreshBuffers, Conn
<1> QED
  BY <1>2, <1>3 DEF InStep

\* Destroying the connections of K and nothing else about watchers.
LEMMA InvKill ==
    ASSUME IInv, NEW K \in SUBSET c_network,
           c_network' = c_network \ K, Watchers(K), Disconnect(K),
           rx_ready' = rx_ready, running' = running, running,
           bus_active' = bus_active \/ K = c_network
    PROVE  BusOffMeansNoClients' /\ Served' /\ IdleOnlyWhenReady' /\ Stopped'
<1> Serial \notin K
  BY ConnAssumption DEF IInv, InStep, TypeOK
<1>1. BusOffMeansNoClients'
  BY DEF IInv, InStep, BusOffMeansNoClients
<1>2. Served'
  BY DEF IInv, InStep, Served, Watchers
<1>3. IdleOnlyWhenReady'
  BY DEF IInv, InStep, IdleOnlyWhenReady, Watchers
<1>4. Stopped'
  BY DEF Stopped
<1> QED
  BY <1>1, <1>2, <1>3, <1>4

LEMMA InvReading ==
    ASSUME IInv, NEW c \in Conn,
           ready_to_read(c) \/ ReadFails(c) \/ AssertionFails(c)
    PROVE  InStep'
<1> TypeOK
  BY DEF IInv, InStep
<1>1. CASE ready_to_read(c)
  <2>1. BusOffMeansNoClients' /\ Stopped'
    BY <1>1 DEF ready_to_read, IInv, InStep, BusOffMeansNoClients, Stopped, serialState
  <2>2. Served'
    BY <1>1 DEF ready_to_read, QueueProcessing, IInv, InStep, Served, serialState
  <2>3. IdleOnlyWhenReady'
    BY <1>1, ConnAssumption DEF ready_to_read, MayRead, QueueProcessing,
                                IInv, InStep, IdleOnlyWhenReady, serialState
  <2>4. \A d \in Conn \ {c} : buf'[d] = buf[d]
    BY <1>1 DEF ready_to_read, TypeOK
  <2>5. ReadsOnlyWhenDrained'
    BY <1>1, <2>4 DEF ready_to_read, QueueProcessing, IInv, InStep, ReadsOnlyWhenDrained, TypeOK, Conn
  <2>6. FreshBuffers'
    BY <1>1, <2>4, ConnAssumption
       DEF ready_to_read, IInv, InStep, FreshBuffers, TypeOK, Conn, world
  <2> QED
    BY <2>1, <2>2, <2>3, <2>5, <2>6 DEF InStep
<1>2. CASE ReadFails(c)
  <2>1. c \in Client /\ {c} \cap Client = {c}
    BY <1>2 DEF ReadFails, Conn
  <2>2. /\ c_network' = c_network \ {c} /\ Watchers({c}) /\ Disconnect({c})
        /\ buf' = Freed(buf, {c})
        /\ UNCHANGED <<running, bus_active, rx_ready>> /\ running
    BY <1>2, <2>1 DEF ReadFails, kill_connection, serialState
  <2>3. BusOffMeansNoClients' /\ IdleOnlyWhenReady' /\ Stopped'
    BY <2>2 DEF IInv, InStep, BusOffMeansNoClients, IdleOnlyWhenReady, Stopped, Watchers
  <2>4. Served'
    BY <2>1, <2>2, ConnAssumption DEF IInv, InStep, Served, Watchers
  <2>5. \A d \in Conn \ {c} : buf'[d] = buf[d]
    BY <2>2 DEF Freed
  <2>6. ReadsOnlyWhenDrained'
    BY <2>1, <2>2, <2>5, ConnAssumption
       DEF IInv, InStep, ReadsOnlyWhenDrained, Watchers, TypeOK, Conn
  <2>7. FreshBuffers'
    BY <2>1, <2>2, <2>5 DEF IInv, InStep, FreshBuffers, Disconnect, Conn
  <2> QED
    BY <2>3, <2>4, <2>6, <2>7 DEF InStep
<1>3. CASE AssertionFails(c)
  BY <1>3, InvTerminate DEF AssertionFails
<1> QED
  BY <1>1, <1>2, <1>3

LEMMA InvFlowControl ==
    ASSUME IInv, NEW m, BusActive(m) \/ RxBuffFull(m) \/ RxReady(m)
    PROVE  InStep'
<1> TypeOK /\ Serial \notin c_network /\ running
  BY ConnAssumption
     DEF IInv, InStep, TypeOK, BusActive, RxBuffFull, RxReady, Parsed, Processing
<1>1. /\ buf' = [buf EXCEPT ![Serial] = Tail(@)] /\ buf[Serial] # <<>>
      /\ c_network' = c_network /\ peer' = peer /\ running' = running
      /\ read_ready' \subseteq read_ready
  BY DEF BusActive, RxBuffFull, RxReady, Consume, Parsed, loop, world,
      stop_all_net_watchers, start_all_net_watchers
<1>2. \A d \in Client : buf'[d] = buf[d]
  BY <1>1, ConnAssumption DEF TypeOK, Conn
<1>3. Serial \notin read_ready
  BY <1>1 DEF IInv, InStep, ReadsOnlyWhenDrained
<1>4. ReadsOnlyWhenDrained'
  BY <1>1, <1>2, <1>3 DEF IInv, InStep, ReadsOnlyWhenDrained, TypeOK
<1>5. FreshBuffers' /\ Stopped'
  BY <1>1, <1>2 DEF IInv, InStep, FreshBuffers, Stopped
<1>6. CASE BusActive(m)
  <2>1. BusOffMeansNoClients' /\ Served' /\ IdleOnlyWhenReady'
    BY <1>6 DEF BusActive, IInv, InStep, BusOffMeansNoClients, Served, IdleOnlyWhenReady, loop
  <2> QED
    BY <2>1, <1>4, <1>5 DEF InStep
<1>7. CASE RxBuffFull(m)
  <2>1. BusOffMeansNoClients' /\ Served'
    BY <1>7 DEF RxBuffFull, IInv, InStep, BusOffMeansNoClients, Served,
      stop_all_net_watchers
  <2>2. IdleOnlyWhenReady'
    BY <1>7, ConnAssumption DEF RxBuffFull, IInv, InStep, IdleOnlyWhenReady, TypeOK,
      stop_all_net_watchers
  <2> QED
    BY <2>1, <2>2, <1>4, <1>5 DEF InStep
<1>8. CASE RxReady(m)
  <2>1. BusOffMeansNoClients' /\ IdleOnlyWhenReady'
    BY <1>8 DEF RxReady, IInv, InStep, BusOffMeansNoClients, IdleOnlyWhenReady
  <2>2. Served'
    BY <1>8, <1>3 DEF RxReady, IInv, InStep, Served, start_all_net_watchers
  <2> QED
    BY <2>1, <2>2, <1>4, <1>5 DEF InStep
<1> QED
  BY <1>6, <1>7, <1>8

LEMMA InvBusOff ==
    ASSUME IInv, NEW m, BusOff(m)
    PROVE  InStep'
<1> TypeOK /\ c_network \in SUBSET Client
  BY DEF IInv, TypeOK
<1>1. /\ BusOffMeansNoClients' /\ Stopped'
  BY DEF BusOff, BusOffMeansNoClients, Stopped, Parsed, Processing
<1>2. Served' /\ IdleOnlyWhenReady'
  BY ConnAssumption
     DEF BusOff, IInv, InStep, Served, IdleOnlyWhenReady, Watchers
<1>3. ReadsOnlyWhenDrained'
  <2>1. Serial \notin read_ready
    BY DEF BusOff, Parsed, IInv, InStep, ReadsOnlyWhenDrained
  <2> QED
    BY <2>1 DEF BusOff, ReadsOnlyWhenDrained, Watchers
<1>4. FreshBuffers'
  <2>1. ASSUME NEW d \in Client, peer'[d] # "gone"
        PROVE  buf'[d] = <<>>
    <3>1. d \notin c_network /\ peer[d] # "gone"
      BY <2>1 DEF BusOff, Disconnect
    <3>2. buf[d] = <<>>
      BY <3>1 DEF IInv, InStep, FreshBuffers
    <3>3. buf'[d] = buf[d]
      BY <3>1, ConnAssumption DEF BusOff, Freed, TypeOK, Conn
    <3> QED
      BY <3>2, <3>3
  <2> QED
    BY <2>1 DEF FreshBuffers
<1> QED
  BY <1>1, <1>2, <1>3, <1>4 DEF InStep

LEMMA InvFromBus ==
    ASSUME IInv, NEW m, NEW failed \in SUBSET c_network, FromBus(m, failed)
    PROVE  InStep'
<1> TypeOK /\ c_network \in SUBSET Client
  BY DEF IInv, TypeOK
<1>1. /\ c_network' = c_network \ failed /\ Watchers(failed) /\ Disconnect(failed)
      /\ UNCHANGED <<running, bus_active, rx_ready>> /\ running
  BY DEF FromBus, Parsed, Processing, serialState
<1>2. BusOffMeansNoClients' /\ Served' /\ IdleOnlyWhenReady' /\ Stopped'
  BY <1>1, InvKill
<1>3. \A d \in Client \ failed : buf'[d] = buf[d]
  BY ConnAssumption DEF FromBus, Freed, TypeOK, Conn
<1>4. ReadsOnlyWhenDrained'
  <2>1. Serial \notin read_ready
    BY DEF FromBus, Parsed, IInv, InStep, ReadsOnlyWhenDrained
  <2> QED
    BY <2>1, <1>1, <1>3 DEF IInv, InStep, ReadsOnlyWhenDrained, Watchers
<1>5. FreshBuffers'
  BY <1>1, <1>3 DEF IInv, InStep, FreshBuffers, Disconnect
<1> QED
  BY <1>2, <1>4, <1>5 DEF InStep

LEMMA InvFromClient ==
    ASSUME IInv, NEW c \in Conn, NEW m, NEW failed, FromClient(c, m, failed)
    PROVE  InStep'
<1> TypeOK /\ c_network \in SUBSET Client /\ failed \in SUBSET (c_network \ {c})
  BY DEF IInv, TypeOK, FromClient
<1>1. /\ c_network' = c_network \ failed
      /\ read_ready' = read_ready \ c_network
      /\ processing_todo' = processing_todo \ c_network
      /\ rx_ready' = FALSE /\ running /\ running' = running
      /\ bus_active' = bus_active /\ c \in Client
  BY DEF FromClient, Parsed, Processing, Conn, stop_all_net_watchers
<1>2. BusOffMeansNoClients' /\ Stopped'
  BY <1>1 DEF IInv, InStep, BusOffMeansNoClients, Stopped
<1>3. Served'
  BY <1>1, ConnAssumption DEF IInv, InStep, Served
<1>4. IdleOnlyWhenReady'
  BY <1>1, ConnAssumption DEF IInv, IdleOnlyWhenReady, TypeOK
<1>5. \A d \in Conn \ (failed \cup {c}) : buf'[d] = buf[d]
  BY DEF FromClient
<1>6. ReadsOnlyWhenDrained'
  BY <1>1, <1>5, ConnAssumption DEF IInv, InStep, ReadsOnlyWhenDrained, Conn
<1>7. FreshBuffers'
  <2>1. ASSUME NEW d \in Client \ c_network', peer'[d] # "gone"
        PROVE  buf'[d] = <<>>
    <3>1. d \notin failed /\ peer[d] # "gone"
      BY <2>1 DEF FromClient, Disconnect
    <3>2. d \notin c_network
      BY <2>1, <3>1, <1>1
    <3>3. buf[d] = <<>>
      BY <3>1, <3>2 DEF IInv, InStep, FreshBuffers
    <3>4. d # c
      BY <3>3 DEF FromClient, Parsed
    <3> QED
      BY <3>1, <3>3, <3>4, <1>5 DEF Conn
  <2> QED
    BY <2>1 DEF FreshBuffers
<1> QED
  BY <1>2, <1>3, <1>4, <1>6, <1>7 DEF InStep

LEMMA InvProcessing ==
    ASSUME IInv, NEW c \in Conn, process_read_data(c) \/ FreedWatcherCrashes(c)
    PROVE  InStep'
<1> TypeOK
  BY DEF IInv
<1>1. CASE InsufficientData(c)
  <2>1. /\ buf[c] = <<>> /\ buf' = buf /\ c_network' = c_network
        /\ read_ready' = read_ready \cup {c} /\ peer' = peer
        /\ processing_todo' = processing_todo \ {c} /\ running
        /\ UNCHANGED <<running, bus_active, rx_ready>>
    BY <1>1 DEF InsufficientData, Processing, serialState, world
  <2>2. BusOffMeansNoClients' /\ Served' /\ IdleOnlyWhenReady' /\ Stopped'
    BY <2>1 DEF IInv, InStep, BusOffMeansNoClients, Served, IdleOnlyWhenReady, Stopped
  <2>3. ReadsOnlyWhenDrained' /\ FreshBuffers'
    BY <2>1 DEF IInv, InStep, ReadsOnlyWhenDrained, FreshBuffers
  <2> QED
    BY <2>2, <2>3 DEF InStep
<1>2. CASE FormError(c)
  <2>1. /\ buf[c] # <<>> /\ buf' = [buf EXCEPT ![c] = Tail(@)]
        /\ UNCHANGED <<running, bus_active, rx_ready, c_network, read_ready,
                       processing_todo, peer>> /\ running
    BY <1>2 DEF FormError, Consume, Processing, serialState, loop, world
  <2>2. BusOffMeansNoClients' /\ Served' /\ IdleOnlyWhenReady' /\ Stopped'
    BY <2>1 DEF IInv, InStep, BusOffMeansNoClients, Served, IdleOnlyWhenReady, Stopped
  <2>3. \A d \in Conn \ {c} : buf'[d] = buf[d]
    BY <2>1 DEF TypeOK
  <2>4. ReadsOnlyWhenDrained'
    BY <2>1, <2>3 DEF IInv, InStep, ReadsOnlyWhenDrained, TypeOK, Conn
  <2>5. FreshBuffers'
    BY <2>1, <2>3 DEF IInv, InStep, FreshBuffers, Conn
  <2> QED
    BY <2>2, <2>4, <2>5 DEF InStep
<1>3. CASE process_read_data(c)
  <2>1. PICK m :
           \/ BusActive(m) \/ RxBuffFull(m) \/ RxReady(m)
           \/ BusOff(m)
           \/ \E failed \in SUBSET c_network : FromBus(m, failed)
           \/ \E failed \in SUBSET c_network : FromClient(c, m, failed)
           \/ SerialWriteFails(c, m)
           \/ InsufficientData(c)
           \/ FormError(c)
    BY <1>3 DEF process_read_data
  <2>2. CASE SerialWriteFails(c, m)
    BY <2>2, InvTerminate DEF SerialWriteFails
  <2> QED
    BY <2>1, <2>2, <1>1, <1>2, InvFlowControl, InvBusOff, InvFromBus, InvFromClient
<1>4. CASE FreedWatcherCrashes(c)
  BY <1>4, InvTerminate DEF FreedWatcherCrashes
<1> QED
  BY <1>3, <1>4

LEMMA InvWorld ==
    ASSUME IInv, Clients \/ BusSends \/ \E c \in Client : incomming_connection(c)
    PROVE  InStep'
<1> TypeOK
  BY DEF IInv
\* Most of these steps touch no watcher, flag or buffer, and free no client.
<1>1. ASSUME UNCHANGED <<running, bus_active, rx_ready, c_network, read_ready,
                         processing_todo, freed_todo, buf>>,
             \A d \in Client : peer'[d] # "gone" => peer[d] # "gone"
      PROVE  InStep'
  <2>1. BusOffMeansNoClients' /\ Served' /\ IdleOnlyWhenReady' /\ Stopped'
    BY <1>1 DEF IInv, InStep, BusOffMeansNoClients, Served, IdleOnlyWhenReady, Stopped
  <2>2. ReadsOnlyWhenDrained' /\ FreshBuffers'
    BY <1>1 DEF IInv, InStep, ReadsOnlyWhenDrained, FreshBuffers
  <2> QED
    BY <2>1, <2>2 DEF InStep
<1>2. ASSUME NEW c \in Client,
             ClientSends(c) \/ ClientConnects(c) \/ ConnectionRefused(c) \/ BusSends
      PROVE  InStep'
  <2>1. /\ UNCHANGED <<running, bus_active, rx_ready, c_network, read_ready,
                       processing_todo, freed_todo, buf>>
        /\ \A d \in Client : peer'[d] # "gone" => peer[d] # "gone"
    BY <1>2 DEF ClientSends, ClientConnects, ConnectionRefused, BusSends, Sends,
                Disconnect, TypeOK, serialState, loop
  <2> QED
    BY <2>1, <1>1
<1>3. CASE BusSends
  <2>1. /\ UNCHANGED <<running, bus_active, rx_ready, c_network, read_ready,
                       processing_todo, freed_todo, buf>>
        /\ peer' = peer
    BY <1>3 DEF BusSends, Sends, serialState, loop
  <2> QED
    BY <2>1, <1>1
<1>4. ASSUME NEW c \in Client, ConnectionKept(c)
      PROVE  InStep'
  <2>1. /\ c_network' = c_network \cup {c} /\ read_ready' = read_ready \cup {c}
        /\ UNCHANGED <<running, bus_active, rx_ready, processing_todo, peer>>
        /\ running /\ bus_active /\ c \notin c_network /\ peer[c] = "open"
    BY <1>4 DEF ConnectionKept, Acceptable, Pending, serialState, world
  <2>2. BusOffMeansNoClients' /\ Served' /\ IdleOnlyWhenReady' /\ Stopped'
    BY <2>1, ConnAssumption
       DEF IInv, InStep, BusOffMeansNoClients, Served, IdleOnlyWhenReady, Stopped
  <2>3. \A d \in Conn : buf'[d] \in {buf[d], <<>>}
    BY <1>4 DEF ConnectionKept, TypeOK
  <2>4. buf[c] = <<>>
    BY <2>1 DEF IInv, InStep, FreshBuffers
  <2>5. ReadsOnlyWhenDrained'
    BY <2>1, <2>3, <2>4, ConnAssumption
       DEF IInv, InStep, ReadsOnlyWhenDrained, TypeOK, Conn
  <2>6. FreshBuffers'
    BY <2>1, <2>3 DEF IInv, InStep, FreshBuffers, Conn
  <2> QED
    BY <2>2, <2>5, <2>6 DEF InStep
<1> QED
  BY <1>2, <1>3, <1>4 DEF Clients, incomming_connection

LEMMA InvProcess ==
    ASSUME IInv, Exit \/ Start
    PROVE  InStep'
<1>1. CASE Exit
  BY <1>1, InvTerminate DEF Exit
<1>2. CASE Start
  <2>1. /\ c_network = {} /\ processing_todo = {} /\ freed_todo = {}
        /\ \A c \in Conn : buf[c] = <<>>
    BY <1>2 DEF Start, IInv, InStep, Stopped
  <2>2. BusOffMeansNoClients' /\ Served' /\ IdleOnlyWhenReady' /\ Stopped'
    BY <1>2, <2>1
       DEF Start, BusOffMeansNoClients, Served, IdleOnlyWhenReady, Stopped
  <2>3. ReadsOnlyWhenDrained' /\ FreshBuffers'
    BY <1>2, <2>1 DEF Start, ReadsOnlyWhenDrained, FreshBuffers, Conn
  <2> QED
    BY <2>2, <2>3 DEF InStep
<1> QED
  BY <1>1, <1>2

LEMMA InvStep == IInv /\ [Next]_vars => IInv'
<1> SUFFICES ASSUME IInv, [Next]_vars PROVE IInv'
  OBVIOUS
<1>1. TypeOK'
  BY TypeStep DEF IInv
<1>2. CASE Next
  <2>1. InStep'
    BY <1>2, InvReading, InvProcessing, InvWorld, InvProcess DEF Next, Daemon
  <2> QED
    BY <1>1, <2>1 DEF IInv
<1>3. CASE UNCHANGED vars
  <2>1. InStep'
    BY <1>3 DEF vars, IInv, InStep, BusOffMeansNoClients, Served,
                IdleOnlyWhenReady, ReadsOnlyWhenDrained, Stopped, FreshBuffers
  <2> QED
    BY <1>1, <2>1 DEF IInv
<1> QED
  BY <1>2, <1>3

\* The inductive invariant holds in every reachable state.
THEOREM Invariant == Spec => []IInv
<1> QED
  BY InvInit, InvStep, PTL DEF Spec

\* No client is connected while the bus is off.
THEOREM BusOffSafe == Spec => []BusOffMeansNoClients
<1>1. IInv => BusOffMeansNoClients
  BY DEF IInv, InStep
<1> QED
  BY <1>1, Invariant, PTL

\* The event loop forgets neither the serial line nor, when ready, a client.
THEOREM NobodyForgotten == Spec => []Served
<1>1. IInv => Served
  BY DEF IInv, InStep
<1> QED
  BY <1>1, Invariant, PTL

\* No client has work scheduled while the interface has no room.
THEOREM ClientsHeldBack == Spec => []IdleOnlyWhenReady
<1>1. IInv => IdleOnlyWhenReady
  BY DEF IInv, InStep
<1> QED
  BY <1>1, Invariant, PTL

\* The daemon reads a connection only when it has processed all it read.
THEOREM BuffersOneRead == Spec => []ReadsOnlyWhenDrained
<1>1. IInv => ReadsOnlyWhenDrained
  BY DEF IInv, InStep
<1> QED
  BY <1>1, Invariant, PTL
-----------------------------------------------------------------------------
(* One message to the interface each time it is ready.                     *)

\* Only these two actions log a message of a client.
LEMMA LogsOfClients ==
    ASSUME TypeOK, [Next]_vars, Len(log') > Len(log), log'[Len(log')].id # Serial
    PROVE  \E c \in Conn : \E m :
              \/ SerialWriteFails(c, m)
              \/ \E failed \in SUBSET c_network : FromClient(c, m, failed)
<1>0. Len(log) \in Nat /\ log' # log
  BY DEF TypeOK
<1>1. ASSUME NEW m, Logged(Serial, m)
      PROVE  FALSE
  <2>1. log' = Append(log, [id |-> Serial, msg |-> m])
    BY <1>1 DEF Logged
  <2>2. log \in Seq(LogEntry)
    BY DEF TypeOK
  <2>3. log'[Len(log')] = [id |-> Serial, msg |-> m]
    BY <2>1, <2>2
  <2> QED
    BY <2>3
<1>2. Next
  BY <1>0 DEF vars
<1>3. PICK c \in Conn : process_read_data(c)
  BY <1>0, <1>2
     DEF Next, Daemon, Clients, BusSends, Sends, ready_to_read, ReadFails,
         AssertionFails, FreedWatcherCrashes, incomming_connection,
         ConnectionRefused, ConnectionKept, ClientConnects, ClientSends, Exit,
         Start, output
<1>4. ~InsufficientData(c) /\ ~FormError(c)
  BY <1>0 DEF InsufficientData, FormError, output
<1>5. \A m : ~BusActive(m) /\ ~RxBuffFull(m) /\ ~RxReady(m)
  BY <1>0 DEF BusActive, RxBuffFull, RxReady, output
<1>6. \A m : ~BusOff(m) /\ \A failed : ~FromBus(m, failed)
  BY <1>1 DEF BusOff, FromBus
<1> QED
  BY <1>3, <1>4, <1>5, <1>6 DEF process_read_data

\* A live client's message is written only when the interface is ready, and
\* closes the gate behind it.
THEOREM GateKept == Spec => OneMessagePerReady
<1> DEFINE Gate == (Len(log') > Len(log) /\ log'[Len(log')].id # Serial /\ ~undefined')
                       => rx_ready /\ (~rx_ready' \/ ~running')
<1>1. IInv /\ [Next]_vars => Gate
  <2> SUFFICES ASSUME IInv, [Next]_vars, Len(log') > Len(log),
                      log'[Len(log')].id # Serial, ~undefined'
               PROVE  rx_ready /\ (~rx_ready' \/ ~running')
    OBVIOUS
  <2>0. PICK c \in Conn : \E m :
           \/ SerialWriteFails(c, m)
           \/ \E failed \in SUBSET c_network : FromClient(c, m, failed)
    BY LogsOfClients DEF IInv
  <2>1. PICK m :
           \/ SerialWriteFails(c, m)
           \/ \E failed \in SUBSET c_network : FromClient(c, m, failed)
    BY <2>0
  <2>2. c # Serial /\ Processing(c)
    BY <2>1 DEF SerialWriteFails, FromClient, Parsed
  <2>3. c \in processing_todo \cap Client
    BY <2>2 DEF Processing, Conn
  <2>4. rx_ready
    BY <2>3 DEF IInv, InStep, IdleOnlyWhenReady
  <2>5. ~rx_ready' \/ ~running'
    BY <2>1 DEF SerialWriteFails, FromClient, Terminate
  <2> QED
    BY <2>4, <2>5
<1>2. IInv /\ [Next]_vars => [Gate]_vars
  BY <1>1
<1> QED
  BY <1>2, Invariant, PTL DEF Spec, OneMessagePerReady
-----------------------------------------------------------------------------
(* Velbusd implements Hub: whatever the watchers, buffers and flow control *)
(* do, the relay is an atomic broadcast in the order of its log.           *)

\* A client that was not accepted yet has been sent nothing.
FreshOutbox == \A c \in Client \ c_network : peer[c] # "gone" => outbox[c] = <<>>

\* How a step changes the three variables of Hub.
Quiet == UNCHANGED <<c_network, outbox, log>>
Leaves(K) == c_network' = c_network \ K /\ UNCHANGED <<outbox, log>>
Posts(c, m, stay) ==
    /\ c_network' = stay
    /\ log' = Append(log, [id |-> c, msg |-> m])
    /\ outbox' = [d \in Client |-> IF d \in stay \ {c} THEN Append(outbox[d], m)
                                   ELSE outbox[d]]
Joins(c) ==
    /\ c \in Client \ c_network /\ peer[c] = "open" /\ peer' = peer
    /\ c_network' = c_network \cup {c} /\ UNCHANGED <<outbox, log>>

HubStep ==
    \/ Quiet
    \/ \E K \in SUBSET c_network : Leaves(K)
    \/ \E c \in Client : Joins(c)
    \/ \E c \in Conn, m \in Item, stay \in SUBSET c_network : Posts(c, m, stay)

LEMMA HeadIsItem ==
    ASSUME TypeOK, NEW c \in Conn, NEW m, Parsed(c, m)
    PROVE  m \in Item
BY TypeConsumed DEF Parsed

\* The end of the process is a leave of everybody.
LEMMA EndLeaves ==
    ASSUME Terminate, UNCHANGED <<outbox, log>>
    PROVE  HubStep
BY DEF Terminate, HubStep, Leaves

\* With everybody gone no view changes.
LEMMA LastPost ==
    ASSUME TypeOK, NEW c \in Conn, NEW m \in Item,
           c_network' = {}, Logged(c, m), outbox' = outbox
    PROVE  HubStep
<1>1. outbox' = [d \in Client |-> IF d \in {} \ {c} THEN Append(outbox[d], m)
                                  ELSE outbox[d]]
  BY DEF TypeOK
<1>2. Posts(c, m, {})
  BY <1>1 DEF Posts, Logged
<1> QED
  BY <1>2 DEF HubStep

LEMMA ProcessingIsHubStep ==
    ASSUME TypeOK, NEW c \in Conn, process_read_data(c)
    PROVE  HubStep
<1> Serial \in Conn
  BY DEF Conn
<1>1. ASSUME NEW m, BusOff(m)
      PROVE  HubStep
  BY <1>1, HeadIsItem, LastPost DEF BusOff
<1>2. ASSUME NEW m, NEW failed \in SUBSET c_network, FromBus(m, failed)
      PROVE  HubStep
  <2>1. m \in Item
    BY <1>2, HeadIsItem DEF FromBus
  <2>2. Serial \notin c_network
    BY ConnAssumption DEF TypeOK
  <2>3. outbox' = [d \in Client |-> IF d \in (c_network \ failed) \ {Serial}
                                    THEN Append(outbox[d], m) ELSE outbox[d]]
    BY <1>2, <2>2 DEF FromBus, Relay
  <2>4. Posts(Serial, m, c_network \ failed)
    BY <1>2, <2>3 DEF FromBus, Posts, Logged
  <2> QED
    BY <2>1, <2>4 DEF HubStep
<1>3. ASSUME NEW m, NEW failed \in SUBSET c_network, FromClient(c, m, failed)
      PROVE  HubStep
  <2>1. m \in Item
    BY <1>3, HeadIsItem DEF FromClient
  <2>2. outbox' = [d \in Client |-> IF d \in (c_network \ failed) \ {c}
                                    THEN Append(outbox[d], m) ELSE outbox[d]]
    BY <1>3 DEF FromClient, Relay
  <2>3. Posts(c, m, c_network \ failed)
    BY <1>3, <2>2 DEF FromClient, Posts, Logged
  <2> QED
    BY <2>1, <2>3 DEF HubStep
<1>4. ASSUME NEW m, SerialWriteFails(c, m)
      PROVE  HubStep
  BY <1>4, HeadIsItem, LastPost DEF SerialWriteFails, Terminate
<1>5. ASSUME NEW m, BusActive(m) \/ RxBuffFull(m) \/ RxReady(m)
      PROVE  HubStep
  BY <1>5 DEF BusActive, RxBuffFull, RxReady, output, HubStep, Quiet
<1>6. InsufficientData(c) \/ FormError(c) => HubStep
  BY DEF InsufficientData, FormError, output, HubStep, Quiet
<1> QED
  BY <1>1, <1>2, <1>3, <1>4, <1>5, <1>6 DEF process_read_data

LEMMA StepIsHubStep ==
    ASSUME TypeOK, [Next]_vars
    PROVE  HubStep
<1>1. CASE \E c \in Conn : process_read_data(c)
  BY <1>1, ProcessingIsHubStep
<1>2. CASE \E c \in Conn : AssertionFails(c) \/ FreedWatcherCrashes(c)
  BY <1>2, EndLeaves DEF AssertionFails, FreedWatcherCrashes, output
<1>3. CASE Exit
  BY <1>3, EndLeaves DEF Exit, output
<1>4. ASSUME NEW c \in Conn, ReadFails(c)
      PROVE  HubStep
  <2>1. Leaves({c} \cap c_network)
    BY <1>4 DEF ReadFails, kill_connection, output, Leaves
  <2> QED
    BY <2>1 DEF HubStep
<1>5. ASSUME NEW c \in Client, ConnectionKept(c)
      PROVE  HubStep
  <2>1. Joins(c)
    BY <1>5 DEF ConnectionKept, Acceptable, Pending, Joins, world, output
  <2> QED
    BY <2>1 DEF HubStep
<1>6. CASE \/ \E c \in Conn : ready_to_read(c)
           \/ \E c \in Client : ConnectionRefused(c)
           \/ Clients \/ BusSends \/ Start
  BY <1>6 DEF ready_to_read, ConnectionRefused, Clients, ClientConnects,
              ClientSends, BusSends, Sends, Start, output, HubStep, Quiet
<1>7. CASE UNCHANGED vars
  BY <1>7 DEF vars, HubStep, Quiet
<1> QED
  BY <1>1, <1>2, <1>3, <1>4, <1>5, <1>6, <1>7
     DEF Next, Daemon, incomming_connection
-----------------------------------------------------------------------------
(* A connection is accepted once, with nothing sent to it before.          *)

\* A client leaves the list for good, and comes into being by connecting.
LEMMA LeavingIsFinal ==
    ASSUME TypeOK, [Next]_vars, NEW c \in Client \ c_network', peer'[c] # "gone"
    PROVE  c \notin c_network /\ peer[c] # "gone"
<1>1. CASE Terminate
  BY <1>1 DEF Terminate, TypeOK
<1>2. ASSUME NEW K, c_network' = c_network \ K, Disconnect(K)
      PROVE  c \notin c_network /\ peer[c] # "gone"
  BY <1>2 DEF Disconnect
<1>3. ASSUME NEW x \in Conn, process_read_data(x)
      PROVE  c \notin c_network /\ peer[c] # "gone"
  <2>1. \A m : ~SerialWriteFails(x, m) \/ Terminate
    BY DEF SerialWriteFails
  <2>2. ASSUME NEW m, BusActive(m) \/ RxBuffFull(m) \/ RxReady(m)
        PROVE  UNCHANGED <<c_network, peer>>
    BY <2>2 DEF BusActive, RxBuffFull, RxReady, world
  <2>3. InsufficientData(x) \/ FormError(x) => UNCHANGED <<c_network, peer>>
    BY DEF InsufficientData, FormError, world
  <2>4. ASSUME NEW m, BusOff(m)
        PROVE  c_network' = c_network \ c_network /\ Disconnect(c_network)
    BY <2>4 DEF BusOff
  <2>5. ASSUME NEW m, NEW failed, FromBus(m, failed) \/ FromClient(x, m, failed)
        PROVE  c_network' = c_network \ failed /\ Disconnect(failed)
    BY <2>5 DEF FromBus, FromClient
  <2> QED
    BY <1>1, <1>2, <1>3, <2>1, <2>2, <2>3, <2>4, <2>5 DEF process_read_data
<1>4. ASSUME NEW x \in Conn, ReadFails(x)
      PROVE  c \notin c_network /\ peer[c] # "gone"
  <2>1. x \in Client /\ {x} \cap Client = {x}
    BY <1>4 DEF ReadFails, Conn
  <2>2. c_network' = c_network \ {x} /\ Disconnect({x})
    BY <1>4, <2>1 DEF ReadFails, kill_connection
  <2> QED
    BY <2>2, <1>2
<1>5. CASE \E x \in Conn : AssertionFails(x) \/ FreedWatcherCrashes(x)
  BY <1>5, <1>1 DEF AssertionFails, FreedWatcherCrashes
<1>6. ASSUME NEW x \in Client, ConnectionKept(x)
      PROVE  c \notin c_network /\ peer[c] # "gone"
  BY <1>6 DEF ConnectionKept, world
<1>7. ASSUME NEW x \in Client, ConnectionRefused(x)
      PROVE  c \notin c_network /\ peer[c] # "gone"
  BY <1>7 DEF ConnectionRefused, Disconnect
<1>8. ASSUME NEW x \in Client, ClientConnects(x)
      PROVE  c \notin c_network /\ peer[c] # "gone"
  BY <1>8 DEF ClientConnects, TypeOK
<1>9. CASE \/ \E x \in Conn : ready_to_read(x)
           \/ \E x \in Client : ClientSends(x)
           \/ BusSends \/ Start \/ UNCHANGED vars
  BY <1>9 DEF ready_to_read, ClientSends, BusSends, Sends, Start, world, vars
<1> QED
  BY <1>1, <1>3, <1>4, <1>5, <1>6, <1>7, <1>8, <1>9
     DEF Next, Daemon, Clients, incomming_connection, Exit

LEMMA FreshOutboxStep == TypeOK /\ FreshOutbox /\ [Next]_vars => FreshOutbox'
<1> SUFFICES ASSUME TypeOK, FreshOutbox, [Next]_vars,
                    NEW c \in Client \ c_network', peer'[c] # "gone"
             PROVE  outbox'[c] = <<>>
  BY DEF FreshOutbox
<1>1. c \notin c_network /\ peer[c] # "gone"
  BY LeavingIsFinal
<1>2. outbox[c] = <<>>
  BY <1>1 DEF FreshOutbox
<1>3. HubStep
  BY StepIsHubStep
<1>4. outbox'[c] = outbox[c]
  BY <1>1, <1>3 DEF HubStep, Quiet, Leaves, Joins, Posts
<1> QED
  BY <1>2, <1>4
-----------------------------------------------------------------------------
(* The refinement.                                                         *)

LEMMA InitRefines == Init => Broadcast!Init
BY DEF Init, Broadcast!Init

LEMMA StepRefines ==
    TypeOK /\ FreshOutbox /\ [Next]_vars => [Broadcast!Next]_(Broadcast!hubVars)
<1> SUFFICES ASSUME TypeOK, FreshOutbox, [Next]_vars
             PROVE  [Broadcast!Next]_(Broadcast!hubVars)
  OBVIOUS
<1>1. CASE Quiet
  BY <1>1 DEF Quiet, Broadcast!hubVars
<1>2. ASSUME NEW K \in SUBSET c_network, Leaves(K)
      PROVE  Broadcast!Next \/ Quiet
  <2>1. CASE K = {}
    BY <1>2, <2>1 DEF Leaves, Quiet
  <2>2. CASE K # {}
    <3>1. Broadcast!Leave(K)
      BY <1>2, <2>2 DEF Leaves, Broadcast!Leave
    <3> QED
      BY <3>1 DEF Broadcast!Next
  <2> QED
    BY <2>1, <2>2
<1>3. ASSUME NEW c \in Client, Joins(c)
      PROVE  Broadcast!Next
  <2>1. outbox[c] = <<>>
    BY <1>3 DEF Joins, FreshOutbox
  <2>2. Broadcast!Join(c)
    BY <1>3, <2>1 DEF Joins, Broadcast!Join
  <2> QED
    BY <2>2 DEF Broadcast!Next
<1>4. ASSUME NEW c \in Conn, NEW m \in Item, NEW stay \in SUBSET c_network,
             Posts(c, m, stay)
      PROVE  Broadcast!Next
  <2>1. c_network' = stay /\ Broadcast!Post(c, m, stay)
    BY <1>4 DEF Posts, Broadcast!Post
  <2> QED
    BY <2>1 DEF Broadcast!Next
<1> QED
  BY <1>1, <1>2, <1>3, <1>4, StepIsHubStep DEF HubStep, Quiet, Broadcast!hubVars

\* Every behaviour of the daemon is one of the abstract broadcast.
THEOREM Refinement == Spec => ImplementsHub
<1>1. Init => FreshOutbox
  BY DEF Init, FreshOutbox
<1> QED
  BY <1>1, FreshOutboxStep, InitRefines, StepRefines, TypeCorrect, PTL
     DEF Spec, ImplementsHub, Broadcast!Spec
-----------------------------------------------------------------------------
(* Runs of numbered items.                                                 *)

Numbered(m, x) == m.src = x /\ m.n > 0

\* Run, with its set of positions written out.
LEMMA RunExplained ==
    ASSUME NEW q, NEW x, NEW lo \in Nat, NEW hi \in Nat
    PROVE  Run(q, x, lo, hi) <=>
              /\ \A i \in 1 .. Len(q) : Numbered(q[i], x) => q[i].n \in lo + 1 .. hi
              /\ \A n \in lo + 1 .. hi :
                    \E i \in 1 .. Len(q) : Numbered(q[i], x) /\ q[i].n = n
              /\ \A i, j \in 1 .. Len(q) :
                    Numbered(q[i], x) /\ Numbered(q[j], x) /\ i < j => q[i].n < q[j].n
BY DEF Run, Numbered

LEMMA RunEmpty ==
    ASSUME NEW x, NEW lo \in Nat
    PROVE  Run(<<>>, x, lo, lo)
BY DEF Run

\* What is at the front of a run, and what is behind it.
LEMMA RunTail ==
    ASSUME NEW q \in Seq(Item), q # <<>>, NEW x, NEW lo \in Nat, NEW hi \in Nat,
           lo <= hi, Run(q, x, lo, hi)
    PROVE  IF Numbered(Head(q), x)
           THEN Head(q).n = lo + 1 /\ lo + 1 <= hi /\ Run(Tail(q), x, lo + 1, hi)
           ELSE Run(Tail(q), x, lo, hi)
<1>1. /\ \A i \in 1 .. Len(q) : Numbered(q[i], x) => q[i].n \in lo + 1 .. hi
      /\ \A n \in lo + 1 .. hi :
            \E i \in 1 .. Len(q) : Numbered(q[i], x) /\ q[i].n = n
      /\ \A i, j \in 1 .. Len(q) :
            Numbered(q[i], x) /\ Numbered(q[j], x) /\ i < j => q[i].n < q[j].n
  BY RunExplained
<1>2. /\ Len(q) \in Nat /\ Len(q) >= 1 /\ Head(q) = q[1]
      /\ Tail(q) \in Seq(Item) /\ Len(Tail(q)) = Len(q) - 1
      /\ \A i \in 1 .. Len(q) - 1 : Tail(q)[i] = q[i + 1]
  OBVIOUS
<1> DEFINE t == Tail(q)
<1> HIDE DEF t
<1>3. \A i, j \in 1 .. Len(t) :
         Numbered(t[i], x) /\ Numbered(t[j], x) /\ i < j => t[i].n < t[j].n
  <2> SUFFICES ASSUME NEW i \in 1 .. Len(t), NEW j \in 1 .. Len(t),
                      Numbered(t[i], x), Numbered(t[j], x), i < j
               PROVE  t[i].n < t[j].n
    OBVIOUS
  <2>1. /\ t[i] = q[i + 1] /\ t[j] = q[j + 1] /\ i + 1 < j + 1
        /\ i + 1 \in 1 .. Len(q) /\ j + 1 \in 1 .. Len(q)
    BY <1>2 DEF t
  <2> QED
    BY <1>1, <2>1
<1>4. CASE Numbered(Head(q), x)
  <2>1. lo + 1 <= hi /\ q[1].n \in lo + 1 .. hi
    BY <1>1, <1>2, <1>4
  <2>2. q[1].n = lo + 1
    <3>1. PICK i \in 1 .. Len(q) : Numbered(q[i], x) /\ q[i].n = lo + 1
      BY <1>1, <2>1
    <3>2. CASE i = 1
      BY <3>1, <3>2
    <3>3. CASE i > 1
      BY <1>1, <1>2, <1>4, <2>1, <3>1, <3>3
    <3> QED
      BY <3>2, <3>3
  <2>3. \A i \in 1 .. Len(t) : Numbered(t[i], x) => t[i].n \in lo + 2 .. hi
    <3> SUFFICES ASSUME NEW i \in 1 .. Len(t), Numbered(t[i], x)
                 PROVE  t[i].n \in lo + 2 .. hi
      OBVIOUS
    <3>1. t[i] = q[i + 1] /\ i + 1 \in 1 .. Len(q) /\ 1 < i + 1
      BY <1>2 DEF t
    <3>2. q[i + 1].n \in lo + 1 .. hi /\ q[1].n < q[i + 1].n
      BY <1>1, <1>2, <1>4, <3>1
    <3> QED
      BY <2>2, <3>1, <3>2
  <2>4. \A n \in lo + 2 .. hi : \E i \in 1 .. Len(t) : Numbered(t[i], x) /\ t[i].n = n
    <3> SUFFICES ASSUME NEW n \in lo + 2 .. hi
                 PROVE  \E i \in 1 .. Len(t) : Numbered(t[i], x) /\ t[i].n = n
      OBVIOUS
    <3>1. PICK i \in 1 .. Len(q) : Numbered(q[i], x) /\ q[i].n = n
      BY <1>1
    <3>2. i # 1
      BY <2>2, <3>1
    <3>3. i - 1 \in 1 .. Len(t) /\ t[i - 1] = q[i]
      BY <1>2, <3>2 DEF t
    <3> QED
      BY <3>1, <3>3
  <2>5. Run(t, x, lo + 1, hi)
    BY <1>3, <2>3, <2>4, RunExplained
  <2> QED
    BY <1>2, <1>4, <2>1, <2>2, <2>5 DEF t
<1>5. CASE ~Numbered(Head(q), x)
  <2>1. \A i \in 1 .. Len(t) : Numbered(t[i], x) => t[i].n \in lo + 1 .. hi
    BY <1>1, <1>2 DEF t
  <2>2. \A n \in lo + 1 .. hi : \E i \in 1 .. Len(t) : Numbered(t[i], x) /\ t[i].n = n
    <3> SUFFICES ASSUME NEW n \in lo + 1 .. hi
                 PROVE  \E i \in 1 .. Len(t) : Numbered(t[i], x) /\ t[i].n = n
      OBVIOUS
    <3>1. PICK i \in 1 .. Len(q) : Numbered(q[i], x) /\ q[i].n = n
      BY <1>1
    <3>2. i # 1
      BY <1>2, <1>5, <3>1
    <3>3. i - 1 \in 1 .. Len(t) /\ t[i - 1] = q[i]
      BY <1>2, <3>2 DEF t
    <3> QED
      BY <3>1, <3>3
  <2>3. Run(t, x, lo, hi)
    BY <1>3, <2>1, <2>2, RunExplained
  <2> QED
    BY <1>5, <2>3 DEF t
<1> QED
  BY <1>4, <1>5

\* Two runs, one after the other.
LEMMA RunConcat ==
    ASSUME NEW p \in Seq(Item), NEW q \in Seq(Item), NEW x,
           NEW lo \in Nat, NEW mid \in Nat, NEW hi \in Nat, lo <= mid, mid <= hi,
           Run(p, x, lo, mid), Run(q, x, mid, hi)
    PROVE  Run(p \o q, x, lo, hi)
<1> DEFINE r == p \o q
<1>1. /\ \A i \in 1 .. Len(p) : Numbered(p[i], x) => p[i].n \in lo + 1 .. mid
      /\ \A n \in lo + 1 .. mid :
            \E i \in 1 .. Len(p) : Numbered(p[i], x) /\ p[i].n = n
      /\ \A i, j \in 1 .. Len(p) :
            Numbered(p[i], x) /\ Numbered(p[j], x) /\ i < j => p[i].n < p[j].n
  BY RunExplained
<1>2. /\ \A i \in 1 .. Len(q) : Numbered(q[i], x) => q[i].n \in mid + 1 .. hi
      /\ \A n \in mid + 1 .. hi :
            \E i \in 1 .. Len(q) : Numbered(q[i], x) /\ q[i].n = n
      /\ \A i, j \in 1 .. Len(q) :
            Numbered(q[i], x) /\ Numbered(q[j], x) /\ i < j => q[i].n < q[j].n
  BY RunExplained
<1>3. /\ Len(p) \in Nat /\ Len(q) \in Nat
      /\ Len(r) = Len(p) + Len(q)
      /\ \A i \in 1 .. Len(p) : r[i] = p[i]
      /\ \A i \in 1 .. Len(q) : r[Len(p) + i] = q[i]
      /\ \A i \in Len(p) + 1 .. Len(r) : i - Len(p) \in 1 .. Len(q) /\ r[i] = q[i - Len(p)]
  OBVIOUS
<1> HIDE DEF r
<1>4. \A i \in 1 .. Len(r) : Numbered(r[i], x) => r[i].n \in lo + 1 .. hi
  <2> SUFFICES ASSUME NEW i \in 1 .. Len(r), Numbered(r[i], x)
               PROVE  r[i].n \in lo + 1 .. hi
    OBVIOUS
  <2>1. CASE i <= Len(p)
    BY <1>1, <1>3, <2>1
  <2>2. CASE i > Len(p)
    <3>1. i - Len(p) \in 1 .. Len(q) /\ r[i] = q[i - Len(p)]
      BY <1>3, <2>2
    <3> QED
      BY <1>2, <3>1
  <2> QED
    BY <1>3, <2>1, <2>2
<1>5. \A n \in lo + 1 .. hi : \E i \in 1 .. Len(r) : Numbered(r[i], x) /\ r[i].n = n
  <2> SUFFICES ASSUME NEW n \in lo + 1 .. hi
               PROVE  \E i \in 1 .. Len(r) : Numbered(r[i], x) /\ r[i].n = n
    OBVIOUS
  <2>1. CASE n <= mid
    <3>1. PICK i \in 1 .. Len(p) : Numbered(p[i], x) /\ p[i].n = n
      BY <1>1, <2>1
    <3> QED
      BY <1>3, <3>1
  <2>2. CASE n > mid
    <3>1. PICK i \in 1 .. Len(q) : Numbered(q[i], x) /\ q[i].n = n
      BY <1>2, <2>2
    <3>2. Len(p) + i \in 1 .. Len(r) /\ r[Len(p) + i] = q[i]
      BY <1>3
    <3> QED
      BY <3>1, <3>2
  <2> QED
    BY <2>1, <2>2
<1>6. \A i, j \in 1 .. Len(r) :
         Numbered(r[i], x) /\ Numbered(r[j], x) /\ i < j => r[i].n < r[j].n
  <2> SUFFICES ASSUME NEW i \in 1 .. Len(r), NEW j \in 1 .. Len(r),
                      Numbered(r[i], x), Numbered(r[j], x), i < j
               PROVE  r[i].n < r[j].n
    OBVIOUS
  <2>1. CASE j <= Len(p)
    <3>1. /\ i \in 1 .. Len(p) /\ r[i] = p[i]
          /\ j \in 1 .. Len(p) /\ r[j] = p[j]
      BY <1>3, <2>1
    <3> QED
      BY <1>1, <3>1
  <2>2. CASE i <= Len(p) /\ j > Len(p)
    <3>1. j - Len(p) \in 1 .. Len(q) /\ r[j] = q[j - Len(p)]
      BY <1>3, <2>2
    <3>2. r[j].n \in mid + 1 .. hi
      BY <1>2, <3>1
    <3>3. r[i].n \in lo + 1 .. mid
      BY <1>1, <1>3, <2>2
    <3> QED
      BY <3>2, <3>3
  <2>3. CASE i > Len(p)
    <3>1. /\ i - Len(p) \in 1 .. Len(q) /\ r[i] = q[i - Len(p)]
          /\ j - Len(p) \in 1 .. Len(q) /\ r[j] = q[j - Len(p)]
          /\ i - Len(p) < j - Len(p)
      BY <1>3, <2>3
    <3> QED
      BY <1>2, <3>1
  <2>4. Len(p) \in Int /\ i \in Int /\ j \in Int
    BY <1>3
  <2>5. j <= Len(p) \/ (i <= Len(p) /\ j > Len(p)) \/ i > Len(p)
    BY <2>4
  <2> QED
    BY <2>1, <2>2, <2>3, <2>5
<1>7. Run(r, x, lo, hi)
  BY <1>4, <1>5, <1>6, RunExplained
<1> QED
  BY <1>7 DEF r

\* One item more: the next one, or one without a number.
LEMMA RunAppend ==
    ASSUME NEW q \in Seq(Item), NEW m \in Item, NEW x, NEW lo \in Nat, NEW hi \in Nat,
           lo <= hi, Run(q, x, lo, hi)
    PROVE  /\ ~Numbered(m, x) => Run(Append(q, m), x, lo, hi)
           /\ Numbered(m, x) /\ m.n = hi + 1 => Run(Append(q, m), x, lo, hi + 1)
<1> DEFINE one == <<m>>
<1>1. Append(q, m) = q \o one
  OBVIOUS
<1>2. one \in Seq(Item) /\ Len(one) = 1 /\ one[1] = m /\ \A i \in 1 .. Len(one) : i = 1
  OBVIOUS
<1> HIDE DEF one
<1>3. ASSUME ~Numbered(m, x)
      PROVE  Run(one, x, hi, hi)
  <2>1. \A i \in 1 .. Len(one) : ~Numbered(one[i], x)
    BY <1>2, <1>3
  <2>2. \A n \in hi + 1 .. hi : FALSE
    OBVIOUS
  <2> QED
    BY <2>1, <2>2, RunExplained, Zenon
<1>4. ASSUME Numbered(m, x), m.n = hi + 1
      PROVE  Run(one, x, hi, hi + 1)
  <2>1. \A i \in 1 .. Len(one) : one[i].n \in hi + 1 .. hi + 1
    BY <1>2, <1>4
  <2>2. \A n \in hi + 1 .. hi + 1 :
           \E i \in 1 .. Len(one) : Numbered(one[i], x) /\ one[i].n = n
    BY <1>2, <1>4
  <2>3. \A i, j \in 1 .. Len(one) : ~(i < j)
    BY <1>2
  <2>4. hi + 1 \in Nat
    OBVIOUS
  <2> QED
    BY <2>1, <2>2, <2>3, <2>4, RunExplained, Zenon
<1>5. ~Numbered(m, x) => Run(q \o one, x, lo, hi)
  BY <1>2, <1>3, RunConcat
<1>6. Numbered(m, x) /\ m.n = hi + 1 => Run(q \o one, x, lo, hi + 1)
  <2>1. hi + 1 \in Nat /\ hi <= hi + 1
    OBVIOUS
  <2> QED
    BY <1>2, <1>4, <2>1, RunConcat
<1> QED
  BY <1>1, <1>5, <1>6
LEMMA LineTail ==
    ASSUME NEW S, NEW b \in Seq(S), NEW q \in Seq(S), b # <<>>
    PROVE  /\ b \o q \in Seq(S) /\ b \o q # <<>>
           /\ Head(b \o q) = Head(b) /\ Tail(b \o q) = Tail(b) \o q
OBVIOUS

\* What is left of a run when its front is taken away: by induction over the
\* length of the front.
LEMMA RunSuffix ==
    ASSUME NEW p \in Seq(Item), NEW q \in Seq(Item), NEW x,
           NEW lo \in Nat, NEW hi \in Nat, lo <= hi, Run(p \o q, x, lo, hi)
    PROVE  \E mid \in lo .. hi : Run(q, x, mid, hi)
<1> DEFINE Left(l) == \E mid \in l .. hi : Run(q, x, mid, hi)
           Holds(n) == \A r \in Seq(Item) : \A l \in 0 .. hi :
                          Len(r) = n /\ Run(r \o q, x, l, hi) => Left(l)
           S == {n \in Nat : Holds(n)}
<1>1. 0 \in S
  <2> SUFFICES ASSUME NEW r \in Seq(Item), NEW l \in 0 .. hi,
                      Len(r) = 0, Run(r \o q, x, l, hi)
               PROVE  Left(l)
    OBVIOUS
  <2>1. r \o q = q
    OBVIOUS
  <2> QED
    BY <2>1
<1>2. ASSUME NEW n \in S \cap Nat
      PROVE  n + 1 \in S
  <2>1. Holds(n)
    BY <1>2
  <2>2. ASSUME NEW r \in Seq(Item), NEW l \in 0 .. hi,
               Len(r) = n + 1, Run(r \o q, x, l, hi)
        PROVE  Left(l)
    <3> DEFINE s == r \o q
               t == Tail(r)
    <3>1. Len(r) # 0 /\ r # <<>> /\ t \in Seq(Item) /\ Len(t) = n
      BY <2>2
    <3>2. s \in Seq(Item) /\ s # <<>> /\ Tail(s) = t \o q
      BY <3>1, LineTail
    <3>3. l \in Nat /\ l <= hi
      OBVIOUS
    <3> HIDE DEF t
    <3>4. \/ Run(t \o q, x, l, hi)
          \/ l + 1 <= hi /\ Run(t \o q, x, l + 1, hi)
      <4>1. Run(s, x, l, hi)
        BY <2>2
      <4>2. IF Numbered(Head(s), x)
            THEN Head(s).n = l + 1 /\ l + 1 <= hi /\ Run(Tail(s), x, l + 1, hi)
            ELSE Run(Tail(s), x, l, hi)
        <5> HIDE DEF s
        <5> QED
          BY <3>2, <3>3, <4>1, RunTail, Zenon
      <4> HIDE DEF s
      <4> QED
        BY <3>2, <4>2
    <3>5. CASE Run(t \o q, x, l, hi)
      BY <2>1, <3>1, <3>5
    <3>6. CASE l + 1 <= hi /\ Run(t \o q, x, l + 1, hi)
      <4>1. l + 1 \in 0 .. hi
        BY <3>6
      <4>2. Left(l + 1)
        BY <2>1, <3>1, <3>6, <4>1
      <4> QED
        BY <4>2
    <3> QED
      BY <3>4, <3>5, <3>6
  <2>3. Holds(n + 1)
    BY <2>2
  <2> QED
    BY <2>3
<1> HIDE DEF S
<1>3. Len(p) \in S
  BY <1>1, <1>2, SetInduction
<1>4. Holds(Len(p))
  BY <1>3 DEF S
<1> QED
  BY <1>4
-----------------------------------------------------------------------------
(* The line of a connection: what was read of it, and what was not.        *)

LEMMA LineMoved ==
    ASSUME NEW S, NEW b \in Seq(S), NEW q \in Seq(S), NEW k \in 0 .. Len(q)
    PROVE  (b \o SubSeq(q, 1, k)) \o SubSeq(q, k + 1, Len(q)) = b \o q
<1> DEFINE front == SubSeq(q, 1, k)
           rest == SubSeq(q, k + 1, Len(q))
<1>1. front \in Seq(S) /\ rest \in Seq(S) /\ q = front \o rest
  <2>1. /\ front \in Seq(S) /\ Len(front) = k
        /\ \A i \in 1 .. k : front[i] = q[i]
    OBVIOUS
  <2>2. /\ rest \in Seq(S) /\ Len(rest) = Len(q) - k
        /\ \A i \in k + 1 .. Len(q) : rest[i - k] = q[i]
    OBVIOUS
  <2> HIDE DEF front, rest
  <2>3. /\ front \o rest \in Seq(S) /\ Len(front \o rest) = Len(q)
        /\ \A i \in 1 .. Len(q) : (front \o rest)[i] = q[i]
    <3>1. /\ front \o rest \in Seq(S) /\ Len(front \o rest) = k + (Len(q) - k)
          /\ \A i \in 1 .. k + (Len(q) - k) :
                (front \o rest)[i] = IF i <= k THEN front[i] ELSE rest[i - k]
      BY <2>1, <2>2, ConcatProperties
    <3>2. Len(q) \in Nat /\ k + (Len(q) - k) = Len(q)
      OBVIOUS
    <3>3. \A i \in 1 .. Len(q) : (front \o rest)[i] = q[i]
      <4> TAKE i \in 1 .. Len(q)
      <4>1. CASE i <= k
        BY <2>1, <3>1, <3>2, <4>1
      <4>2. CASE ~(i <= k)
        <5>1. i \in k + 1 .. Len(q) /\ ~(i <= k)
          BY <3>2, <4>2
        <5>2. rest[i - k] = q[i]
          BY <2>2, <5>1
        <5>3. (front \o rest)[i] = rest[i - k]
          BY <3>1, <3>2, <5>1
        <5> QED
          BY <5>2, <5>3
      <4> QED
        BY <4>1, <4>2
    <3> QED
      BY <3>1, <3>2, <3>3
  <2> QED
    BY <2>1, <2>2, <2>3, SeqEqual
<1> HIDE DEF front, rest
<1>2. (b \o front) \o rest = b \o (front \o rest)
  BY <1>1
<1> QED
  BY <1>1, <1>2 DEF front, rest

LEMMA LineAppend ==
    ASSUME NEW S, NEW b \in Seq(S), NEW q \in Seq(S), NEW m \in S
    PROVE  b \o Append(q, m) = Append(b \o q, m)
OBVIOUS

\* What connection c sends: its own items; the kinds that are for the daemon
\* alone carry no number.
Silent(c) == IF c = Serial THEN NotRelayed ELSE {"Garbage"}
ItemOf(c) == {m \in Item : m.src = c /\ (m.kind \in Silent(c) => m.n = 0)}
Sources == \A c \in Conn : buf[c] \in Seq(ItemOf(c)) /\ inbox[c] \in Seq(ItemOf(c))

\* How a step changes the lines.
Untouched == UNCHANGED <<c_network, sent, serial_out, outbox, log>>

Rests ==
    /\ Untouched /\ UNCHANGED <<buf, inbox>>
    /\ \A c \in Client : /\ peer'[c] = "gone" => peer[c] = "gone"
                         /\ peer'[c] = "new" => peer[c] = "new"
                         /\ peer[c] = "gone" => peer'[c] = "gone"
Moves(c) ==
    /\ Untouched /\ UNCHANGED peer
    /\ \E k \in 0 .. Len(inbox[c]) :
          /\ buf' = [buf EXCEPT ![c] = @ \o SubSeq(inbox[c], 1, k)]
          /\ inbox' = [inbox EXCEPT ![c] = SubSeq(@, k + 1, Len(@))]
Drops(c) ==
    /\ Untouched /\ UNCHANGED <<peer, inbox>>
    /\ buf[c] # <<>> /\ Head(buf[c]).kind \in Silent(c)
    /\ buf' = [buf EXCEPT ![c] = Tail(@)]
Loses(K) ==
    /\ c_network' = c_network \ K
    /\ UNCHANGED <<sent, serial_out, outbox, log>>
    /\ \A c \in Conn : \/ buf'[c] = buf[c] /\ inbox'[c] = inbox[c]
                       \/ c \in K /\ buf'[c] \in {buf[c], <<>>} /\ inbox'[c] = <<>>
    /\ peer' = [c \in Client |-> IF c \in K THEN "gone" ELSE peer[c]]
Relays(c, m, stay) ==
    /\ buf[c] # <<>> /\ m = Head(buf[c])
    /\ Posts(c, m, stay) /\ UNCHANGED sent
    /\ serial_out' = IF c = Serial THEN serial_out ELSE serial_out \o <<m, StatusRequest>>
    /\ \A d \in Conn : \/ /\ buf'[d] = IF d = c THEN Tail(buf[c]) ELSE buf[d]
                          /\ inbox'[d] = inbox[d]
                       \/ /\ d \in c_network \ stay
                          /\ buf'[d] \in {buf[d], <<>>} /\ inbox'[d] = <<>>
    /\ peer' = [d \in Client |-> IF d \in c_network \ stay THEN "gone" ELSE peer[d]]
Accepts(c) ==
    /\ Joins(c) /\ UNCHANGED <<sent, inbox, serial_out>>
    /\ \A d \in Conn : \/ buf'[d] = buf[d]
                       \/ d \in Client /\ peer[d] = "gone" /\ buf'[d] = <<>>
Ends ==
    /\ Terminate /\ UNCHANGED <<sent, outbox>>
    /\ \/ serial_out' = serial_out
       \/ \E c \in Client : /\ peer[c] # "new" /\ buf[c] # <<>>
                            /\ serial_out' = Append(serial_out, Head(buf[c]))
Sending(x, i) ==
    /\ i \in ItemOf(x)
    /\ UNCHANGED <<c_network, peer, serial_out, outbox, log, buf>>
    /\ inbox' = [inbox EXCEPT ![x] = Append(@, i)]
    /\ \/ i.n = 0 /\ UNCHANGED sent
       \/ i.n = sent[x] + 1 /\ sent' = [sent EXCEPT ![x] = @ + 1]
    /\ x # Serial => peer[x] = "open"

LineStep ==
    \/ Rests
    \/ \E c \in Conn : Moves(c) \/ Drops(c)
    \/ \E K \in SUBSET Client : Loses(K)
    \/ \E c \in Conn, m \in Item, stay \in SUBSET c_network : Relays(c, m, stay)
    \/ \E c \in Client : Accepts(c)
    \/ Ends
    \/ Start
    \/ \E x \in Conn, i \in Item : Sending(x, i)

LEMMA SilentHead ==
    ASSUME TypeOK, Sources, NEW c \in Conn, buf[c] # <<>>
    PROVE  Head(buf[c]) \in ItemOf(c) /\ Head(buf[c]) \in Item
<1>1. buf[c] \in Seq(ItemOf(c))
  BY DEF Sources
<1> QED
  BY <1>1, TailInSeq DEF ItemOf

LEMMA ReadingIsLineStep ==
    ASSUME TypeOK, NEW c \in Conn,
           ready_to_read(c) \/ ReadFails(c) \/ AssertionFails(c)
    PROVE  LineStep
<1>1. CASE ready_to_read(c)
  <2>1. Moves(c)
    BY <1>1 DEF ready_to_read, Moves, Untouched, world, output
  <2> QED
    BY <2>1 DEF LineStep
<1>2. CASE ReadFails(c)
  <2>1. c \in Client /\ {c} \cap Client = {c} /\ {c} \in SUBSET Client
    BY <1>2 DEF ReadFails, Conn
  <2>2. Loses({c})
    BY <1>2, <2>1 DEF ReadFails, kill_connection, Loses, Disconnect, Freed, output
  <2> QED
    BY <2>1, <2>2 DEF LineStep
<1>3. CASE AssertionFails(c)
  <2>1. Ends
    BY <1>3 DEF AssertionFails, Ends, output
  <2> QED
    BY <2>1 DEF LineStep
<1> QED
  BY <1>1, <1>2, <1>3

LEMMA ProcessingIsLineStep ==
    ASSUME IInv, Sources, NEW c \in Conn, process_read_data(c) \/ FreedWatcherCrashes(c)
    PROVE  LineStep
<1> TypeOK /\ Serial \in Conn /\ c_network \in SUBSET Client /\ Serial \notin Client
  BY ConnAssumption DEF IInv, TypeOK, Conn
<1>1. CASE InsufficientData(c)
  BY <1>1 DEF InsufficientData, LineStep, Rests, Untouched, world, output
<1>2. CASE FormError(c)
  <2>1. Drops(c)
    BY <1>2 DEF FormError, Drops, Untouched, Consume, Silent, NotRelayed, world, output
  <2> QED
    BY <2>1 DEF LineStep
<1>3. ASSUME NEW m, BusActive(m) \/ RxBuffFull(m) \/ RxReady(m)
      PROVE  LineStep
  <2>1. Drops(Serial)
    BY <1>3 DEF BusActive, RxBuffFull, RxReady, Parsed, Drops, Untouched, Consume,
                Silent, NotRelayed, world, output
  <2> QED
    BY <2>1 DEF LineStep
<1>4. ASSUME NEW m, BusOff(m)
      PROVE  LineStep
  <2>1. buf[Serial] # <<>> /\ m = Head(buf[Serial]) /\ m \in Item
    BY <1>4, HeadIsItem DEF BusOff, Parsed
  <2>2. outbox' = [d \in Client |-> IF d \in {} \ {Serial} THEN Append(outbox[d], m)
                                    ELSE outbox[d]]
    BY <1>4 DEF BusOff, TypeOK
  <2>3. Posts(Serial, m, {})
    BY <1>4, <2>2 DEF BusOff, Posts, Logged
  <2>4. \A d \in Conn : \/ /\ buf'[d] = IF d = Serial THEN Tail(buf[Serial]) ELSE buf[d]
                           /\ inbox'[d] = inbox[d]
                        \/ /\ d \in c_network \ {}
                           /\ buf'[d] \in {buf[d], <<>>} /\ inbox'[d] = <<>>
    BY <1>4 DEF BusOff, Freed, Disconnect, TypeOK
  <2>5. Relays(Serial, m, {})
    BY <1>4, <2>1, <2>3, <2>4 DEF BusOff, Relays, Disconnect
  <2> QED
    BY <2>1, <2>5 DEF LineStep
<1>5. ASSUME NEW m, NEW failed \in SUBSET c_network, FromBus(m, failed)
      PROVE  LineStep
  <2>1. buf[Serial] # <<>> /\ m = Head(buf[Serial]) /\ m \in Item
    BY <1>5, HeadIsItem DEF FromBus, Parsed
  <2> DEFINE stay == c_network \ failed
  <2>2. Posts(Serial, m, stay)
    <3>1. outbox' = [d \in Client |-> IF d \in stay \ {Serial} THEN Append(outbox[d], m)
                                      ELSE outbox[d]]
      BY <1>5 DEF FromBus, Relay
    <3> QED
      BY <1>5, <3>1 DEF FromBus, Posts, Logged
  <2>3. c_network \ stay = failed /\ stay \in SUBSET c_network
    OBVIOUS
  <2>4. \A d \in Conn : \/ /\ buf'[d] = IF d = Serial THEN Tail(buf[Serial]) ELSE buf[d]
                           /\ inbox'[d] = inbox[d]
                        \/ /\ d \in failed
                           /\ buf'[d] \in {buf[d], <<>>} /\ inbox'[d] = <<>>
    BY <1>5 DEF FromBus, Freed, Disconnect, TypeOK
  <2> HIDE DEF stay
  <2>5. Relays(Serial, m, stay)
    BY <1>5, <2>1, <2>2, <2>3, <2>4 DEF FromBus, Relays, Disconnect
  <2> QED
    BY <2>1, <2>3, <2>5 DEF LineStep
<1>6. ASSUME NEW m, NEW failed \in SUBSET c_network, FromClient(c, m, failed)
      PROVE  LineStep
  <2>1. buf[c] # <<>> /\ m = Head(buf[c]) /\ m \in Item /\ c # Serial
    BY <1>6, HeadIsItem DEF FromClient, Parsed
  <2> DEFINE stay == c_network \ failed
  <2>2. Posts(c, m, stay)
    <3>1. outbox' = [d \in Client |-> IF d \in stay \ {c} THEN Append(outbox[d], m)
                                      ELSE outbox[d]]
      BY <1>6 DEF FromClient, Relay
    <3> QED
      BY <1>6, <3>1 DEF FromClient, Posts, Logged
  <2>3. c_network \ stay = failed /\ stay \in SUBSET c_network
    OBVIOUS
  <2>4. \A d \in Conn : \/ /\ buf'[d] = IF d = c THEN Tail(buf[c]) ELSE buf[d]
                           /\ inbox'[d] = inbox[d]
                        \/ /\ d \in failed
                           /\ buf'[d] \in {buf[d], <<>>} /\ inbox'[d] = <<>>
    <3> SUFFICES ASSUME NEW d \in Conn
                 PROVE  \/ /\ buf'[d] = IF d = c THEN Tail(buf[c]) ELSE buf[d]
                           /\ inbox'[d] = inbox[d]
                        \/ /\ d \in failed
                           /\ buf'[d] \in {buf[d], <<>>} /\ inbox'[d] = <<>>
      OBVIOUS
    <3>1. c \notin failed
      BY <1>6 DEF FromClient
    <3>2. inbox'[d] = IF d \in failed THEN <<>> ELSE inbox[d]
      BY <1>6 DEF FromClient, Disconnect
    <3>3. buf'[d] = IF d = c THEN Tail(buf[c])
                    ELSE IF d \in failed \ freed_todo THEN <<>> ELSE buf[d]
      BY <1>6 DEF FromClient
    <3> QED
      BY <3>1, <3>2, <3>3
  <2> HIDE DEF stay
  <2>5. Relays(c, m, stay)
    BY <1>6, <2>1, <2>2, <2>3, <2>4 DEF FromClient, Relays, Disconnect, WritesToSerial
  <2> QED
    BY <2>1, <2>3, <2>5 DEF LineStep
<1>7. ASSUME NEW m, SerialWriteFails(c, m)
      PROVE  Ends
  <2>1. c \in Client /\ buf[c] # <<>> /\ m = Head(buf[c])
    BY <1>7 DEF SerialWriteFails, Parsed, Conn
  <2>2. peer[c] # "new"
    BY <2>1 DEF IInv, InStep, FreshBuffers, TypeOK
  <2> QED
    BY <1>7, <2>1, <2>2 DEF SerialWriteFails, Ends
<1>8. CASE FreedWatcherCrashes(c)
  BY <1>8 DEF FreedWatcherCrashes, LineStep, Ends, output
<1>9. CASE process_read_data(c)
  BY <1>1, <1>2, <1>3, <1>4, <1>5, <1>6, <1>7, <1>9 DEF process_read_data, LineStep
<1> QED
  BY <1>8, <1>9

LEMMA SendingIsLineStep ==
    ASSUME TypeOK, NEW x \in Conn, NEW k, NEW numbered \in BOOLEAN, NEW max \in Nat,
           [kind |-> k, src |-> x, n |-> 0] \in Item,
           \A n \in 1 .. max : [kind |-> k, src |-> x, n |-> n] \in Item,
           numbered <=> k \notin Silent(x),
           x # Serial => peer[x] = "open",
           Sends(x, k, numbered, max)
    PROVE  LineStep
<1> DEFINE i == [kind |-> k, src |-> x, n |-> IF numbered THEN sent[x] + 1 ELSE 0]
<1>1. sent[x] \in Nat /\ (numbered => sent[x] + 1 \in 1 .. max)
  BY DEF Sends, TypeOK
<1>2. i \in Item
  BY <1>1
<1>3. i \in ItemOf(x)
  BY <1>2 DEF ItemOf
<1>4. /\ inbox' = [inbox EXCEPT ![x] = Append(@, i)]
      /\ sent' = [sent EXCEPT ![x] = IF numbered THEN @ + 1 ELSE @]
      /\ UNCHANGED <<c_network, peer, serial_out, outbox, log, buf>>
  BY DEF Sends, output
<1>5. \/ i.n = 0 /\ UNCHANGED sent
      \/ i.n = sent[x] + 1 /\ sent' = [sent EXCEPT ![x] = @ + 1]
  <2>1. CASE numbered
    BY <1>4, <2>1
  <2>2. CASE ~numbered
    <3>1. sent' = [sent EXCEPT ![x] = sent[x]]
      BY <1>4, <2>2
    <3>2. sent' = sent
      BY <3>1 DEF TypeOK
    <3> QED
      BY <2>2, <3>2
  <2> QED
    BY <2>1, <2>2
<1> HIDE DEF i
<1>6. Sending(x, i)
  BY <1>3, <1>4, <1>5 DEF Sending
<1> QED
  BY <1>2, <1>6 DEF LineStep

LEMMA WorldIsLineStep ==
    ASSUME IInv, Clients \/ BusSends \/ \E c \in Client : incomming_connection(c)
    PROVE  LineStep
<1> TypeOK /\ Serial \notin Client
  BY ConnAssumption DEF IInv
<1>1. ASSUME NEW c \in Client, ClientSends(c)
      PROVE  LineStep
  <2>1. PICK k \in ClientKind : Sends(c, k, k # "Garbage", MaxSent)
    BY <1>1 DEF ClientSends
  <2>2. /\ [kind |-> k, src |-> c, n |-> 0] \in Item
        /\ \A n \in 1 .. MaxSent : [kind |-> k, src |-> c, n |-> n] \in Item
        /\ MaxSent \in Nat
    BY BoundAssumption DEF Item
  <2>3. /\ c \in Conn /\ (k # "Garbage") \in BOOLEAN /\ peer[c] = "open"
        /\ (k # "Garbage") <=> k \notin Silent(c)
    BY <1>1 DEF Conn, Silent, ClientSends
  <2> QED
    BY <2>1, <2>2, <2>3, SendingIsLineStep
<1>2. CASE BusSends
  <2>1. PICK k \in BusKind : Sends(Serial, k, k \notin NotRelayed, MaxBus)
    BY <1>2 DEF BusSends
  <2>2. /\ [kind |-> k, src |-> Serial, n |-> 0] \in Item
        /\ \A n \in 1 .. MaxBus : [kind |-> k, src |-> Serial, n |-> n] \in Item
        /\ MaxBus \in Nat
    BY BoundAssumption DEF Item
  <2>3. /\ Serial \in Conn /\ (k \notin NotRelayed) \in BOOLEAN
        /\ (k \notin NotRelayed) <=> k \notin Silent(Serial)
    BY DEF Conn, Silent
  <2> QED
    BY <2>1, <2>2, <2>3, SendingIsLineStep
<1>3. ASSUME NEW c \in Client, ClientConnects(c)
      PROVE  LineStep
  <2>1. Rests
    BY <1>3 DEF ClientConnects, Rests, Untouched, output, TypeOK
  <2> QED
    BY <2>1 DEF LineStep
<1>4. ASSUME NEW c \in Client, ConnectionRefused(c)
      PROVE  LineStep
  <2>1. c \notin c_network /\ c_network' = c_network \ {c}
    BY <1>4 DEF ConnectionRefused, Pending
  <2>2. Loses({c})
    BY <1>4, <2>1 DEF ConnectionRefused, Disconnect, Loses, output
  <2> QED
    BY <2>2 DEF LineStep
<1>5. ASSUME NEW c \in Client, ConnectionKept(c)
      PROVE  LineStep
  <2>1. Joins(c) /\ UNCHANGED <<sent, inbox, serial_out>>
    BY <1>5 DEF ConnectionKept, Acceptable, Pending, Joins, world, output
  <2>2. ASSUME NEW d \in Conn
        PROVE  buf'[d] = buf[d] \/ (d \in Client /\ peer[d] = "gone" /\ buf'[d] = <<>>)
    <3>1. CASE UNCHANGED buf
      BY <3>1
    <3>2. ASSUME NEW f \in freed_todo \ c_network, buf' = [buf EXCEPT ![f] = <<>>]
          PROVE  buf'[d] = buf[d] \/ (d \in Client /\ peer[d] = "gone" /\ buf'[d] = <<>>)
      <4>1. f \in Client
        BY DEF TypeOK
      <4>2. peer[f] = "gone" \/ buf[f] = <<>>
        BY <4>1 DEF IInv, InStep, FreshBuffers
      <4>3. buf'[d] = IF d = f THEN <<>> ELSE buf[d]
        BY <3>2 DEF TypeOK
      <4> QED
        BY <4>1, <4>2, <4>3
    <3> QED
      BY <1>5, <3>1, <3>2 DEF ConnectionKept
  <2>3. Accepts(c)
    BY <2>1, <2>2 DEF Accepts
  <2> QED
    BY <2>3 DEF LineStep
<1> QED
  BY <1>1, <1>2, <1>3, <1>4, <1>5 DEF Clients, incomming_connection

LEMMA StepIsLineStep ==
    ASSUME IInv, Sources, [Next]_vars
    PROVE  LineStep
<1> TypeOK
  BY DEF IInv
<1>1. CASE UNCHANGED vars
  BY <1>1 DEF vars, LineStep, Rests, Untouched
<1>2. CASE Exit
  BY <1>2 DEF Exit, LineStep, Ends, output
<1>3. CASE Start
  BY <1>3 DEF LineStep
<1> QED
  BY <1>1, <1>2, <1>3, ReadingIsLineStep, ProcessingIsLineStep, WorldIsLineStep
     DEF Next, Daemon
-----------------------------------------------------------------------------
(* Whose items are where.                                                  *)

LEMMA SourcesInit == Init => Sources
<1> SUFFICES ASSUME Init, NEW c \in Conn
             PROVE  buf[c] \in Seq(ItemOf(c)) /\ inbox[c] \in Seq(ItemOf(c))
  BY DEF Sources
<1>1. buf[c] = <<>> /\ inbox[c] = <<>>
  BY DEF Init
<1> QED
  BY <1>1

LEMMA SourcesStep ==
    ASSUME TypeOK, Sources, LineStep
    PROVE  Sources'
<1> SUFFICES ASSUME NEW c \in Conn
             PROVE  buf'[c] \in Seq(ItemOf(c)) /\ inbox'[c] \in Seq(ItemOf(c))
  BY DEF Sources, ItemOf
<1> DEFINE S == Seq(ItemOf(c))
<1>0. /\ buf[c] \in S /\ inbox[c] \in S /\ <<>> \in S
      /\ buf[c] # <<>> => Tail(buf[c]) \in S
  BY DEF Sources
<1>f. DOMAIN buf = Conn /\ DOMAIN inbox = Conn
  BY DEF TypeOK
<1>1. CASE Rests
  BY <1>0, <1>1 DEF Rests
<1>2. ASSUME NEW d \in Conn, Moves(d)
      PROVE  buf'[c] \in S /\ inbox'[c] \in S
  <2>1. PICK k \in 0 .. Len(inbox[d]) :
           /\ buf' = [buf EXCEPT ![d] = @ \o SubSeq(inbox[d], 1, k)]
           /\ inbox' = [inbox EXCEPT ![d] = SubSeq(@, k + 1, Len(@))]
    BY <1>2 DEF Moves
  <2>2. CASE c = d
    <3>1. /\ buf[c] \o SubSeq(inbox[c], 1, k) \in S
          /\ SubSeq(inbox[c], k + 1, Len(inbox[c])) \in S
      BY <1>0, <2>1, <2>2, SplitInSeq
    <3> QED
      BY <1>f, <2>1, <2>2, <3>1
  <2>3. CASE c # d
    BY <1>0, <1>f, <2>1, <2>3
  <2> QED
    BY <2>2, <2>3
<1>3. ASSUME NEW d \in Conn, Drops(d)
      PROVE  buf'[c] \in S /\ inbox'[c] \in S
  BY <1>0, <1>f, <1>3 DEF Drops
<1>4. ASSUME NEW K \in SUBSET Client, Loses(K)
      PROVE  buf'[c] \in S /\ inbox'[c] \in S
  BY <1>0, <1>4 DEF Loses
<1>5. ASSUME NEW d \in Conn, NEW m \in Item, NEW stay \in SUBSET c_network,
             Relays(d, m, stay)
      PROVE  buf'[c] \in S /\ inbox'[c] \in S
  BY <1>0, <1>5 DEF Relays
<1>6. ASSUME NEW d \in Client, Accepts(d)
      PROVE  buf'[c] \in S /\ inbox'[c] \in S
  BY <1>0, <1>6 DEF Accepts
<1>7. CASE Ends
  BY <1>0, <1>7 DEF Ends, Terminate
<1>8. CASE Start
  BY <1>0, <1>f, <1>8 DEF Start
<1>9. ASSUME NEW x \in Conn, NEW i \in Item, Sending(x, i)
      PROVE  buf'[c] \in S /\ inbox'[c] \in S
  <2>1. CASE c = x
    <3>1. i \in ItemOf(c)
      BY <1>9, <2>1 DEF Sending
    <3>2. Append(inbox[c], i) \in S
      BY <1>0, <3>1
    <3> QED
      BY <1>0, <1>f, <1>9, <2>1, <3>2 DEF Sending
  <2>2. CASE c # x
    BY <1>0, <1>f, <1>9, <2>2 DEF Sending
  <2> QED
    BY <2>1, <2>2
<1> QED
  BY <1>1, <1>2, <1>3, <1>4, <1>5, <1>6, <1>7, <1>8, <1>9 DEF LineStep
-----------------------------------------------------------------------------
(* The streams: what a client sent, and what the bus sent.                 *)

\* What was written for a client is a beginning of what it sent, and its line
\* is the rest.
OutStream(c) ==
    peer[c] # "gone" =>
        /\ peer[c] = "new" => sent[c] = 0
        /\ \E w \in 0 .. sent[c] : /\ Run(serial_out, c, 0, w)
                                   /\ Run(buf[c] \o inbox[c], c, w, sent[c])

\* The line of the bus is the end of what it sent, and every client has what
\* came before from its first message on.
InStream ==
    \E j \in 0 .. sent[Serial] :
        /\ Run(buf[Serial] \o inbox[Serial], Serial, j, sent[Serial])
        /\ \A c \in c_network : \E k \in 0 .. j : Run(outbox[c], Serial, k, j)

Streams == FreshOutbox /\ InStream /\ \A c \in Client : OutStream(c)

LEMMA StreamsInit == Init => Streams
<1> SUFFICES ASSUME Init PROVE Streams
  OBVIOUS
<1> Serial \in Conn /\ Client \subseteq Conn
  BY DEF Conn
<1>1. FreshOutbox
  BY DEF Init, FreshOutbox
<1>2. /\ \A c \in Conn : buf[c] \o inbox[c] = <<>> /\ sent[c] = 0
      /\ serial_out = <<StatusRequest>> /\ c_network = {}
  BY DEF Init
<1>3. InStream
  <2>1. Run(<<>>, Serial, 0, 0)
    BY RunEmpty
  <2> QED
    <3>1. /\ buf[Serial] \o inbox[Serial] = <<>> /\ sent[Serial] = 0
          /\ 0 \in 0 .. sent[Serial] /\ \A c : c \notin c_network
      BY <1>2
    <3> QED
      BY <2>1, <3>1, Zenon DEF InStream
<1>4. ASSUME NEW c \in Client PROVE OutStream(c)
  <2>1. <<StatusRequest>> = Append(<<>>, StatusRequest) /\ <<>> \in Seq(Item)
    OBVIOUS
  <2>2. Run(<<>>, c, 0, 0)
    BY RunEmpty
  <2>3. ~Numbered(StatusRequest, c)
    BY DEF Numbered, StatusRequest
  <2>4. Run(Append(<<>>, StatusRequest), c, 0, 0)
    <3>1. 0 \in Nat /\ 0 <= 0
      OBVIOUS
    <3> QED
      BY <2>1, <2>2, <2>3, <3>1, RunAppend, StatusRequestIsItem, Zenon
  <2>5. Run(serial_out, c, 0, 0)
    BY <1>2, <2>1, <2>4, Zenon
  <2> QED
    <3>1. buf[c] \o inbox[c] = <<>> /\ sent[c] = 0 /\ 0 \in 0 .. sent[c]
      BY <1>2
    <3> QED
      BY <2>2, <2>5, <3>1, Zenon DEF OutStream
<1> QED
  BY <1>1, <1>3, <1>4 DEF Streams

\* The first item of a line goes from the line to where it is written.
LEMMA Passes ==
    ASSUME NEW b \in Seq(Item), NEW q \in Seq(Item), b # <<>>, NEW x,
           NEW w \in Nat, NEW hi \in Nat, w <= hi, Run(b \o q, x, w, hi)
    PROVE  \E v \in w .. hi :
              /\ Run(Tail(b) \o q, x, v, hi)
              /\ ~Numbered(Head(b), x) => v = w
              /\ \A p \in Seq(Item) : \A lo \in 0 .. w :
                    Run(p, x, lo, w) => Run(Append(p, Head(b)), x, lo, v)
<1> DEFINE m == Head(b)
           r == Tail(b) \o q
<1>1. /\ m \in Item /\ b \o q \in Seq(Item) /\ b \o q # <<>>
      /\ Head(b \o q) = m /\ Tail(b \o q) = r
  BY LineTail
<1>2. IF Numbered(m, x)
      THEN m.n = w + 1 /\ w + 1 <= hi /\ Run(r, x, w + 1, hi)
      ELSE Run(r, x, w, hi)
  <2>1. IF Numbered(Head(b \o q), x)
        THEN /\ Head(b \o q).n = w + 1 /\ w + 1 <= hi
             /\ Run(Tail(b \o q), x, w + 1, hi)
        ELSE Run(Tail(b \o q), x, w, hi)
    BY <1>1, RunTail, Zenon
  <2> QED
    BY <1>1, <2>1, Zenon
<1> HIDE DEF m, r
<1>3. \A p \in Seq(Item) : \A lo \in 0 .. w : Run(p, x, lo, w) =>
         /\ ~Numbered(m, x) => Run(Append(p, m), x, lo, w)
         /\ Numbered(m, x) /\ m.n = w + 1 => Run(Append(p, m), x, lo, w + 1)
  <2> TAKE p \in Seq(Item)
  <2> TAKE lo \in 0 .. w
  <2>1. lo \in Nat /\ lo <= w
    OBVIOUS
  <2> QED
    BY <1>1, <2>1, RunAppend, Zenon
<1>4. CASE Numbered(m, x)
  <2>1. w + 1 \in w .. hi
    BY <1>2, <1>4
  <2> QED
    BY <1>2, <1>3, <1>4, <2>1, Zenon DEF m, r
<1>5. CASE ~Numbered(m, x)
  <2>1. w \in w .. hi
    OBVIOUS
  <2> QED
    BY <1>2, <1>3, <1>5, <2>1, Zenon DEF m, r
<1> QED
  BY <1>4, <1>5

\* What others write for another client is no item of this one.
LEMMA OthersWrite ==
    ASSUME NEW p \in Seq(Item), NEW m \in Item, NEW x, ~Numbered(m, x),
           NEW lo \in Nat, NEW hi \in Nat, lo <= hi, Run(p, x, lo, hi)
    PROVE  Run(Append(p, m), x, lo, hi)
BY RunAppend, Zenon

LEMMA RequestWritten ==
    ASSUME NEW p \in Seq(Item), NEW x, NEW hi \in Nat, Run(p, x, 0, hi)
    PROVE  Run(Append(p, StatusRequest), x, 0, hi)
<1>1. ~Numbered(StatusRequest, x) /\ 0 \in Nat /\ 0 <= hi
  BY DEF Numbered, StatusRequest
<1> QED
  BY <1>1, OthersWrite, StatusRequestIsItem, Zenon

LEMMA MessageWritten ==
    ASSUME NEW p \in Seq(Item), NEW m \in Item, NEW x, NEW v \in Nat,
           Run(Append(p, m), x, 0, v)
    PROVE  Run(p \o <<m, StatusRequest>>, x, 0, v)
<1>1. Append(p, m) \in Seq(Item)
  OBVIOUS
<1>2. Append(Append(p, m), StatusRequest) = p \o <<m, StatusRequest>>
  OBVIOUS
<1> QED
  BY <1>1, <1>2, RequestWritten, Zenon

LEMMA OutStreamStep ==
    ASSUME TypeOK, Sources, NEW c \in Client, OutStream(c), LineStep
    PROVE  OutStream(c)'
<1> SUFFICES ASSUME peer'[c] # "gone"
             PROVE  /\ peer'[c] = "new" => sent'[c] = 0
                    /\ \E w \in 0 .. sent'[c] :
                          /\ Run(serial_out', c, 0, w)
                          /\ Run(buf'[c] \o inbox'[c], c, w, sent'[c])
  BY DEF OutStream
<1> DEFINE line == buf[c] \o inbox[c]
           Goal == /\ peer'[c] = "new" => sent'[c] = 0
                   /\ \E w \in 0 .. sent'[c] :
                         /\ Run(serial_out', c, 0, w)
                         /\ Run(buf'[c] \o inbox'[c], c, w, sent'[c])
<1>t. /\ c \in Conn /\ c # Serial /\ Serial \in Conn
      /\ buf[c] \in Seq(Item) /\ inbox[c] \in Seq(Item) /\ line \in Seq(Item)
      /\ serial_out \in Seq(Item) /\ sent[c] \in Nat
      /\ DOMAIN buf = Conn /\ DOMAIN inbox = Conn /\ DOMAIN sent = Conn
  BY ConnAssumption DEF TypeOK, Conn
<1> HIDE DEF line
\* What the step leaves is enough when neither stream is changed.
<1>k. ASSUME peer[c] # "gone", peer'[c] = "new" => peer[c] = "new",
             serial_out' = serial_out, sent'[c] = sent[c],
             buf'[c] \o inbox'[c] = line
      PROVE  Goal
  BY <1>k DEF OutStream, line
<1>1. CASE Rests
  BY <1>1, <1>k DEF Rests, Untouched, line
<1>2. ASSUME NEW d \in Conn, Moves(d)
      PROVE  Goal
  <2>1. PICK k \in 0 .. Len(inbox[d]) :
           /\ buf' = [buf EXCEPT ![d] = @ \o SubSeq(inbox[d], 1, k)]
           /\ inbox' = [inbox EXCEPT ![d] = SubSeq(@, k + 1, Len(@))]
    BY <1>2 DEF Moves
  <2>2. buf'[c] \o inbox'[c] = line
    <3>1. CASE d = c
      <4>1. /\ buf'[c] = buf[c] \o SubSeq(inbox[c], 1, k)
            /\ inbox'[c] = SubSeq(inbox[c], k + 1, Len(inbox[c]))
        BY <1>t, <2>1, <3>1
      <4>2. (buf[c] \o SubSeq(inbox[c], 1, k)) \o SubSeq(inbox[c], k + 1, Len(inbox[c]))
               = buf[c] \o inbox[c]
        BY <1>t, <2>1, <3>1, LineMoved, Zenon
      <4> QED
        BY <4>1, <4>2, Zenon DEF line
    <3>2. CASE d # c
      <4>1. buf'[c] = buf[c] /\ inbox'[c] = inbox[c]
        BY <1>t, <2>1, <3>2
      <4> QED
        BY <4>1 DEF line
    <3> QED
      BY <3>1, <3>2
  <2> QED
    BY <1>2, <1>k, <2>2 DEF Moves, Untouched
<1>3. ASSUME NEW d \in Conn, Drops(d)
      PROVE  Goal
  <2>1. CASE d = c
    <3>1. /\ buf[c] # <<>> /\ buf'[c] = Tail(buf[c]) /\ inbox'[c] = inbox[c]
          /\ UNCHANGED <<peer, sent, serial_out>>
      BY <1>t, <1>3, <2>1 DEF Drops, Untouched
    <3>2. ~Numbered(Head(buf[c]), c)
      BY <1>t, <1>3, <2>1, <3>1, SilentHead DEF Drops, ItemOf, Numbered
    <3>3. PICK w \in 0 .. sent[c] : Run(serial_out, c, 0, w) /\ Run(line, c, w, sent[c])
      BY <3>1 DEF OutStream, line
    <3>4. w \in Nat /\ w <= sent[c]
      BY <1>t
    <3>5. PICK v \in w .. sent[c] :
             /\ Run(Tail(buf[c]) \o inbox[c], c, v, sent[c])
             /\ ~Numbered(Head(buf[c]), c) => v = w
             /\ \A p \in Seq(Item) : \A lo \in 0 .. w :
                   Run(p, c, lo, w) => Run(Append(p, Head(buf[c])), c, lo, v)
      <4>1. Run(buf[c] \o inbox[c], c, w, sent[c])
        BY <3>3 DEF line
      <4>2. /\ buf[c] \in Seq(Item) /\ inbox[c] \in Seq(Item)
            /\ sent[c] \in Nat /\ w \in Nat /\ w <= sent[c] /\ buf[c] # <<>>
        BY <1>t, <3>1, <3>4
      <4> QED
        BY <4>1, <4>2, Passes, Zenon
    <3>6. Run(buf'[c] \o inbox'[c], c, w, sent'[c])
      BY <3>1, <3>2, <3>5, Zenon
    <3> QED
      BY <3>1, <3>3, <3>6 DEF OutStream
  <2>2. CASE d # c
    <3>1. buf'[c] \o inbox'[c] = line
      BY <1>t, <1>3, <2>2 DEF Drops, line
    <3> QED
      BY <1>3, <1>k, <3>1 DEF Drops, Untouched
  <2> QED
    BY <2>1, <2>2
<1>4. ASSUME NEW K \in SUBSET Client, Loses(K)
      PROVE  Goal
  <2>1. c \notin K /\ peer'[c] = peer[c]
    BY <1>4 DEF Loses
  <2>2. buf'[c] \o inbox'[c] = line
    BY <1>t, <1>4, <2>1 DEF Loses, line
  <2> QED
    BY <1>4, <1>k, <2>1, <2>2 DEF Loses
<1>5. ASSUME NEW d \in Conn, NEW m \in Item, NEW stay \in SUBSET c_network,
             Relays(d, m, stay)
      PROVE  Goal
  <2>1. c \notin c_network \ stay /\ peer'[c] = peer[c] /\ sent' = sent
    BY <1>5 DEF Relays
  <2>2. /\ buf'[c] = IF c = d THEN Tail(buf[d]) ELSE buf[c]
        /\ inbox'[c] = inbox[c]
    BY <1>t, <1>5, <2>1 DEF Relays
  <2>3. buf[d] # <<>> /\ m = Head(buf[d]) /\ m.src = d
    BY <1>5, SilentHead DEF Relays, ItemOf
  <2>4. PICK w \in 0 .. sent[c] : Run(serial_out, c, 0, w) /\ Run(line, c, w, sent[c])
    BY <2>1 DEF OutStream, line
  <2>5. w \in Nat /\ w <= sent[c] /\ 0 \in Nat /\ 0 <= w
    BY <1>t
  <2>6. CASE d = Serial
    <3>1. serial_out' = serial_out /\ buf'[c] \o inbox'[c] = line
      BY <1>t, <1>5, <2>2, <2>6 DEF Relays, line
    <3> QED
      BY <1>k, <2>1, <3>1
  <2>7. CASE d # Serial /\ d # c
    <3>1. /\ serial_out' = serial_out \o <<m, StatusRequest>>
          /\ buf'[c] \o inbox'[c] = line
      BY <1>5, <2>2, <2>7 DEF Relays, line
    <3>2. ~Numbered(m, c)
      BY <2>3, <2>7 DEF Numbered
    <3>3. Run(Append(serial_out, m), c, 0, w)
      BY <1>t, <2>4, <2>5, <3>2, OthersWrite, Zenon
    <3>4. Run(serial_out', c, 0, w)
      BY <1>t, <2>5, <3>1, <3>3, MessageWritten, Zenon
    <3> QED
      BY <2>1, <2>4, <3>1, <3>4 DEF OutStream
  <2>8. CASE d = c
    <3>1. /\ serial_out' = serial_out \o <<m, StatusRequest>>
          /\ buf'[c] = Tail(buf[c])
      BY <1>t, <1>5, <2>2, <2>8 DEF Relays
    <3>2. PICK v \in w .. sent[c] :
             /\ Run(Tail(buf[c]) \o inbox[c], c, v, sent[c])
             /\ \A p \in Seq(Item) : \A lo \in 0 .. w :
                   Run(p, c, lo, w) => Run(Append(p, Head(buf[c])), c, lo, v)
      BY <1>t, <2>3, <2>4, <2>5, <2>8, Passes, Zenon DEF line
    <3>3. v \in Nat /\ v \in 0 .. sent[c] /\ 0 \in 0 .. w
      BY <1>t, <2>5
    <3>4. Run(Append(serial_out, m), c, 0, v)
      BY <1>t, <2>3, <2>4, <2>8, <3>2, <3>3, Zenon
    <3>5. Run(serial_out', c, 0, v)
      BY <1>t, <3>1, <3>3, <3>4, MessageWritten, Zenon
    <3> QED
      BY <2>1, <2>2, <3>1, <3>2, <3>3, <3>5 DEF OutStream
  <2> QED
    BY <2>6, <2>7, <2>8
<1>6. ASSUME NEW d \in Client, Accepts(d)
      PROVE  Goal
  <2>1. peer' = peer /\ UNCHANGED <<sent, inbox, serial_out>>
    BY <1>6 DEF Accepts, Joins
  <2>2. buf'[c] \o inbox'[c] = line
    BY <1>t, <1>6, <2>1 DEF Accepts, line
  <2> QED
    BY <1>k, <2>1, <2>2
<1>7. CASE Ends
  <2>1. /\ peer[c] = "new" /\ peer'[c] = "new" /\ sent'[c] = 0 /\ sent[c] = 0
        /\ buf'[c] = <<>> /\ inbox'[c] = <<>>
    BY <1>t, <1>7 DEF Ends, Terminate, OutStream
  <2>2. Run(serial_out, c, 0, 0)
    BY <2>1 DEF OutStream
  <2>3. Run(serial_out', c, 0, 0)
    <3>1. ASSUME NEW d \in Client, peer[d] # "new", buf[d] # <<>>,
                 serial_out' = Append(serial_out, Head(buf[d]))
          PROVE  Run(serial_out', c, 0, 0)
      <4>1. d # c /\ d \in Conn
        BY <2>1, <3>1 DEF Conn
      <4>2. Head(buf[d]) \in Item /\ ~Numbered(Head(buf[d]), c) /\ 0 \in Nat /\ 0 <= 0
        BY <3>1, <4>1, SilentHead DEF ItemOf, Numbered
      <4> QED
        BY <1>t, <2>2, <3>1, <4>2, OthersWrite, Zenon
    <3> QED
      BY <1>7, <2>2, <3>1 DEF Ends
  <2>4. Run(buf'[c] \o inbox'[c], c, 0, 0)
    <3>1. <<>> \o <<>> = <<>> /\ 0 \in Nat
      OBVIOUS
    <3> QED
      BY <2>1, <3>1, RunEmpty, Zenon
  <2> QED
    BY <2>1, <2>3, <2>4
<1>8. CASE Start
  <2>1. /\ buf' = buf /\ inbox'[c] = inbox[c] /\ peer' = peer /\ sent' = sent
        /\ serial_out' = Append(serial_out, StatusRequest)
    BY <1>t, <1>8 DEF Start, world
  <2>2. PICK w \in 0 .. sent[c] : Run(serial_out, c, 0, w) /\ Run(line, c, w, sent[c])
    BY <2>1 DEF OutStream, line
  <2>3. w \in Nat
    BY <1>t
  <2>4. Run(serial_out', c, 0, w)
    BY <1>t, <2>1, <2>2, <2>3, RequestWritten, Zenon
  <2> QED
    BY <2>1, <2>2, <2>4 DEF OutStream, line
<1>9. ASSUME NEW x \in Conn, NEW i \in Item, Sending(x, i)
      PROVE  Goal
  <2>0. UNCHANGED <<peer, serial_out, buf>>
    BY <1>9 DEF Sending
  <2>1. CASE x # c
    <3>1. inbox'[c] = inbox[c] /\ sent'[c] = sent[c]
      BY <1>t, <1>9, <2>1 DEF Sending
    <3> QED
      BY <1>k, <2>0, <3>1 DEF line
  <2>2. CASE x = c
    <3>1. inbox'[c] = Append(inbox[c], i) /\ peer[c] = "open"
      BY <1>t, <1>9, <2>2 DEF Sending
    <3>2. buf'[c] \o inbox'[c] = Append(line, i)
      BY <1>t, <2>0, <3>1, LineAppend DEF line
    <3>3. PICK w \in 0 .. sent[c] : Run(serial_out, c, 0, w) /\ Run(line, c, w, sent[c])
      BY <3>1 DEF OutStream, line
    <3>4. w \in Nat /\ w <= sent[c] /\ w \in 0 .. sent[c] + 1
      BY <1>t
    <3>5. /\ ~Numbered(i, c) => Run(Append(line, i), c, w, sent[c])
          /\ Numbered(i, c) /\ i.n = sent[c] + 1
                => Run(Append(line, i), c, w, sent[c] + 1)
      BY <1>t, <3>3, <3>4, RunAppend, Zenon
    <3>6. CASE i.n = 0 /\ UNCHANGED sent
      <4>1. ~Numbered(i, c)
        BY <3>6 DEF Numbered
      <4>2. Run(buf'[c] \o inbox'[c], c, w, sent'[c])
        BY <3>2, <3>5, <3>6, <4>1, Zenon
      <4> QED
        BY <2>0, <3>1, <3>3, <3>6, <4>2
    <3>7. CASE i.n = sent[x] + 1 /\ sent' = [sent EXCEPT ![x] = @ + 1]
      <4>1. sent'[c] = sent[c] + 1
        BY <1>t, <2>2, <3>7
      <4>2. Numbered(i, c)
        BY <1>t, <1>9, <2>2, <3>7 DEF Numbered, Sending, ItemOf
      <4>3. Run(buf'[c] \o inbox'[c], c, w, sent'[c])
        BY <2>2, <3>2, <3>5, <3>7, <4>1, <4>2, Zenon
      <4> QED
        BY <2>0, <3>1, <3>3, <3>4, <4>1, <4>3
    <3> QED
      BY <1>9, <3>6, <3>7 DEF Sending
  <2> QED
    BY <2>1, <2>2
<1> QED
  BY <1>1, <1>2, <1>3, <1>4, <1>5, <1>6, <1>7, <1>8, <1>9 DEF LineStep

LEMMA InStreamStep ==
    ASSUME IInv, Sources, FreshOutbox, InStream, LineStep
    PROVE  InStream'
<1> TypeOK
  BY DEF IInv
<1> DEFINE line == buf[Serial] \o inbox[Serial]
           line2 == buf'[Serial] \o inbox'[Serial]
           hi == sent[Serial]
           Goal == \E j \in 0 .. sent'[Serial] :
                      /\ Run(line2, Serial, j, sent'[Serial])
                      /\ \A c \in c_network' : \E k \in 0 .. j : Run(outbox'[c], Serial, k, j)
<1> SUFFICES Goal
  BY DEF InStream
<1>t. /\ Serial \in Conn /\ Serial \notin Client /\ Client \subseteq Conn
      /\ buf[Serial] \in Seq(Item) /\ inbox[Serial] \in Seq(Item) /\ line \in Seq(Item)
      /\ hi \in Nat /\ c_network \subseteq Client
      /\ \A c \in Client : outbox[c] \in Seq(Item)
      /\ DOMAIN buf = Conn /\ DOMAIN inbox = Conn /\ DOMAIN sent = Conn
  BY ConnAssumption DEF TypeOK, Conn
<1> HIDE DEF line, line2, hi, Goal
<1>p. PICK j \in 0 .. hi :
         /\ Run(line, Serial, j, hi)
         /\ \A c \in c_network : \E k \in 0 .. j : Run(outbox[c], Serial, k, j)
  BY DEF InStream, line, hi
<1>q. j \in Nat /\ j <= hi
  BY <1>t
\* The line is as it was, and nobody was given anything.
<1>k. ASSUME c_network' \subseteq c_network, outbox' = outbox, sent'[Serial] = hi,
             line2 = line
      PROVE  Goal
  BY <1>k, <1>p DEF Goal
<1>1. CASE Rests
  BY <1>1, <1>k DEF Rests, Untouched, line, line2, hi
<1>2. ASSUME NEW d \in Conn, Moves(d)
      PROVE  Goal
  <2>1. PICK k \in 0 .. Len(inbox[d]) :
           /\ buf' = [buf EXCEPT ![d] = @ \o SubSeq(inbox[d], 1, k)]
           /\ inbox' = [inbox EXCEPT ![d] = SubSeq(@, k + 1, Len(@))]
    BY <1>2 DEF Moves
  <2>2. line2 = line
    <3>1. CASE d = Serial
      <4>1. /\ buf'[Serial] = buf[Serial] \o SubSeq(inbox[Serial], 1, k)
            /\ inbox'[Serial] = SubSeq(inbox[Serial], k + 1, Len(inbox[Serial]))
        BY <1>t, <2>1, <3>1
      <4>2. (buf[Serial] \o SubSeq(inbox[Serial], 1, k))
               \o SubSeq(inbox[Serial], k + 1, Len(inbox[Serial]))
               = buf[Serial] \o inbox[Serial]
        BY <1>t, <2>1, <3>1, LineMoved, Zenon
      <4> QED
        BY <4>1, <4>2, Zenon DEF line, line2
    <3>2. CASE d # Serial
      <4>1. buf'[Serial] = buf[Serial] /\ inbox'[Serial] = inbox[Serial]
        BY <1>t, <2>1, <3>2
      <4> QED
        BY <4>1 DEF line, line2
    <3> QED
      BY <3>1, <3>2
  <2> QED
    BY <1>2, <1>k, <2>2 DEF Moves, Untouched, hi
<1>3. ASSUME NEW d \in Conn, Drops(d)
      PROVE  Goal
  <2>0. UNCHANGED <<c_network, outbox, sent, inbox>>
    BY <1>3 DEF Drops, Untouched
  <2>1. CASE d = Serial
    <3>1. buf[Serial] # <<>> /\ buf'[Serial] = Tail(buf[Serial])
      BY <1>t, <1>3, <2>1 DEF Drops
    <3>2. ~Numbered(Head(buf[Serial]), Serial)
      BY <1>t, <1>3, <2>1, <3>1, SilentHead DEF Drops, ItemOf, Numbered
    <3>3. PICK v \in j .. hi :
             /\ Run(Tail(buf[Serial]) \o inbox[Serial], Serial, v, hi)
             /\ ~Numbered(Head(buf[Serial]), Serial) => v = j
             /\ \A p \in Seq(Item) : \A lo \in 0 .. j :
                   Run(p, Serial, lo, j) => Run(Append(p, Head(buf[Serial])), Serial, lo, v)
      <4>1. Run(buf[Serial] \o inbox[Serial], Serial, j, hi)
        BY <1>p DEF line
      <4>2. /\ buf[Serial] \in Seq(Item) /\ inbox[Serial] \in Seq(Item)
            /\ hi \in Nat /\ j \in Nat /\ j <= hi /\ buf[Serial] # <<>>
        BY <1>t, <1>q, <3>1
      <4> QED
        BY <4>1, <4>2, Passes, Zenon
    <3>4. Run(line2, Serial, j, hi)
      BY <2>0, <3>1, <3>2, <3>3, Zenon DEF line2
    <3> QED
      BY <1>p, <2>0, <3>4 DEF Goal, hi
  <2>2. CASE d # Serial
    <3>1. line2 = line
      BY <1>t, <1>3, <2>2 DEF Drops, line, line2
    <3> QED
      BY <1>k, <2>0, <3>1 DEF hi
  <2> QED
    BY <2>1, <2>2
<1>4. ASSUME NEW K \in SUBSET Client, Loses(K)
      PROVE  Goal
  <2>1. line2 = line
    BY <1>t, <1>4 DEF Loses, line, line2
  <2> QED
    BY <1>4, <1>k, <2>1 DEF Loses, hi
<1>5. ASSUME NEW d \in Conn, NEW m \in Item, NEW stay \in SUBSET c_network,
             Relays(d, m, stay)
      PROVE  Goal
  <2>1. /\ c_network' = stay /\ sent' = sent
        /\ \A c \in stay : outbox'[c] = IF c # d THEN Append(outbox[c], m) ELSE outbox[c]
    BY <1>t, <1>5 DEF Relays, Posts
  <2>2. buf[d] # <<>> /\ m = Head(buf[d]) /\ m.src = d
    BY <1>5, SilentHead DEF Relays, ItemOf
  <2>3. /\ buf'[Serial] = IF d = Serial THEN Tail(buf[Serial]) ELSE buf[Serial]
        /\ inbox'[Serial] = inbox[Serial]
    BY <1>t, <1>5 DEF Relays
  <2>4. CASE d = Serial
    <3>1. PICK v \in j .. hi :
             /\ Run(Tail(buf[Serial]) \o inbox[Serial], Serial, v, hi)
             /\ \A p \in Seq(Item) : \A lo \in 0 .. j :
                   Run(p, Serial, lo, j) => Run(Append(p, Head(buf[Serial])), Serial, lo, v)
      BY <1>t, <1>p, <1>q, <2>2, <2>4, Passes, Zenon DEF line
    <3>2. v \in 0 .. hi /\ 0 .. j \subseteq 0 .. v
      BY <1>t, <1>q
    <3>3. ASSUME NEW c \in stay
          PROVE  \E k \in 0 .. v : Run(outbox'[c], Serial, k, v)
      <4>1. PICK k \in 0 .. j : Run(outbox[c], Serial, k, j)
        BY <1>p
      <4>2. outbox'[c] = Append(outbox[c], m) /\ outbox[c] \in Seq(Item)
        BY <1>t, <2>1, <2>4
      <4>3. Run(outbox'[c], Serial, k, v)
        BY <2>2, <2>4, <3>1, <4>1, <4>2, Zenon
      <4> QED
        BY <3>2, <4>3
    <3>4. Run(line2, Serial, v, hi)
      BY <2>3, <2>4, <3>1 DEF line2
    <3> QED
      BY <2>1, <3>2, <3>3, <3>4 DEF Goal, hi
  <2>5. CASE d # Serial
    <3>1. line2 = line
      BY <2>3, <2>5 DEF line, line2
    <3>2. ASSUME NEW c \in stay
          PROVE  \E k \in 0 .. j : Run(outbox'[c], Serial, k, j)
      <4>1. PICK k \in 0 .. j : Run(outbox[c], Serial, k, j)
        BY <1>p
      <4>2. /\ ~Numbered(m, Serial) /\ k \in Nat /\ k <= j
            /\ outbox[c] \in Seq(Item)
        BY <1>t, <2>2, <2>5 DEF Numbered
      <4>3. Run(Append(outbox[c], m), Serial, k, j)
        BY <1>q, <4>1, <4>2, OthersWrite, Zenon
      <4> QED
        BY <2>1, <4>1, <4>3
    <3> QED
      BY <1>p, <2>1, <3>1, <3>2 DEF Goal, hi
  <2> QED
    BY <2>4, <2>5
<1>6. ASSUME NEW d \in Client, Accepts(d)
      PROVE  Goal
  <2>1. /\ c_network' = c_network \cup {d} /\ outbox' = outbox
        /\ outbox[d] = <<>> /\ sent' = sent
    BY <1>6 DEF Accepts, Joins, FreshOutbox
  <2>2. line2 = line
    BY <1>t, <1>6 DEF Accepts, line, line2
  <2>3. Run(outbox'[d], Serial, j, j)
    BY <1>q, <2>1, RunEmpty, Zenon
  <2>4. j \in 0 .. j
    BY <1>q
  <2> QED
    BY <1>p, <2>1, <2>2, <2>3, <2>4 DEF Goal, hi
<1>7. CASE Ends
  <2>1. /\ c_network' = {} /\ sent' = sent
        /\ buf'[Serial] = <<>> /\ inbox'[Serial] = inbox[Serial]
    BY <1>t, <1>7 DEF Ends, Terminate
  <2>2. <<>> \o inbox[Serial] = inbox[Serial]
    BY <1>t
  <2>3. PICK v \in j .. hi : Run(inbox[Serial], Serial, v, hi)
    BY <1>t, <1>p, <1>q, RunSuffix, Zenon DEF line
  <2>4. v \in 0 .. hi
    BY <1>t, <1>q
  <2>5. Run(line2, Serial, v, hi)
    BY <2>1, <2>2, <2>3, Zenon DEF line2
  <2>6. \A c \in c_network' : \E k \in 0 .. v : Run(outbox'[c], Serial, k, v)
    BY <2>1
  <2> QED
    BY <2>1, <2>4, <2>5, <2>6, Zenon DEF Goal, hi
<1>8. CASE Start
  <2>1. UNCHANGED <<buf, c_network, outbox, sent>>
    BY <1>8 DEF Start, output, world
  <2>2. CASE inbox'[Serial] = inbox[Serial]
    <3>1. line2 = line
      BY <2>1, <2>2 DEF line, line2
    <3> QED
      BY <1>k, <2>1, <3>1 DEF hi
  <2>3. CASE inbox'[Serial] = <<>>
    <3>1. c_network' = {} /\ buf'[Serial] = <<>>
      BY <1>t, <1>8, <2>1 DEF Start, IInv, InStep, Stopped
    <3>2. <<>> \o <<>> = <<>> /\ hi \in 0 .. hi /\ \A c : c \notin {}
      BY <1>t
    <3>3. Run(line2, Serial, hi, hi)
      BY <1>t, <2>3, <3>1, <3>2, RunEmpty, Zenon DEF line2
    <3> QED
      BY <2>1, <3>1, <3>2, <3>3, Zenon DEF Goal, hi
  <2> QED
    BY <1>t, <1>8, <2>2, <2>3 DEF Start
<1>9. ASSUME NEW x \in Conn, NEW i \in Item, Sending(x, i)
      PROVE  Goal
  <2>0. UNCHANGED <<c_network, outbox, buf>>
    BY <1>9 DEF Sending
  <2>1. CASE x # Serial
    <3>1. inbox'[Serial] = inbox[Serial] /\ sent'[Serial] = hi
      BY <1>t, <1>9, <2>1 DEF Sending, hi
    <3>2. line2 = line
      BY <2>0, <3>1 DEF line, line2
    <3> QED
      BY <1>k, <2>0, <3>1, <3>2
  <2>2. CASE x = Serial
    <3>1. inbox'[Serial] = Append(inbox[Serial], i)
      BY <1>t, <1>9, <2>2 DEF Sending
    <3>2. line2 = Append(line, i)
      BY <1>t, <2>0, <3>1, LineAppend DEF line, line2
    <3>3. /\ ~Numbered(i, Serial) => Run(Append(line, i), Serial, j, hi)
          /\ Numbered(i, Serial) /\ i.n = hi + 1
                => Run(Append(line, i), Serial, j, hi + 1)
      BY <1>t, <1>p, <1>q, RunAppend, Zenon
    <3>4. CASE i.n = 0 /\ UNCHANGED sent
      <4>1. ~Numbered(i, Serial) /\ sent'[Serial] = hi
        BY <3>4 DEF Numbered, hi
      <4>2. Run(line2, Serial, j, hi)
        BY <3>2, <3>3, <4>1, Zenon
      <4> QED
        BY <1>p, <2>0, <4>1, <4>2 DEF Goal
    <3>5. CASE i.n = sent[x] + 1 /\ sent' = [sent EXCEPT ![x] = @ + 1]
      <4>1. sent'[Serial] = hi + 1 /\ i.n = hi + 1
        BY <1>t, <2>2, <3>5 DEF hi
      <4>2. Numbered(i, Serial)
        BY <1>t, <1>9, <2>2, <4>1 DEF Numbered, Sending, ItemOf
      <4>3. Run(line2, Serial, j, hi + 1)
        BY <3>2, <3>3, <4>1, <4>2, Zenon
      <4>4. j \in 0 .. hi + 1
        BY <1>t
      <4> QED
        BY <1>p, <2>0, <4>1, <4>3, <4>4 DEF Goal
    <3> QED
      BY <1>9, <3>4, <3>5 DEF Sending
  <2> QED
    BY <2>1, <2>2
<1> QED
  BY <1>1, <1>2, <1>3, <1>4, <1>5, <1>6, <1>7, <1>8, <1>9 DEF LineStep

\* All that holds of the messages, with the invariant of the event loop.
MessageInv == IInv /\ Sources /\ Streams

LEMMA MessageInit == Init => MessageInv
BY InvInit, SourcesInit, StreamsInit DEF MessageInv

LEMMA MessageStep == MessageInv /\ [Next]_vars => MessageInv'
<1> SUFFICES ASSUME MessageInv, [Next]_vars PROVE MessageInv'
  OBVIOUS
<1>1. IInv /\ Sources /\ FreshOutbox /\ InStream /\ TypeOK
  BY DEF MessageInv, Streams, IInv
<1>2. IInv'
  BY <1>1, InvStep
<1>3. LineStep
  BY <1>1, StepIsLineStep
<1>4. Sources'
  BY <1>1, <1>3, SourcesStep
<1>5. FreshOutbox'
  BY <1>1, FreshOutboxStep
<1>6. InStream'
  BY <1>1, <1>3, InStreamStep
<1>7. ASSUME NEW c \in Client PROVE OutStream(c)'
  BY <1>1, <1>3, OutStreamStep DEF MessageInv, Streams
<1> QED
  BY <1>2, <1>4, <1>5, <1>6, <1>7 DEF MessageInv, Streams

\* The streams are kept in every reachable state of the daemon.
THEOREM MessagesKept == Spec => []MessageInv
<1> QED
  BY MessageInit, MessageStep, PTL DEF Spec

LEMMA LinesJoined ==
    ASSUME NEW p \in Seq(Item), NEW q \in Seq(Item), NEW r \in Seq(Item)
    PROVE  (p \o q) \o r = p \o (q \o r)
BY ConcatAssociative

\* Nothing a connected client sends is lost, doubled or moved on its way to
\* the serial line.
THEOREM NothingLost == Spec => []Conserved
<1>1. ASSUME MessageInv PROVE Conserved
  <2> SUFFICES ASSUME NEW c \in c_network
               PROVE  Run(serial_out \o buf[c] \o inbox[c], c, 0, sent[c])
    BY DEF Conserved
  <2>1. /\ c \in Client /\ peer[c] # "gone" /\ serial_out \in Seq(Item)
        /\ buf[c] \in Seq(Item) /\ inbox[c] \in Seq(Item) /\ sent[c] \in Nat
    BY <1>1 DEF MessageInv, IInv, TypeOK, Conn
  <2>2. PICK w \in 0 .. sent[c] : /\ Run(serial_out, c, 0, w)
                                  /\ Run(buf[c] \o inbox[c], c, w, sent[c])
    BY <1>1, <2>1 DEF MessageInv, Streams, OutStream
  <2>3. 0 \in Nat /\ w \in Nat /\ 0 <= w /\ w <= sent[c]
    BY <2>1
  <2>4. /\ buf[c] \o inbox[c] \in Seq(Item)
        /\ serial_out \o buf[c] \o inbox[c] = serial_out \o (buf[c] \o inbox[c])
    <3>1. buf[c] \o inbox[c] \in Seq(Item)
      BY <2>1
    <3>2. (serial_out \o buf[c]) \o inbox[c] = serial_out \o (buf[c] \o inbox[c])
      BY <2>1, LinesJoined, Zenon
    <3> QED
      BY <3>1, <3>2, Zenon
  <2>5. Run(serial_out \o (buf[c] \o inbox[c]), c, 0, sent[c])
    BY <2>1, <2>2, <2>3, <2>4, RunConcat, Zenon
  <2> QED
    BY <2>4, <2>5, Zenon
<1> QED
  BY <1>1, MessagesKept, PTL

\* Each client sees all the bus says from its connection on.
THEOREM NothingMissed == Spec => []BroadcastComplete
<1>1. ASSUME MessageInv PROVE BroadcastComplete
  <2> SUFFICES ASSUME NEW c \in c_network
               PROVE  \E k \in 0 .. sent[Serial] :
                         Run(outbox[c] \o buf[Serial] \o inbox[Serial],
                             Serial, k, sent[Serial])
    BY DEF BroadcastComplete
  <2> DEFINE hi == sent[Serial]
             line == buf[Serial] \o inbox[Serial]
  <2>1. /\ outbox[c] \in Seq(Item) /\ hi \in Nat
        /\ buf[Serial] \in Seq(Item) /\ inbox[Serial] \in Seq(Item)
    BY <1>1 DEF MessageInv, IInv, TypeOK, Conn
  <2>2. PICK j \in 0 .. hi :
           /\ Run(line, Serial, j, hi)
           /\ \A d \in c_network : \E k \in 0 .. j : Run(outbox[d], Serial, k, j)
    BY <1>1 DEF MessageInv, Streams, InStream
  <2>3. PICK k \in 0 .. j : Run(outbox[c], Serial, k, j)
    BY <2>2
  <2>4. /\ k \in Nat /\ j \in Nat /\ k <= j /\ j <= hi /\ k \in 0 .. hi
    BY <2>1
  <2>5. /\ line \in Seq(Item)
        /\ outbox[c] \o buf[Serial] \o inbox[Serial] = outbox[c] \o line
    <3>1. line \in Seq(Item)
      BY <2>1
    <3>2. (outbox[c] \o buf[Serial]) \o inbox[Serial]
             = outbox[c] \o (buf[Serial] \o inbox[Serial])
      BY <2>1, LinesJoined, Zenon
    <3> QED
      BY <3>1, <3>2, Zenon
  <2> HIDE DEF hi, line
  <2>6. Run(outbox[c] \o line, Serial, k, hi)
    BY <2>1, <2>2, <2>3, <2>4, <2>5, RunConcat, Zenon
  <2> QED
    BY <2>4, <2>5, <2>6, Zenon DEF hi
<1> QED
  BY <1>1, MessagesKept, PTL
-----------------------------------------------------------------------------
(* Agreement on the order of the log.                                      *)

\* The view of c is the log from a to b without its own entries.
Follows(c, a) ==
    /\ Len(outbox[c]) = Cardinality(Broadcast!Others(c, a, Len(log)))
    /\ \A i \in Broadcast!Others(c, a, Len(log)) :
          outbox[c][Cardinality(Broadcast!Others(c, a, i))] = log[i].msg

AllFollow == \A c \in c_network : \E a \in 1 .. Len(log) + 1 : Follows(c, a)

\* The instance has its own name for the cardinality of a set.
LEMMA SameCardinality == \A S : Broadcast!Cardinality(S) = Cardinality(S)
BY DEF Broadcast!Cardinality, Cardinality

LEMMA AgreementExplained == AllFollow => RelayAgreement
BY SameCardinality, Zenon DEF RelayAgreement, Broadcast!Agreement, AllFollow, Follows

LEMMA OthersCounted ==
    ASSUME TypeOK, NEW c, NEW a \in Nat, NEW b \in Nat
    PROVE  /\ IsFiniteSet(Broadcast!Others(c, a, b))
           /\ Cardinality(Broadcast!Others(c, a, b)) \in Nat
<1>1. IsFiniteSet(a .. b) /\ Broadcast!Others(c, a, b) \subseteq a .. b
  BY FS_Interval DEF Broadcast!Others
<1> QED
  BY <1>1, FS_Subset, FS_CardinalityType

\* The place of an entry in the view is one of those it has.
LEMMA PlaceInView ==
    ASSUME TypeOK, NEW c, NEW a \in Nat, NEW b \in Nat,
           NEW i \in Broadcast!Others(c, a, b)
    PROVE  Cardinality(Broadcast!Others(c, a, i))
               \in 1 .. Cardinality(Broadcast!Others(c, a, b))
<1> DEFINE U == Broadcast!Others(c, a, i)
           V == Broadcast!Others(c, a, b)
<1>1. i \in Nat /\ i <= b /\ i \in U /\ U \subseteq V
  BY DEF Broadcast!Others
<1>2. IsFiniteSet(U) /\ IsFiniteSet(V)
  BY <1>1, OthersCounted
<1> HIDE DEF U, V
<1>3. Cardinality(U) \in Nat /\ Cardinality(V) \in Nat /\ Cardinality(U) <= Cardinality(V)
  BY <1>1, <1>2, FS_Subset, FS_CardinalityType
<1>4. Cardinality(U) # 0
  BY <1>1, <1>2, FS_EmptySet
<1> QED
  BY <1>3, <1>4 DEF U, V

\* A message is posted: everyone who stays but its author follows on.
LEMMA FollowsOn ==
    ASSUME TypeOK, NEW c \in Conn, NEW m \in Item, NEW stay \in SUBSET c_network,
           Posts(c, m, stay), NEW d \in stay,
           NEW a \in 1 .. Len(log) + 1, Follows(d, a)
    PROVE  a \in 1 .. Len(log') + 1 /\ Follows(d, a)'
<1>0. PICK n \in Nat : n = Len(log)
  BY DEF TypeOK
<1> DEFINE Old == Broadcast!Others(d, a, n)
<1>1. /\ n = Len(log) /\ a \in Nat /\ n + 1 \in Nat /\ d \in Client /\ outbox[d] \in Seq(Item)
      /\ log \in Seq(LogEntry)
  BY <1>0 DEF TypeOK
<1>2. /\ Len(log') = n + 1 /\ log'[n + 1] = [id |-> c, msg |-> m]
      /\ \A i \in 1 .. n : log'[i] = log[i]
  <2>1. log' = Append(log, [id |-> c, msg |-> m])
    BY DEF Posts
  <2> QED
    BY <1>1, <2>1
<1>3. outbox'[d] = IF d # c THEN Append(outbox[d], m) ELSE outbox[d]
  BY <1>1 DEF Posts
<1>4. /\ IsFiniteSet(Old) /\ Cardinality(Old) \in Nat
      /\ Len(outbox[d]) = Cardinality(Old)
      /\ \A i \in Old : outbox[d][Cardinality(Broadcast!Others(d, a, i))] = log[i].msg
  BY <1>0, <1>1, OthersCounted DEF Follows
<1>5. \A b \in 0 .. n : Broadcast!Others(d, a, b)' = Broadcast!Others(d, a, b)
  BY <1>1, <1>2 DEF Broadcast!Others
<1>6. n + 1 \notin Old /\ \A i \in Old : i \in 0 .. n
  BY <1>1 DEF Broadcast!Others
<1>7. CASE d = c
  <2>1. Broadcast!Others(d, a, n + 1)' = Old
    BY <1>1, <1>2, <1>7 DEF Broadcast!Others
  <2> HIDE DEF Old
  <2>2. \A i \in Old : /\ Broadcast!Others(d, a, i)' = Broadcast!Others(d, a, i)
                       /\ log'[i] = log[i]
    BY <1>1, <1>2, <1>5, <1>6 DEF Old, Broadcast!Others
  <2>3. Follows(d, a)'
    BY <1>2, <1>3, <1>4, <1>7, <2>1, <2>2 DEF Follows
  <2> QED
    BY <1>1, <1>2, <2>3
<1>8. CASE d # c
  <2>1. Broadcast!Others(d, a, n + 1)' = Old \cup {n + 1}
    BY <1>1, <1>2, <1>8 DEF Broadcast!Others
  <2>2. Cardinality(Old \cup {n + 1}) = Cardinality(Old) + 1
    <3> HIDE DEF Old
    <3> QED
      BY <1>4, <1>6, FS_AddElement
  <2>3. /\ Len(outbox'[d]) = Cardinality(Old) + 1
        /\ outbox'[d][Cardinality(Old) + 1] = m
        /\ \A k \in 1 .. Cardinality(Old) : outbox'[d][k] = outbox[d][k]
    <3> HIDE DEF Old
    <3> QED
      BY <1>1, <1>3, <1>4, <1>8
  <2>4. ASSUME NEW i \in Old
        PROVE  outbox'[d][Cardinality(Broadcast!Others(d, a, i)')] = log'[i].msg
    <3>1. Cardinality(Broadcast!Others(d, a, i)) \in 1 .. Cardinality(Old)
      BY <1>1, PlaceInView
    <3>2. Broadcast!Others(d, a, i)' = Broadcast!Others(d, a, i) /\ log'[i] = log[i]
      BY <1>1, <1>2, <1>5, <1>6 DEF Broadcast!Others
    <3> HIDE DEF Old
    <3> QED
      BY <1>4, <2>3, <3>1, <3>2
  <2> HIDE DEF Old
  <2>5. outbox'[d][Cardinality(Broadcast!Others(d, a, n + 1)')] = log'[n + 1].msg
    <3>1. Cardinality(Broadcast!Others(d, a, n + 1)') = Cardinality(Old) + 1
      BY <2>1, <2>2, Zenon
    <3>2. log'[n + 1].msg = m
      BY <1>2
    <3> QED
      BY <2>3, <3>1, <3>2, Zenon
  <2>6. Follows(d, a)'
    BY <1>2, <2>1, <2>2, <2>3, <2>4, <2>5 DEF Follows
  <2> QED
    BY <1>1, <1>2, <2>6
<1> QED
  BY <1>7, <1>8

LEMMA AgreementStep ==
    ASSUME TypeOK, FreshOutbox, AllFollow, [Next]_vars
    PROVE  AllFollow'
<1> SUFFICES ASSUME NEW d \in c_network'
             PROVE  \E a \in 1 .. Len(log') + 1 : Follows(d, a)'
  BY DEF AllFollow, Follows
<1>1. HubStep
  BY StepIsHubStep
<1>2. ASSUME d \in c_network, outbox' = outbox, log' = log
      PROVE  \E a \in 1 .. Len(log') + 1 : Follows(d, a)'
  <2>1. PICK a \in 1 .. Len(log) + 1 : Follows(d, a)
    BY <1>2 DEF AllFollow
  <2>2. Follows(d, a)'
    BY <1>2, <2>1 DEF Follows, Broadcast!Others
  <2> QED
    BY <1>2, <2>2
<1>3. CASE Quiet
  BY <1>2, <1>3 DEF Quiet
<1>4. ASSUME NEW K \in SUBSET c_network, Leaves(K)
      PROVE  \E a \in 1 .. Len(log') + 1 : Follows(d, a)'
  BY <1>2, <1>4 DEF Leaves
<1>5. ASSUME NEW c \in Client, Joins(c)
      PROVE  \E a \in 1 .. Len(log') + 1 : Follows(d, a)'
  <2>1. CASE d \in c_network
    BY <1>2, <1>5, <2>1 DEF Joins
  <2>2. CASE d \notin c_network
    <3>1. outbox'[d] = <<>> /\ log' = log /\ Len(log) \in Nat
      BY <1>5, <2>2 DEF Joins, FreshOutbox, TypeOK
    <3>2. Broadcast!Others(d, Len(log) + 1, Len(log))' = {}
      BY <3>1 DEF Broadcast!Others
    <3>3. Follows(d, Len(log) + 1)'
      BY <3>1, <3>2, FS_EmptySet DEF Follows
    <3> QED
      BY <3>1, <3>3
  <2> QED
    BY <2>1, <2>2
<1>6. ASSUME NEW c \in Conn, NEW m \in Item, NEW stay \in SUBSET c_network,
             Posts(c, m, stay)
      PROVE  \E a \in 1 .. Len(log') + 1 : Follows(d, a)'
  <2>1. d \in stay
    BY <1>6 DEF Posts
  <2>2. PICK a \in 1 .. Len(log) + 1 : Follows(d, a)
    BY <2>1 DEF AllFollow
  <2> QED
    BY <1>6, <2>1, <2>2, FollowsOn
<1> QED
  BY <1>1, <1>3, <1>4, <1>5, <1>6 DEF HubStep

\* Any two clients agree on the content and the order of what both received.
THEOREM RelayAgreed == Spec => []RelayAgreement
<1>1. Init => AllFollow
  BY DEF Init, AllFollow
<1>2. MessageInv => TypeOK /\ FreshOutbox
  BY DEF MessageInv, IInv, Streams
<1> QED
  BY <1>1, <1>2, AgreementStep, AgreementExplained, MessagesKept, PTL DEF Spec
-----------------------------------------------------------------------------
(* The interface writes of itself: nothing of the messages is disturbed.   *)

LEMMA FlowIsItem ==
    ASSUME NEW k \in {"BusActive", "RxReady", "RxBuffFull"}
    PROVE  /\ Flow(k) \in Item /\ Flow(k) \in ItemOf(Serial)
           /\ Flow(k).kind = k /\ ~Numbered(Flow(k), Serial)
<1>1. Flow(k) \in Item
  BY BoundAssumption DEF Flow, Item, FlowKind
<1> QED
  BY <1>1 DEF Flow, ItemOf, Numbered

\* What the interface appends to what the daemon has yet to read.
Appends(q) ==
    /\ q = <<>> \/ q = <<Flow("RxReady")>> \/ q = <<Flow("BusActive"), Flow("RxReady")>>
       \/ q = <<Flow("BusActive"), Flow("RxBuffFull")>>
    /\ InterfaceWrites(q)

LEMMA InterfaceAppends ==
    ASSUME Interface, ~UNCHANGED vars
    PROVE  \E q : Appends(q)
<1>1. CASE InterfaceAnswers
  BY <1>1 DEF InterfaceAnswers, Appends
<1>2. CASE InterfaceTakes
  BY <1>2 DEF InterfaceTakes
<1>3. CASE InterfaceDrains
  BY <1>3 DEF InterfaceDrains, Appends
<1> QED
  BY <1>1, <1>2, <1>3 DEF Interface

LEMMA AppendsIn ==
    ASSUME NEW q, Appends(q), NEW T,
           \A k \in {"BusActive", "RxReady", "RxBuffFull"} : Flow(k) \in T
    PROVE  q \in Seq(T)
<1> DEFINE a == Flow("BusActive")
           r == Flow("RxReady")
           f == Flow("RxBuffFull")
<1>1. a \in T /\ r \in T /\ f \in T
  OBVIOUS
<1>2. q = <<>> \/ q = <<r>> \/ q = <<a, r>> \/ q = <<a, f>>
  BY DEF Appends
<1> HIDE DEF a, r, f
<1>3. /\ <<>> \in Seq(T) /\ <<r>> \in Seq(T)
      /\ <<a, r>> \in Seq(T) /\ <<a, f>> \in Seq(T)
  BY <1>1
<1> QED
  BY <1>2, <1>3, Zenon

LEMMA AppendsTyped ==
    ASSUME TypeOK, Sources, NEW q, Appends(q)
    PROVE  TypeOK' /\ Sources' /\ q \in Seq(Item)
<1>1. q \in Seq(Item) /\ q \in Seq(ItemOf(Serial))
  BY AppendsIn, FlowIsItem
<1>2. Serial \in Conn /\ inbox' = [inbox EXCEPT ![Serial] = @ \o q]
  BY DEF Appends, InterfaceWrites, Conn
<1>3. inbox' \in [Conn -> Seq(Item)]
  BY <1>1, <1>2 DEF TypeOK
<1>4. TypeOK'
  BY <1>3 DEF TypeOK, Appends, InterfaceWrites, serialState, loop, world, output, history
<1>5. ASSUME NEW c \in Conn
      PROVE  buf'[c] \in Seq(ItemOf(c)) /\ inbox'[c] \in Seq(ItemOf(c))
  <2>1. buf' = buf
    BY DEF Appends, InterfaceWrites
  <2>2. inbox'[c] = IF c = Serial THEN inbox[Serial] \o q ELSE inbox[c]
    BY <1>2 DEF TypeOK
  <2> QED
    BY <1>1, <2>1, <2>2 DEF Sources
<1> QED
  BY <1>1, <1>4, <1>5 DEF Sources, ItemOf

\* Items without a number leave a run as it is.
LEMMA AppendsRun ==
    ASSUME NEW q, Appends(q), NEW p \in Seq(Item),
           NEW lo \in Nat, NEW hi \in Nat, lo <= hi, Run(p, Serial, lo, hi)
    PROVE  Run(p \o q, Serial, lo, hi)
<1> DEFINE a == Flow("BusActive")
           r == Flow("RxReady")
           f == Flow("RxBuffFull")
<1>1. /\ a \in Item /\ ~Numbered(a, Serial) /\ r \in Item /\ ~Numbered(r, Serial)
      /\ f \in Item /\ ~Numbered(f, Serial)
  BY FlowIsItem
<1> HIDE DEF a, r, f
<1>2. p \o <<>> = p
  OBVIOUS
<1>3. /\ p \o <<r>> = Append(p, r) /\ Append(p, a) \in Seq(Item)
      /\ p \o <<a, r>> = Append(Append(p, a), r)
      /\ p \o <<a, f>> = Append(Append(p, a), f)
  BY <1>1
<1>4. Run(Append(p, r), Serial, lo, hi) /\ Run(Append(p, a), Serial, lo, hi)
  BY <1>1, OthersWrite, Zenon
<1>5. /\ Run(Append(Append(p, a), r), Serial, lo, hi)
      /\ Run(Append(Append(p, a), f), Serial, lo, hi)
  BY <1>1, <1>3, <1>4, OthersWrite, Zenon
<1>6. q = <<>> \/ q = <<r>> \/ q = <<a, r>> \/ q = <<a, f>>
  BY DEF Appends, a, r, f
<1> QED
  BY <1>2, <1>3, <1>4, <1>5, <1>6, Zenon

LEMMA GatewayMessageStep ==
    ASSUME MessageInv, [GatewayNext]_gatewayVars
    PROVE  MessageInv'
<1>1. CASE [Next]_vars
  BY <1>1, MessageStep
<1>2. ASSUME NEW q, Appends(q)
      PROVE  MessageInv'
  <2>1. /\ IInv /\ TypeOK /\ Sources /\ FreshOutbox /\ InStream
        /\ \A c \in Client : OutStream(c)
    BY DEF MessageInv, Streams, IInv
  <2>2. /\ inbox' = [inbox EXCEPT ![Serial] = @ \o q]
        /\ UNCHANGED <<running, bus_active, rx_ready, c_network, read_ready,
                       processing_todo, freed_todo, buf, peer, sent, outbox,
                       serial_out, log, starts, undefined>>
    BY <1>2 DEF Appends, InterfaceWrites, serialState, loop, world, output, history
  <2>3. TypeOK' /\ Sources' /\ q \in Seq(Item)
    BY <1>2, <2>1, AppendsTyped
  <2>4. InStep'
    BY <2>1, <2>2 DEF IInv, InStep, BusOffMeansNoClients, Served,
                IdleOnlyWhenReady, ReadsOnlyWhenDrained, Stopped, FreshBuffers
  <2>5. FreshOutbox'
    BY <2>1, <2>2 DEF FreshOutbox
  <2>6. ASSUME NEW c \in Client PROVE OutStream(c)'
    <3>1. inbox'[c] = inbox[c]
      BY <2>1, <2>2, ConnAssumption DEF TypeOK, Conn
    <3> QED
      BY <2>1, <2>2, <3>1 DEF OutStream
  <2>7. InStream'
    <3> DEFINE line == buf[Serial] \o inbox[Serial]
               hi == sent[Serial]
    <3>1. /\ buf[Serial] \in Seq(Item) /\ inbox[Serial] \in Seq(Item)
          /\ line \in Seq(Item) /\ hi \in Nat
          /\ inbox'[Serial] = inbox[Serial] \o q
      BY <2>1, <2>2 DEF TypeOK, Conn
    <3>2. buf'[Serial] \o inbox'[Serial] = line \o q
      <4>1. (buf[Serial] \o inbox[Serial]) \o q = buf[Serial] \o (inbox[Serial] \o q)
        BY <2>3, <3>1, LinesJoined, Zenon
      <4> QED
        BY <2>2, <3>1, <4>1, Zenon
    <3>3. PICK j \in 0 .. hi :
             /\ Run(line, Serial, j, hi)
             /\ \A c \in c_network : \E k \in 0 .. j : Run(outbox[c], Serial, k, j)
      BY <2>1 DEF InStream
    <3>4. j \in Nat /\ j <= hi
      BY <3>1
    <3> HIDE DEF line, hi
    <3>5. Run(line \o q, Serial, j, hi)
      BY <1>2, <3>1, <3>3, <3>4, AppendsRun, Zenon
    <3> QED
      BY <2>2, <3>2, <3>3, <3>5 DEF InStream, hi
  <2> QED
    BY <2>3, <2>4, <2>5, <2>6, <2>7 DEF MessageInv, IInv, Streams
<1>3. [Next]_vars \/ Interface
  BY DEF GatewayNext, Next, gatewayVars, vars
<1> QED
  BY <1>1, <1>2, <1>3, InterfaceAppends

\* The daemon beside its interface keeps the messages as it does alone.
THEOREM GatewayKeepsMessages == GatewaySpec => []MessageInv
<1>1. GatewayInit => MessageInv
  BY MessageInit DEF GatewayInit
<1> QED
  BY <1>1, GatewayMessageStep, PTL DEF GatewaySpec
-----------------------------------------------------------------------------
(* The flow control: one question, or one answer, or none.                 *)

Line == buf[Serial] \o inbox[Serial]
IsReady(m) == m.kind = "RxReady"
NoneReady(q) == \A i \in 1 .. Len(q) : ~IsReady(q[i])
OneReady(q) == \A i, j \in 1 .. Len(q) : IsReady(q[i]) /\ IsReady(q[j]) => i = j

\* The status requests that the interface has yet to answer.
Asked == {i \in taken + 1 .. Len(serial_out) : serial_out[i].kind = "IntStatusRequest"}
One(S) == \A i, j \in S : i = j

FlowTypeOK ==
    /\ taken \in 0 .. Len(serial_out) /\ room \in {"room", "full", "told"}
    /\ starts >= 1

\* What is true of the question and the answer in the first life of the daemon.
Dialogue ==
    /\ One(Asked) /\ One(Outstanding) /\ OneReady(Line)
    /\ Asked # {} => NoneReady(Line)
    /\ Outstanding # {} => room = "room" /\ NoneReady(Line)
    /\ \A i \in Outstanding, j \in Asked : i < j
    /\ ~NoneReady(Line) => room = "room"
    /\ room = "told" => Asked = {} /\ NoneReady(Line)
    /\ rx_ready => /\ room = "room" /\ NoneReady(Line)
                   /\ Asked = {} /\ Outstanding = {}

FlowInv == FlowTypeOK /\ (FirstLife => Dialogue)

\* The line got shorter, or longer by something else than a RxReady.
Less(q, p) == (NoneReady(p) => NoneReady(q)) /\ (OneReady(p) => OneReady(q))

LEMMA LessSuffix ==
    ASSUME NEW p \in Seq(Item), NEW q \in Seq(Item)
    PROVE  Less(q, p \o q)
<1>1. /\ Len(p) \in Nat /\ Len(q) \in Nat /\ Len(p \o q) = Len(p) + Len(q)
      /\ \A i \in 1 .. Len(q) : (p \o q)[Len(p) + i] = q[i]
  OBVIOUS
<1>2. \A i \in 1 .. Len(q) : Len(p) + i \in 1 .. Len(p \o q)
  BY <1>1
<1>3. NoneReady(p \o q) => NoneReady(q)
  BY <1>1, <1>2 DEF NoneReady
<1>4. ASSUME OneReady(p \o q), NEW i \in 1 .. Len(q), NEW j \in 1 .. Len(q),
             IsReady(q[i]), IsReady(q[j])
      PROVE  i = j
  <2>1. Len(p) + i = Len(p) + j
    BY <1>1, <1>2, <1>4 DEF OneReady
  <2> QED
    BY <1>1, <2>1
<1> QED
  BY <1>3, <1>4 DEF Less, OneReady

LEMMA LessTail ==
    ASSUME NEW q \in Seq(Item), q # <<>>
    PROVE  /\ Less(Tail(q), q)
           /\ IsReady(Head(q)) /\ OneReady(q) => NoneReady(Tail(q))
           /\ IsReady(Head(q)) => ~NoneReady(q)
<1>1. /\ Len(q) \in Nat /\ 1 \in 1 .. Len(q) /\ Head(q) = q[1]
      /\ Len(Tail(q)) = Len(q) - 1
      /\ \A i \in 1 .. Len(Tail(q)) : /\ Tail(q)[i] = q[i + 1] /\ i + 1 \in 1 .. Len(q)
                                      /\ i + 1 # 1 /\ i \in Int
  OBVIOUS
<1> DEFINE t == Tail(q)
<1> HIDE DEF t
<1>2. \A i \in 1 .. Len(t) : /\ t[i] = q[i + 1] /\ i + 1 \in 1 .. Len(q)
                             /\ i + 1 # 1 /\ i \in Int
  BY <1>1 DEF t
<1>3. NoneReady(q) => NoneReady(t)
  BY <1>2 DEF NoneReady
<1>4. OneReady(q) => OneReady(t)
  <2> SUFFICES ASSUME OneReady(q), NEW i \in 1 .. Len(t), NEW j \in 1 .. Len(t),
                      IsReady(t[i]), IsReady(t[j])
               PROVE  i = j
    BY DEF OneReady
  <2>1. i + 1 = j + 1
    BY <1>2 DEF OneReady
  <2> QED
    BY <1>2, <2>1
<1>5. IsReady(Head(q)) /\ OneReady(q) => NoneReady(t)
  BY <1>1, <1>2 DEF OneReady, NoneReady
<1>6. IsReady(Head(q)) => ~NoneReady(q)
  BY <1>1 DEF NoneReady
<1> QED
  BY <1>3, <1>4, <1>5, <1>6 DEF Less, t

LEMMA LessAppend ==
    ASSUME NEW q \in Seq(Item), NEW m \in Item
    PROVE  /\ ~IsReady(m) => Less(Append(q, m), q)
           /\ NoneReady(q) => OneReady(Append(q, m))
<1>1. /\ Len(q) \in Nat /\ Len(Append(q, m)) = Len(q) + 1
      /\ Append(q, m)[Len(q) + 1] = m
      /\ \A i \in 1 .. Len(q) : Append(q, m)[i] = q[i]
      /\ \A i \in 1 .. Len(q) + 1 : i \in 1 .. Len(q) \/ i = Len(q) + 1
  OBVIOUS
<1> DEFINE a == Append(q, m)
<1> HIDE DEF a
<1>2. /\ Len(a) = Len(q) + 1 /\ a[Len(q) + 1] = m
      /\ \A i \in 1 .. Len(q) : a[i] = q[i]
      /\ \A i \in 1 .. Len(a) : i \in 1 .. Len(q) \/ i = Len(q) + 1
  BY <1>1 DEF a
<1>3. ~IsReady(m) => Less(a, q)
  BY <1>2 DEF Less, NoneReady, OneReady
<1>4. NoneReady(q) => OneReady(a)
  BY <1>2 DEF NoneReady, OneReady
<1> QED
  BY <1>3, <1>4 DEF a
-----------------------------------------------------------------------------
(* How a step of the daemon takes part in the dialogue.                    *)

Calm == /\ serial_out' = serial_out /\ (rx_ready' => rx_ready)
        /\ Less(Line', Line)
Opens == /\ serial_out' = serial_out /\ ~NoneReady(Line)
         /\ OneReady(Line) => NoneReady(Line')
Writes(m, q) ==
    /\ rx_ready /\ ~rx_ready' /\ Less(Line', Line)
    /\ m \in Item /\ m.kind # "IntStatusRequest"
    /\ q = <<m>> \/ q = <<m, StatusRequest>>
    /\ serial_out' = serial_out \o q

FlowStep == Calm \/ Opens \/ \E m, q : Writes(m, q)

LEMMA LineAppended ==
    ASSUME NEW b \in Seq(Item), NEW q \in Seq(Item), NEW m \in Item
    PROVE  b \o Append(q, m) = Append(b \o q, m)
BY LineAppend

LEMMA LessItself == \A q : Less(q, q)
BY DEF Less

LEMMA CalmWhenKept ==
    ASSUME serial_out' = serial_out, rx_ready' => rx_ready,
           buf'[Serial] = buf[Serial], inbox'[Serial] = inbox[Serial]
    PROVE  Calm
BY LessItself DEF Calm, Line

LEMMA LineTyped ==
    ASSUME TypeOK
    PROVE  /\ buf[Serial] \in Seq(Item) /\ inbox[Serial] \in Seq(Item)
           /\ Line \in Seq(Item)
BY DEF TypeOK, Conn, Line

\* An item of the bus is done with.
LEMMA LineConsumed ==
    ASSUME TypeOK, buf[Serial] # <<>>,
           buf'[Serial] = Tail(buf[Serial]), inbox'[Serial] = inbox[Serial]
    PROVE  /\ Line # <<>> /\ Line' = Tail(Line) /\ Head(Line) = Head(buf[Serial])
           /\ Less(Line', Line)
<1>0. buf[Serial] \in Seq(Item) /\ inbox[Serial] \in Seq(Item)
  BY LineTyped
<1>1. /\ Line # <<>> /\ Head(Line) = Head(buf[Serial])
      /\ Tail(Line) = Tail(buf[Serial]) \o inbox[Serial]
  BY <1>0, LineTail DEF Line
<1>2. Line' = Tail(Line)
  BY <1>1 DEF Line
<1>3. Less(Tail(Line), Line)
  <2>1. Line \in Seq(Item)
    BY LineTyped
  <2> HIDE DEF Line
  <2> QED
    BY <1>1, <2>1, LessTail, Zenon
<1> QED
  BY <1>1, <1>2, <1>3, Zenon

LEMMA EndIsCalm ==
    ASSUME TypeOK, FirstLife, Terminate
    PROVE  ~rx_ready' /\ Less(Line', Line)
<1>1. ~rx_ready' /\ buf'[Serial] = <<>> /\ inbox'[Serial] = inbox[Serial]
  BY DEF Terminate, FirstLife, Conn
<1>2. <<>> \o inbox[Serial] = inbox[Serial]
  BY LineTyped
<1>3. Less(inbox[Serial], buf[Serial] \o inbox[Serial])
  BY LineTyped, LessSuffix, Zenon
<1> QED
  BY <1>1, <1>2, <1>3, Zenon DEF Line

\* A client is processed only while the interface is ready.
LEMMA WritesWhenReady ==
    ASSUME IInv, Sources, NEW c \in Conn, c # Serial, NEW m, Parsed(c, m), ~undefined'
    PROVE  rx_ready /\ m \in Item /\ m.kind # "IntStatusRequest"
<1>1. c \in processing_todo /\ c \in Client
  BY DEF Parsed, Processing, Conn
<1>2. rx_ready
  BY <1>1 DEF IInv, InStep, IdleOnlyWhenReady
<1>3. m \in ItemOf(c) /\ m \in Item
  BY SilentHead DEF IInv, Parsed
<1>4. m.kind \in ClientKind
  BY <1>1, <1>3, ConnAssumption DEF ItemOf, Item, StatusRequest
<1> QED
  BY <1>2, <1>3, <1>4, InterfaceAssumption

LEMMA ProcessingIsFlowStep ==
    ASSUME IInv, Sources, FirstLife, FirstLife', NEW c \in Conn, process_read_data(c)
    PROVE  FlowStep
<1> TypeOK /\ Serial \in Conn /\ c_network \in SUBSET Client /\ Serial \notin Client
    /\ ~undefined'
  BY ConnAssumption DEF IInv, TypeOK, Conn, FirstLife
<1>f. DOMAIN buf = Conn /\ DOMAIN inbox = Conn
  BY DEF TypeOK
<1>1. CASE InsufficientData(c)
  BY <1>1, CalmWhenKept DEF InsufficientData, FlowStep, output, serialState
<1>2. CASE FormError(c)
  <2>1. serial_out' = serial_out /\ rx_ready' = rx_ready /\ inbox' = inbox
    BY <1>2 DEF FormError, output, serialState
  <2>2. CASE c = Serial
    <3>1. buf[Serial] # <<>> /\ buf'[Serial] = Tail(buf[Serial])
      BY <1>2, <1>f, <2>2 DEF FormError, Consume
    <3> QED
      BY <2>1, <3>1, LineConsumed DEF FlowStep, Calm
  <2>3. CASE c # Serial
    <3>1. buf'[Serial] = buf[Serial]
      BY <1>2, <1>f, <2>3 DEF FormError, Consume
    <3> QED
      BY <2>1, <3>1, CalmWhenKept DEF FlowStep
  <2> QED
    BY <2>2, <2>3
<1>3. ASSUME NEW m, BusActive(m) \/ RxBuffFull(m)
      PROVE  FlowStep
  <2>1. /\ serial_out' = serial_out /\ rx_ready' \in {rx_ready, FALSE}
        /\ buf[Serial] # <<>> /\ buf'[Serial] = Tail(buf[Serial]) /\ inbox' = inbox
    BY <1>3, <1>f DEF BusActive, RxBuffFull, Parsed, Consume, output
  <2> QED
    BY <2>1, LineConsumed DEF FlowStep, Calm
<1>4. ASSUME NEW m, RxReady(m)
      PROVE  FlowStep
  <2>1. /\ serial_out' = serial_out /\ IsReady(Head(buf[Serial]))
        /\ buf[Serial] # <<>> /\ buf'[Serial] = Tail(buf[Serial]) /\ inbox' = inbox
    BY <1>4, <1>f DEF RxReady, Parsed, Consume, output, IsReady
  <2>2. Line # <<>> /\ Line' = Tail(Line) /\ IsReady(Head(Line)) /\ Line \in Seq(Item)
    BY <2>1, LineConsumed, LineTyped
  <2>3. ~NoneReady(Line) /\ (OneReady(Line) => NoneReady(Tail(Line)))
    <3> HIDE DEF Line
    <3> QED
      BY <2>2, LessTail, Zenon
  <2> QED
    BY <2>1, <2>2, <2>3, Zenon DEF FlowStep, Opens
<1>5. ASSUME NEW m, BusOff(m) \/ \E failed \in SUBSET c_network : FromBus(m, failed)
      PROVE  FlowStep
  <2>1. PICK K \in SUBSET c_network :
           /\ buf' = Freed([buf EXCEPT ![Serial] = Tail(@)], K)
           /\ Disconnect(K)
    BY <1>5 DEF BusOff, FromBus
  <2>2. serial_out' = serial_out /\ rx_ready' = rx_ready /\ buf[Serial] # <<>>
    BY <1>5 DEF BusOff, FromBus, Parsed, serialState
  <2>3. buf'[Serial] = Tail(buf[Serial]) /\ inbox'[Serial] = inbox[Serial]
    BY <1>f, <2>1 DEF Freed, Disconnect
  <2> QED
    BY <2>2, <2>3, LineConsumed DEF FlowStep, Calm
<1>6. ASSUME NEW m, NEW failed \in SUBSET c_network, FromClient(c, m, failed)
      PROVE  FlowStep
  <2>1. c # Serial /\ Parsed(c, m)
    BY <1>6 DEF FromClient
  <2>2. rx_ready /\ m \in Item /\ m.kind # "IntStatusRequest"
    BY <2>1, WritesWhenReady
  <2>3. ~rx_ready' /\ serial_out' = serial_out \o <<m, StatusRequest>>
    BY <1>6 DEF FromClient, WritesToSerial
  <2>4. buf'[Serial] = buf[Serial] /\ inbox'[Serial] = inbox[Serial]
    BY <1>6, <2>1 DEF FromClient, Disconnect
  <2>5. Less(Line', Line)
    BY <2>4, LessItself DEF Line
  <2> QED
    BY <2>2, <2>3, <2>5, Zenon DEF FlowStep, Writes
<1>7. ASSUME NEW m, SerialWriteFails(c, m)
      PROVE  FlowStep
  <2>1. c # Serial /\ Parsed(c, m) /\ Terminate
    BY <1>7 DEF SerialWriteFails
  <2>2. rx_ready /\ m \in Item /\ m.kind # "IntStatusRequest"
    BY <2>1, WritesWhenReady
  <2>3. ~rx_ready' /\ Less(Line', Line)
    BY <2>1, EndIsCalm
  <2>4. CASE serial_out' = serial_out
    BY <2>3, <2>4 DEF FlowStep, Calm
  <2>5. CASE serial_out' = Append(serial_out, m)
    <3>1. serial_out' = serial_out \o <<m>>
      BY <2>5 DEF TypeOK
    <3> QED
      BY <2>2, <2>3, <3>1, Zenon DEF FlowStep, Writes
  <2> QED
    BY <1>7, <2>4, <2>5 DEF SerialWriteFails
<1> QED
  BY <1>1, <1>2, <1>3, <1>4, <1>5, <1>6, <1>7 DEF process_read_data

LEMMA StepIsFlowStep ==
    ASSUME IInv, Sources, FlowTypeOK, FirstLife, FirstLife', [Next]_vars
    PROVE  FlowStep
<1> TypeOK /\ Serial \in Conn /\ Serial \notin Client
  BY ConnAssumption DEF IInv, Conn
<1>f. DOMAIN buf = Conn /\ DOMAIN inbox = Conn
  BY DEF TypeOK
<1>1. ASSUME NEW c \in Conn, ready_to_read(c)
      PROVE  FlowStep
  <2>1. /\ serial_out' = serial_out /\ rx_ready' = rx_ready
        /\ \E k \in 0 .. Len(inbox[c]) :
              /\ buf' = [buf EXCEPT ![c] = @ \o SubSeq(inbox[c], 1, k)]
              /\ inbox' = [inbox EXCEPT ![c] = SubSeq(@, k + 1, Len(@))]
    BY <1>1 DEF ready_to_read, output, serialState
  <2>2. CASE c = Serial
    <3>1. PICK k \in 0 .. Len(inbox[Serial]) :
             /\ buf'[Serial] = buf[Serial] \o SubSeq(inbox[Serial], 1, k)
             /\ inbox'[Serial] = SubSeq(inbox[Serial], k + 1, Len(inbox[Serial]))
      BY <1>f, <2>1, <2>2
    <3>2. (buf[Serial] \o SubSeq(inbox[Serial], 1, k))
             \o SubSeq(inbox[Serial], k + 1, Len(inbox[Serial]))
             = buf[Serial] \o inbox[Serial]
      BY LineTyped, LineMoved, Zenon
    <3>3. Line' = Line
      BY <3>1, <3>2, Zenon DEF Line
    <3> QED
      BY <2>1, <3>3, LessItself DEF FlowStep, Calm
  <2>3. CASE c # Serial
    <3>1. buf'[Serial] = buf[Serial] /\ inbox'[Serial] = inbox[Serial]
      BY <1>f, <2>1, <2>3
    <3> QED
      BY <2>1, <3>1, CalmWhenKept DEF FlowStep
  <2> QED
    BY <2>2, <2>3
<1>2. ASSUME NEW c \in Conn, ReadFails(c)
      PROVE  FlowStep
  <2>1. c # Serial /\ serial_out' = serial_out /\ rx_ready' = rx_ready
    BY <1>2 DEF ReadFails, output, serialState
  <2>2. buf'[Serial] = buf[Serial] /\ inbox'[Serial] = inbox[Serial]
    BY <1>2, <2>1 DEF ReadFails, kill_connection, Freed, Disconnect
  <2> QED
    BY <2>1, <2>2, CalmWhenKept DEF FlowStep
<1>3. CASE Exit \/ \E c \in Conn : AssertionFails(c)
  <2>1. Terminate /\ serial_out' = serial_out
    BY <1>3 DEF Exit, AssertionFails, output
  <2> QED
    BY <2>1, EndIsCalm DEF FlowStep, Calm
<1>4. CASE \E c \in Conn : FreedWatcherCrashes(c)
  BY <1>4 DEF FreedWatcherCrashes, FirstLife
<1>5. CASE Start
  BY <1>5 DEF Start, FirstLife, FlowTypeOK, TypeOK
<1>6. ASSUME NEW c \in Client, incomming_connection(c)
      PROVE  FlowStep
  <2>1. serial_out' = serial_out /\ rx_ready' = rx_ready
    BY <1>6 DEF incomming_connection, ConnectionRefused, ConnectionKept, output, serialState
  <2>2. inbox'[Serial] = inbox[Serial]
    BY <1>6 DEF incomming_connection, ConnectionRefused, ConnectionKept, Disconnect
  <2>3. buf'[Serial] = buf[Serial]
    <3>1. \A f \in freed_todo : f # Serial
      BY DEF TypeOK
    <3> QED
      BY <1>6, <1>f, <3>1 DEF incomming_connection, ConnectionRefused, ConnectionKept
  <2> QED
    BY <2>1, <2>2, <2>3, CalmWhenKept DEF FlowStep
<1>7. CASE Clients \/ UNCHANGED vars
  <2>1. serial_out' = serial_out /\ rx_ready' = rx_ready /\ buf' = buf
    BY <1>7 DEF Clients, ClientConnects, ClientSends, Sends, output, serialState, vars
  <2>2. inbox'[Serial] = inbox[Serial]
    BY <1>7, <1>f DEF Clients, ClientConnects, ClientSends, Sends, vars
  <2> QED
    BY <2>1, <2>2, CalmWhenKept DEF FlowStep
<1>8. CASE BusSends
  <2>1. PICK k \in BusKind : Sends(Serial, k, k \notin NotRelayed, MaxBus)
    BY <1>8 DEF BusSends
  <2> DEFINE i == [kind |-> k, src |-> Serial,
                   n |-> IF k \notin NotRelayed THEN sent[Serial] + 1 ELSE 0]
  <2>2. /\ serial_out' = serial_out /\ rx_ready' = rx_ready /\ buf' = buf
        /\ inbox'[Serial] = Append(inbox[Serial], i)
    BY <1>f, <2>1 DEF Sends, output, serialState
  <2>3. i \in Item /\ ~IsReady(i)
    <3>1. k # "RxReady"
      BY InterfaceAssumption DEF FlowKind
    <3>2. k \notin NotRelayed => sent[Serial] + 1 \in 0 .. MaxBus
      BY <2>1, BoundAssumption DEF Sends, TypeOK
    <3> QED
      BY <3>1, <3>2, BoundAssumption DEF Item, IsReady
  <2> HIDE DEF i
  <2>4. Line' = Append(Line, i)
    <3>1. buf[Serial] \o Append(inbox[Serial], i) = Append(buf[Serial] \o inbox[Serial], i)
      BY <2>3, LineTyped, LineAppended, Zenon
    <3> QED
      BY <2>2, <3>1, Zenon DEF Line
  <2>5. Less(Append(Line, i), Line)
    <3>1. Line \in Seq(Item)
      BY LineTyped
    <3> HIDE DEF Line
    <3> QED
      BY <2>3, <3>1, LessAppend, Zenon
  <2> QED
    BY <2>2, <2>4, <2>5, Zenon DEF FlowStep, Calm
<1> QED
  BY <1>1, <1>2, <1>3, <1>4, <1>5, <1>6, <1>7, <1>8, ProcessingIsFlowStep
     DEF Next, Daemon
-----------------------------------------------------------------------------
(* The dialogue goes on.                                                   *)

\* With nothing asked and nothing outstanding the interface has it all.
LEMMA AllTaken ==
    ASSUME TypeOK, FlowTypeOK, Asked = {}, Outstanding = {}
    PROVE  taken = Len(serial_out)
<1>1. Len(serial_out) \in Nat /\ taken \in Nat /\ taken <= Len(serial_out)
  BY DEF TypeOK, FlowTypeOK
<1>2. CASE taken < Len(serial_out)
  <2>1. taken + 1 \in taken + 1 .. Len(serial_out)
    BY <1>1, <1>2
  <2> QED
    BY <2>1 DEF Asked, Outstanding
<1> QED
  BY <1>1, <1>2

LEMMA DialogueOfDaemon ==
    ASSUME TypeOK, FlowTypeOK, Dialogue, FlowStep, UNCHANGED <<taken, room>>
    PROVE  taken' \in 0 .. Len(serial_out') /\ Dialogue'
<1>0. taken' = taken /\ room' = room /\ taken \in 0 .. Len(serial_out)
  BY DEF FlowTypeOK
<1>1. ASSUME serial_out' = serial_out
      PROVE  taken' \in 0 .. Len(serial_out') /\ Asked' = Asked /\ Outstanding' = Outstanding
  BY <1>0, <1>1 DEF Asked, Outstanding
<1>2. CASE Calm
  <2>1. /\ taken' \in 0 .. Len(serial_out') /\ Asked' = Asked
        /\ Outstanding' = Outstanding /\ (rx_ready' => rx_ready)
        /\ (NoneReady(Line) => NoneReady(Line')) /\ (OneReady(Line) => OneReady(Line'))
    BY <1>1, <1>2 DEF Calm, Less
  <2> QED
    BY <1>0, <2>1 DEF Dialogue, One
<1>3. CASE Opens
  <2>1. /\ taken' \in 0 .. Len(serial_out') /\ Asked' = Asked /\ Outstanding' = Outstanding
        /\ ~NoneReady(Line) /\ NoneReady(Line')
    BY <1>1, <1>3 DEF Opens, Dialogue
  <2>2. Asked = {} /\ Outstanding = {} /\ room = "room"
    BY <2>1 DEF Dialogue
  <2>3. OneReady(Line')
    BY <2>1 DEF NoneReady, OneReady
  <2> QED
    BY <1>0, <2>1, <2>2, <2>3 DEF Dialogue, One
<1>4. ASSUME NEW m, NEW q, Writes(m, q)
      PROVE  taken' \in 0 .. Len(serial_out') /\ Dialogue'
  <2>1. /\ rx_ready /\ ~rx_ready' /\ Less(Line', Line)
        /\ m \in Item /\ m.kind # "IntStatusRequest"
        /\ q = <<m>> \/ q = <<m, StatusRequest>>
        /\ serial_out' = serial_out \o q
    BY <1>4 DEF Writes
  <2>2. /\ room = "room" /\ NoneReady(Line) /\ OneReady(Line)
        /\ Asked = {} /\ Outstanding = {}
    BY <2>1 DEF Dialogue
  <2>3. PICK n \in Nat : n = Len(serial_out) /\ taken = n
    BY <2>2, AllTaken DEF TypeOK
  <2>4. serial_out \in Seq(Item) /\ StatusRequest \in Item
        /\ StatusRequest.kind = "IntStatusRequest"
    BY StatusRequestIsItem DEF TypeOK, StatusRequest
  <2>5. /\ Len(serial_out') \in {n + 1, n + 2}
        /\ serial_out'[n + 1].kind # "IntStatusRequest"
        /\ Len(serial_out') = n + 2 => serial_out'[n + 2].kind = "IntStatusRequest"
    <3>1. CASE q = <<m>>
      BY <2>1, <2>3, <2>4, <3>1
    <3>2. CASE q = <<m, StatusRequest>>
      <4>1. /\ Len(serial_out') = n + 2 /\ serial_out'[n + 1] = m
            /\ serial_out'[n + 2] = StatusRequest
        BY <2>1, <2>3, <2>4, <3>2
      <4> QED
        BY <2>1, <2>4, <4>1
    <3> QED
      BY <2>1, <3>1, <3>2
  <2>6. Outstanding' = {n + 1} /\ Asked' \subseteq {n + 2}
    BY <1>0, <2>3, <2>5 DEF Outstanding, Asked
  <2>7. NoneReady(Line') /\ OneReady(Line')
    BY <2>1, <2>2 DEF Less
  <2>8. One(Asked') /\ One(Outstanding') /\ \A i \in Outstanding', j \in Asked' : i < j
    BY <2>3, <2>6 DEF One
  <2>9. taken' \in 0 .. Len(serial_out')
    BY <1>0, <2>3, <2>5
  <2> QED
    BY <1>0, <2>1, <2>2, <2>7, <2>8, <2>9, Zenon DEF Dialogue, One
<1> QED
  BY <1>2, <1>3, <1>4 DEF FlowStep

\* The interface takes the next item: what it has yet to get is one less.
LEMMA NextTaken ==
    ASSUME TypeOK, FlowTypeOK, taken < Len(serial_out), taken' = taken + 1,
           serial_out' = serial_out
    PROVE  /\ taken + 1 \in taken + 1 .. Len(serial_out) /\ taken' \in 0 .. Len(serial_out')
           /\ Asked' = Asked \ {taken + 1} /\ Outstanding' = Outstanding \ {taken + 1}
           /\ NextItem.kind = "IntStatusRequest" => taken + 1 \in Asked
           /\ NextItem.kind # "IntStatusRequest" => taken + 1 \in Outstanding
           /\ \A i \in Asked \cup Outstanding : taken + 1 <= i
<1>1. Len(serial_out) \in Nat /\ taken \in Nat
  BY DEF TypeOK, FlowTypeOK
<1> QED
  BY <1>1 DEF Asked, Outstanding, NextItem

LEMMA InterfaceLine ==
    ASSUME TypeOK, NEW q, Appends(q)
    PROVE  Line' = Line \o q /\ rx_ready' = rx_ready /\ serial_out' = serial_out
<1>1. /\ inbox'[Serial] = inbox[Serial] \o q /\ buf' = buf
      /\ rx_ready' = rx_ready /\ serial_out' = serial_out
  BY DEF Appends, InterfaceWrites, TypeOK, Conn, output, serialState
<1>2. q \in Seq(Item)
  BY AppendsIn, FlowIsItem
<1>3. (buf[Serial] \o inbox[Serial]) \o q = buf[Serial] \o (inbox[Serial] \o q)
  BY <1>2, LineTyped, LinesJoined, Zenon
<1> QED
  BY <1>1, <1>3, Zenon DEF Line

\* What the answers of the interface add to the line.
LEMMA AnswerAdded ==
    ASSUME NEW p \in Seq(Item), NoneReady(p)
    PROVE  /\ OneReady(p \o <<Flow("RxReady")>>)
           /\ OneReady(p \o <<Flow("BusActive"), Flow("RxReady")>>)
           /\ NoneReady(p \o <<Flow("BusActive"), Flow("RxBuffFull")>>)
<1> DEFINE a == Flow("BusActive")
           r == Flow("RxReady")
           f == Flow("RxBuffFull")
<1>1. /\ a \in Item /\ ~IsReady(a) /\ r \in Item /\ f \in Item /\ ~IsReady(f)
  BY FlowIsItem DEF IsReady
<1> HIDE DEF a, r, f
<1>2. /\ p \o <<r>> = Append(p, r) /\ Append(p, a) \in Seq(Item)
      /\ p \o <<a, r>> = Append(Append(p, a), r)
      /\ p \o <<a, f>> = Append(Append(p, a), f)
  BY <1>1
<1>3. OneReady(Append(p, r)) /\ NoneReady(Append(p, a))
  BY <1>1, LessAppend, Zenon DEF Less
<1>4. OneReady(Append(Append(p, a), r)) /\ NoneReady(Append(Append(p, a), f))
  BY <1>1, <1>2, <1>3, LessAppend, Zenon DEF Less
<1> QED
  BY <1>2, <1>3, <1>4, Zenon DEF a, r, f

LEMMA InterfaceTyped ==
    ASSUME TypeOK, FlowTypeOK, Interface
    PROVE  taken' \in 0 .. Len(serial_out') /\ room' \in {"room", "full", "told"}
<1>1. serial_out' = serial_out
  BY DEF Interface, InterfaceAnswers, InterfaceTakes, InterfaceDrains,
         InterfaceWrites, output, vars
<1>2. CASE InterfaceAnswers \/ InterfaceTakes
  <2>1. taken < Len(serial_out) /\ taken' = taken + 1
    BY <1>2 DEF InterfaceAnswers, InterfaceTakes
  <2>2. room' \in {"room", "full", "told"}
    BY <1>2 DEF InterfaceAnswers, InterfaceTakes, FlowTypeOK
  <2> QED
    BY <1>1, <2>1, <2>2, NextTaken
<1>3. CASE InterfaceDrains
  BY <1>1, <1>3 DEF InterfaceDrains, FlowTypeOK
<1> QED
  BY <1>2, <1>3 DEF Interface

LEMMA DialogueOfInterface ==
    ASSUME TypeOK, FlowTypeOK, Dialogue, Interface
    PROVE  Dialogue'
<1> DEFINE added == <<Flow("BusActive"), Flow("RxReady")>>
           full == <<Flow("BusActive"), Flow("RxBuffFull")>>
           ready == <<Flow("RxReady")>>
<1>t. Line \in Seq(Item) /\ taken \in Nat
  BY LineTyped DEF FlowTypeOK
<1>1. CASE InterfaceAnswers
  <2>1. /\ taken < Len(serial_out) /\ NextItem.kind = "IntStatusRequest" /\ taken' = taken + 1
        /\ \/ room = "room" /\ InterfaceWrites(added) /\ room' = "room"
           \/ room # "room" /\ InterfaceWrites(full) /\ room' = "told"
    BY <1>1 DEF InterfaceAnswers
  <2>2. /\ serial_out' = serial_out /\ rx_ready' = rx_ready
        /\ \/ room = "room" /\ Line' = Line \o added /\ room' = "room"
           \/ room # "room" /\ Line' = Line \o full /\ room' = "told"
    <3>1. (InterfaceWrites(added) => Appends(added)) /\ (InterfaceWrites(full) => Appends(full))
      BY DEF Appends
    <3> HIDE DEF added, full
    <3> QED
      BY <2>1, <3>1, InterfaceLine, Zenon
  <2>3. /\ taken' \in 0 .. Len(serial_out') /\ taken + 1 \in Asked
        /\ Asked' = Asked \ {taken + 1} /\ Outstanding' = Outstanding \ {taken + 1}
        /\ \A i \in Asked \cup Outstanding : taken + 1 <= i
    BY <2>1, <2>2, NextTaken
  <2>4. /\ NoneReady(Line) /\ ~rx_ready /\ room # "told"
        /\ \A i \in Outstanding : i < taken + 1
    BY <2>3 DEF Dialogue
  <2>5. Outstanding \subseteq Nat
    BY <1>t DEF Outstanding
  <2>6. Outstanding = {} /\ Outstanding' = {}
    <3>1. \A i \in Outstanding : i \in Nat /\ taken + 1 <= i /\ i < taken + 1
      BY <2>3, <2>4, <2>5
    <3> QED
      BY <1>t, <2>3, <3>1
  <2>7. Asked' = {}
    BY <2>3 DEF Dialogue, One
  <2>8. OneReady(Line') /\ (room # "room" => NoneReady(Line'))
    <3>1. OneReady(Line \o added) /\ NoneReady(Line \o full)
      BY <1>t, <2>4, AnswerAdded, Zenon
    <3>2. NoneReady(Line \o full) => OneReady(Line \o full)
      BY DEF NoneReady, OneReady
    <3> HIDE DEF added, full
    <3> QED
      BY <2>2, <3>1, <3>2, Zenon
  <2> QED
    BY <2>2, <2>3, <2>4, <2>6, <2>7, <2>8 DEF Dialogue, One
<1>2. CASE InterfaceTakes
  <2>1. /\ taken < Len(serial_out) /\ NextItem.kind # "IntStatusRequest" /\ taken' = taken + 1
        /\ room = "room" => room' \in {"room", "full"}
        /\ serial_out' = serial_out /\ rx_ready' = rx_ready /\ Line' = Line
    BY <1>2 DEF InterfaceTakes, vars, Line
  <2>2. /\ taken' \in 0 .. Len(serial_out') /\ taken + 1 \in Outstanding
        /\ Asked' = Asked \ {taken + 1} /\ Outstanding' = Outstanding \ {taken + 1}
    BY <2>1, NextTaken
  <2>3. room = "room" /\ NoneReady(Line) /\ ~rx_ready
    BY <2>2 DEF Dialogue
  <2>4. Outstanding' = {} /\ One(Asked')
    BY <2>2 DEF Dialogue, One
  <2> QED
    BY <2>1, <2>2, <2>3, <2>4 DEF Dialogue, One
<1>3. CASE InterfaceDrains
  <2>1. /\ room # "room" /\ room' = "room" /\ taken' = taken
        /\ InterfaceWrites(IF room = "told" THEN ready ELSE <<>>)
    BY <1>3 DEF InterfaceDrains
  <2>2. /\ serial_out' = serial_out /\ rx_ready' = rx_ready
        /\ Line' = IF room = "told" THEN Line \o ready ELSE Line
    <3>1. /\ InterfaceWrites(ready) => Appends(ready)
          /\ InterfaceWrites(<<>>) => Appends(<<>>)
      BY DEF Appends
    <3>2. Line \o <<>> = Line
      BY <1>t
    <3> HIDE DEF ready
    <3>3. CASE room = "told"
      <4>1. Appends(ready)
        BY <2>1, <3>1, <3>3
      <4> QED
        BY <3>3, <4>1, InterfaceLine
    <3>4. CASE room # "told"
      <4>1. Appends(<<>>)
        BY <2>1, <3>1, <3>4
      <4> QED
        BY <3>2, <3>4, <4>1, InterfaceLine
    <3> QED
      BY <3>3, <3>4
  <2>3. /\ taken' \in 0 .. Len(serial_out') /\ Asked' = Asked /\ Outstanding' = Outstanding
    BY <2>1, <2>2 DEF Asked, Outstanding, FlowTypeOK
  <2>4. Outstanding = {} /\ NoneReady(Line) /\ ~rx_ready /\ OneReady(Line)
    BY <2>1 DEF Dialogue
  <2>5. CASE room = "told"
    <3>1. Asked = {} /\ OneReady(Line \o ready)
      <4>1. OneReady(Line \o ready)
        BY <1>t, <2>4, AnswerAdded, Zenon
      <4> QED
        BY <2>5, <4>1 DEF Dialogue
    <3> HIDE DEF ready
    <3> QED
      BY <2>1, <2>2, <2>3, <2>4, <2>5, <3>1 DEF Dialogue, One
  <2>6. CASE room # "told"
    BY <2>1, <2>2, <2>3, <2>4, <2>6 DEF Dialogue, One
  <2> QED
    BY <2>5, <2>6
<1> QED
  BY <1>1, <1>2, <1>3 DEF Interface

\* Once the first life is over there is no other.
LEMMA LifeIsOver ==
    ASSUME TypeOK, FlowTypeOK, [GatewayNext]_gatewayVars
    PROVE  starts' >= 1 /\ (FirstLife' => FirstLife)
<1>1. starts \in Nat /\ starts >= 1 /\ undefined \in BOOLEAN
  BY DEF TypeOK, FlowTypeOK
<1>2. CASE Start
  BY <1>1, <1>2 DEF Start, FirstLife
<1>3. ASSUME starts' = starts, ~undefined' => ~undefined
      PROVE  starts' >= 1 /\ (FirstLife' => FirstLife)
  BY <1>1, <1>3 DEF FirstLife
<1>4. ASSUME NEW c \in Conn, process_read_data(c) \/ FreedWatcherCrashes(c)
      PROVE  starts' = starts /\ (~undefined' => ~undefined)
  BY <1>1, <1>4
     DEF process_read_data, FreedWatcherCrashes, InsufficientData, FormError,
         BusActive, RxBuffFull, RxReady, BusOff, FromBus, FromClient,
         SerialWriteFails, Parsed, Processing
<1>5. CASE \/ \E c \in Conn : ready_to_read(c) \/ ReadFails(c) \/ AssertionFails(c)
           \/ \E c \in Client : incomming_connection(c)
           \/ Exit \/ Clients \/ BusSends \/ Interface \/ UNCHANGED gatewayVars
  <2>1. starts' = starts /\ undefined' = undefined
    BY <1>5
       DEF ready_to_read, ReadFails, AssertionFails, incomming_connection,
           ConnectionRefused, ConnectionKept, Exit, Clients, ClientConnects,
           ClientSends, BusSends, Sends, Interface, InterfaceAnswers,
           InterfaceTakes, InterfaceDrains, InterfaceWrites, history, vars, gatewayVars
  <2> QED
    BY <1>3, <2>1
<1> QED
  BY <1>2, <1>3, <1>4, <1>5 DEF GatewayNext, Daemon

GatewayInv == MessageInv /\ FlowInv

LEMMA GatewayInvInit == GatewayInit => GatewayInv
<1> SUFFICES ASSUME GatewayInit PROVE GatewayInv
  OBVIOUS
<1>1. MessageInv
  BY MessageInit DEF GatewayInit
<1>2. /\ serial_out = <<StatusRequest>> /\ Len(serial_out) = 1
      /\ serial_out[1].kind = "IntStatusRequest"
      /\ taken = 0 /\ room = "room" /\ starts = 1 /\ rx_ready = OptimisticBus
      /\ Line = <<>>
  BY DEF GatewayInit, Init, StatusRequest, Line, Conn
<1>3. Asked = {1} /\ Outstanding = {}
  BY <1>2 DEF Asked, Outstanding
<1>4. NoneReady(Line) /\ OneReady(Line)
  BY <1>2 DEF NoneReady, OneReady
<1>5. FlowTypeOK
  BY <1>2 DEF FlowTypeOK
<1>6. FirstLife => Dialogue
  BY <1>2, <1>3, <1>4 DEF FirstLife, Dialogue, One
<1> QED
  BY <1>1, <1>5, <1>6 DEF GatewayInv, FlowInv

\* The serial line only grows.
LEMMA TakenStays ==
    ASSUME TypeOK, FlowTypeOK, LineStep, taken' = taken
    PROVE  taken' \in 0 .. Len(serial_out')
<1>1. /\ taken \in Nat /\ taken <= Len(serial_out) /\ Len(serial_out) \in Nat
      /\ serial_out \in Seq(Item)
  BY DEF TypeOK, FlowTypeOK
<1>2. ASSUME NEW q \in Seq(Item), serial_out' = serial_out \o q
      PROVE  taken' \in 0 .. Len(serial_out')
  <2>1. Len(serial_out') = Len(serial_out) + Len(q) /\ Len(q) \in Nat
    BY <1>1, <1>2
  <2> QED
    BY <1>1, <2>1
<1>3. ASSUME NEW m \in Item, serial_out' = Append(serial_out, m)
      PROVE  taken' \in 0 .. Len(serial_out')
  BY <1>1, <1>3
<1>4. CASE serial_out' = serial_out
  BY <1>1, <1>4
<1>5. ASSUME NEW c \in Conn, NEW m \in Item, NEW stay \in SUBSET c_network,
             Relays(c, m, stay)
      PROVE  taken' \in 0 .. Len(serial_out')
  <2>1. <<m, StatusRequest>> \in Seq(Item)
    BY StatusRequestIsItem, PairInSeq
  <2> QED
    BY <1>2, <1>4, <1>5, <2>1 DEF Relays
<1>6. CASE Ends
  <2>1. \A c \in Client : buf[c] # <<>> => Head(buf[c]) \in Item
    BY DEF TypeOK, Conn
  <2> QED
    BY <1>3, <1>4, <1>6, <2>1 DEF Ends
<1>7. CASE Start
  BY <1>3, <1>7, StatusRequestIsItem DEF Start
<1>8. CASE \/ Rests
           \/ \E c \in Conn : Moves(c) \/ Drops(c)
           \/ \E K \in SUBSET Client : Loses(K)
           \/ \E c \in Client : Accepts(c)
           \/ \E x \in Conn, i \in Item : Sending(x, i)
  BY <1>4, <1>8 DEF Rests, Moves, Drops, Untouched, Loses, Accepts, Sending
<1> QED
  BY <1>5, <1>6, <1>7, <1>8 DEF LineStep

LEMMA GatewayInvStep == GatewayInv /\ [GatewayNext]_gatewayVars => GatewayInv'
<1> SUFFICES ASSUME GatewayInv, [GatewayNext]_gatewayVars PROVE GatewayInv'
  OBVIOUS
<1>1. /\ MessageInv /\ IInv /\ TypeOK /\ Sources /\ FlowTypeOK
      /\ FirstLife => Dialogue
  BY DEF GatewayInv, MessageInv, IInv, FlowInv
<1>2. MessageInv'
  BY <1>1, GatewayMessageStep
<1>3. starts' >= 1 /\ (FirstLife' => FirstLife)
  BY <1>1, LifeIsOver
<1>4. CASE [Next]_vars /\ UNCHANGED <<taken, room>>
  <2>1. taken' \in 0 .. Len(serial_out') /\ room' \in {"room", "full", "told"}
    <3>1. LineStep
      BY <1>1, <1>4, StepIsLineStep
    <3> QED
      BY <1>1, <1>4, <3>1, TakenStays DEF FlowTypeOK
  <2>2. FirstLife' => Dialogue'
    <3> SUFFICES ASSUME FirstLife' PROVE Dialogue'
      OBVIOUS
    <3>1. FirstLife /\ Dialogue
      BY <1>1, <1>3
    <3>2. FlowStep
      BY <1>1, <1>4, <3>1, StepIsFlowStep
    <3> QED
      BY <1>1, <1>4, <3>1, <3>2, DialogueOfDaemon
  <2> QED
    BY <1>2, <1>3, <2>1, <2>2 DEF GatewayInv, FlowInv, FlowTypeOK
<1>5. CASE Interface
  <2>1. taken' \in 0 .. Len(serial_out') /\ room' \in {"room", "full", "told"}
    BY <1>1, <1>5, InterfaceTyped
  <2>2. FirstLife' => Dialogue'
    BY <1>1, <1>3, <1>5, DialogueOfInterface
  <2> QED
    BY <1>2, <1>3, <2>1, <2>2 DEF GatewayInv, FlowInv, FlowTypeOK
<1>6. ([Next]_vars /\ UNCHANGED <<taken, room>>) \/ Interface
  BY DEF GatewayNext, Next, gatewayVars, vars
<1> QED
  BY <1>4, <1>5, <1>6

\* One question at a time, one answer at a time.
THEOREM DialogueKept == GatewaySpec => []GatewayInv
<1> QED
  BY GatewayInvInit, GatewayInvStep, PTL DEF GatewaySpec

\* Of all the messages the interface has yet to get the line holds one at most.
THEOREM OneOutstanding == GatewaySpec => []WaitsForReply
<1>1. GatewayInv => WaitsForReply
  <2> SUFFICES ASSUME GatewayInv, FirstLife PROVE Cardinality(Outstanding) <= 1
    BY DEF WaitsForReply
  <2>1. One(Outstanding)
    BY DEF GatewayInv, FlowInv, Dialogue
  <2>2. CASE Outstanding = {}
    BY <2>2, FS_EmptySet
  <2>3. CASE Outstanding # {}
    <3>1. PICK i : Outstanding = {i}
      BY <2>1, <2>3 DEF One
    <3>2. Cardinality({i}) = 1
      BY FS_Singleton, Zenon
    <3>3. Cardinality(Outstanding) = 1
      BY <3>1, <3>2, Zenon
    <3> QED
      BY <3>3
  <2> QED
    BY <2>2, <2>3
<1> QED
  BY <1>1, DialogueKept, PTL

\* No message reaches an interface whose buffer is full.
THEOREM NeverOverrun == GatewaySpec => NoOverrun
<1> DEFINE InTime == (taken' # taken /\ FirstLife /\ NextItem.kind # "IntStatusRequest")
                         => room = "room"
<1>1. GatewayInv /\ [GatewayNext]_gatewayVars => InTime
  <2> SUFFICES ASSUME GatewayInv, [GatewayNext]_gatewayVars, taken' # taken, FirstLife,
                      NextItem.kind # "IntStatusRequest"
               PROVE  room = "room"
    OBVIOUS
  <2>1. TypeOK /\ FlowTypeOK /\ Dialogue
    BY DEF GatewayInv, MessageInv, IInv, FlowInv
  <2>2. taken < Len(serial_out) /\ taken \in Nat /\ Len(serial_out) \in Nat
    BY <2>1 DEF GatewayNext, gatewayVars, Interface, InterfaceAnswers,
                InterfaceTakes, InterfaceDrains, FlowTypeOK, TypeOK
  <2>3. taken + 1 \in Outstanding
    BY <2>2 DEF Outstanding, NextItem
  <2> QED
    BY <2>1, <2>3 DEF Dialogue
<1>2. GatewayInv /\ [GatewayNext]_gatewayVars => [InTime]_gatewayVars
  BY <1>1
<1> QED
  BY <1>2, DialogueKept, PTL DEF GatewaySpec, NoOverrun
=============================================================================
