------------------------------ MODULE Framing ------------------------------
(***************************************************************************)
(* Velbus frames as velbusd reads and writes them, VelbusMessage/: start   *)
(* byte, priority, address, request bit and length, up to 15 bytes of      *)
(* data, checksum, end byte; and the messages that the interface itself    *)
(* sends, which velbusd knows by their command.                            *)
(***************************************************************************)
EXTENDS Integers, Sequences

Byte == 0 .. 255
STX == 15
ETX == 4

Sum(bytes) ==
    LET upTo[i \in 0 .. Len(bytes)] ==
            IF i = 0 THEN 0 ELSE upTo[i - 1] + bytes[i]
    IN upTo[Len(bytes)]

\* (-sum)&0xff
Checksum(bytes) == (-Sum(bytes)) % 256
-----------------------------------------------------------------------------
(* parse_and_consume, of what is at the front of msges.                    *)

FrameLength(msges) == 6 + (msges[4] % 16)

HasHeader(msges) ==
    /\ Len(msges) >= 6
    /\ msges[1] = STX
    /\ msges[2] \div 4 = 62
    /\ (msges[4] \div 16) \in {0, 4}

\* Mutant: the shortest frame is not enough.
NeedsSeven(msges) ==
    Len(msges) < 7 \/ (HasHeader(msges) /\ Len(msges) < FrameLength(msges))

InsufficientData(msges) ==
    Len(msges) < 6 \/ (HasHeader(msges) /\ Len(msges) < FrameLength(msges))

\* Mutant: the checksum is not looked at.
ChecksNothing(msges) == msges[FrameLength(msges)] = ETX

HasTrailer(msges) ==
    LET n == FrameLength(msges)
    IN msges[n - 1] = Checksum(SubSeq(msges, 1, n - 2)) /\ msges[n] = ETX

HasFrame(msges) ==
    ~InsufficientData(msges) /\ HasHeader(msges) /\ HasTrailer(msges)
FormError(msges) == ~InsufficientData(msges) /\ ~HasFrame(msges)

Frame(msges) == SubSeq(msges, 1, FrameLength(msges))
Consumed(msges) == SubSeq(msges, FrameLength(msges) + 1, Len(msges))

Contents(msges) ==
    [prio |-> msges[2] % 4, address |-> msges[3], rtr |-> msges[4] \div 64,
     data |-> SubSeq(msges, 5, FrameLength(msges) - 2)]
-----------------------------------------------------------------------------
(* Messages.                                                               *)

\* What the header can say of a message.
AnyMessage ==
    {m \in [prio : 0 .. 3, address : Byte, rtr : {0, 1}, data : Seq(Byte)] :
        Len(m.data) <= 15}

message(m) ==
    LET bytes == <<STX, 248 + m.prio, m.address, 64 * m.rtr + Len(m.data)>> \o m.data
    IN bytes \o <<Checksum(bytes), ETX>>

\* The registrar's key, and what each constructor asks for in addition.
FromInterface(m, command) ==
    m.rtr = 0 /\ m.prio = 0 /\ m.data = <<command>> /\ m.address = 0

BusOff(m) == FromInterface(m, 9)
BusActive(m) == FromInterface(m, 10)
RxBuffFull(m) == FromInterface(m, 11)
RxReady(m) == FromInterface(m, 12)

\* process_read_data keeps these to itself.
FlowControl(m) == BusActive(m) \/ RxBuffFull(m) \/ RxReady(m)
=============================================================================
