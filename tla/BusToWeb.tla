------------------------------ MODULE BusToWeb ------------------------------
(***************************************************************************)
(* The way of a message from the bus to velbusweb: the interface writes    *)
(* frames on the serial line, which may pick up noise; velbusd reads it in *)
(* pieces, cuts frames with parse_and_consume (Framing), drops a byte      *)
(* where none starts, and writes whole frames to its client (VelbusClient).*)
(* Flow control and several clients are Velbusd's; the bus stays on.       *)
(***************************************************************************)
EXTENDS VelbusClient

CONSTANTS
    Noise,      \* noise: sequences of bytes
    MaxNoise    \* bound: times that the line picks up noise

ASSUME NoiseAssumption == Noise \subseteq Seq(Byte) /\ MaxNoise \in Nat
ASSUME BusOnAssumption == \A m \in Message : ~BusOff(m)

VARIABLES
    line,       \* bytes of the serial line that have not arrived
    buf,        \* serial.conn.buf
    unparsed,   \* history: messages of the bus that velbusd has yet to parse
    misread,    \* history: velbusd parsed something else
    noises

line_vars == <<line, buf, unparsed, misread, noises>>
client_vars == <<socket, wire, unprocessed_data, n_unprocessed_data, processing,
                 due, astray, torn, cuts, starts>>

BusInit ==
    /\ Init
    /\ line = <<>> /\ buf = <<>>
    /\ unparsed = <<>> /\ misread = FALSE
    /\ noises = 0
-----------------------------------------------------------------------------
BusWrites ==
    /\ sent < MaxSent /\ sent' = sent + 1
    /\ \E m \in Message :
          /\ line' = line \o message(m)
          /\ unparsed' = Append(unparsed, m)
    /\ UNCHANGED <<client_vars, buf, misread, noises>>

PicksUpNoise ==
    /\ noises < MaxNoise /\ noises' = noises + 1
    /\ \E bytes \in Noise : line' = line \o bytes
    /\ UNCHANGED <<client_vars, sent, buf, unparsed, misread>>

\* ready_to_read: velbusd only reads when nothing is left to process.
SerialArrives(k) ==
    /\ InsufficientData(buf)
    /\ buf' = buf \o SubSeq(line, 1, k)
    /\ line' = SubSeq(line, k + 1, Len(line))
    /\ UNCHANGED <<client_vars, sent, unparsed, misread, noises>>

\* c->buf.substr(1)
WithoutByte == Tail(buf)

DropsByte ==
    /\ FormError(buf)
    /\ buf' = WithoutByte
    /\ UNCHANGED <<client_vars, sent, line, unparsed, misread, noises>>

Parses ==
    /\ HasFrame(buf)
    /\ buf' = Consumed(buf)
    /\ IF unparsed # <<>> /\ Head(unparsed) = Contents(buf)
       THEN unparsed' = Tail(unparsed) /\ UNCHANGED misread
       ELSE misread' = TRUE /\ UNCHANGED unparsed
    /\ UNCHANGED <<sent, line, noises>>

KeepsFlowControl ==
    /\ Parses
    /\ FlowControl(Contents(buf))
    /\ UNCHANGED client_vars

\* Without a connection the message is relayed to nobody.
Relays ==
    /\ Parses
    /\ ~FlowControl(Contents(buf))
    /\ IF socket
       THEN wire' = wire \o Frame(buf) /\ due' = Append(due, Contents(buf))
       ELSE UNCHANGED <<wire, due>>
    /\ UNCHANGED <<socket, buffer, processing, astray, torn, cuts, starts>>
-----------------------------------------------------------------------------
Client ==
    /\ \/ process_data
       \/ Connect \/ Close \/ Restart
       \/ \E k \in 1 .. Len(wire) : Data(k)
    /\ UNCHANGED line_vars

BusNext ==
    \/ BusWrites \/ PicksUpNoise
    \/ \E k \in 1 .. Len(line) : SerialArrives(k)
    \/ DropsByte \/ KeepsFlowControl \/ Relays
    \/ Client

BusSpec == BusInit /\ [][BusNext]_<<vars, line_vars>>
-----------------------------------------------------------------------------
BusTypeOK ==
    /\ TypeOK
    /\ line \in Seq(Byte) /\ buf \in Seq(Byte)
    /\ unparsed \in Seq(Message) /\ misread \in BOOLEAN
    /\ noises \in 0 .. MaxNoise

\* velbusd takes each message of the bus once and in order, and nothing that is
\* not one, however the line is read in pieces, also with noise between messages
\* that starts like a frame.
NeverMisread == ~misread

\* When all of the line has arrived and velbusd waits for more, it has relayed
\* every message; but noise that starts like a frame may hold back as much as
\* the longest frame.
HeldBack ==
    line = <<>> /\ InsufficientData(buf) =>
        IF noises = 0 THEN buf = <<>> /\ unparsed = <<>>
        ELSE Len(Bytes(unparsed)) < 6 + 15
=============================================================================
