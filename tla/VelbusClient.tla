---------------------------- MODULE VelbusClient ----------------------------
(***************************************************************************)
(* The client of velbusd in velbusweb, www/velbus.js: it collects the      *)
(* bytes of a TCP stream in one buffer, cuts frames from its front, looks  *)
(* for the next start byte when they are broken, and connects again when   *)
(* the connection ends.  velbusd is its environment: it writes whole       *)
(* frames, but a stream arrives in pieces and may end inside a frame.      *)
(*                                                                         *)
(* unprocessed_data is the part of the buffer that n_unprocessed_data      *)
(* counts; the buffer's 4096 bytes are never exceeded here.                *)
(***************************************************************************)
EXTENDS Framing, FiniteSetsExt

CONSTANTS
    Message,    \* messages on the bus: [prio, address, rtr, data]
    MaxSent,    \* bound: messages that velbusd writes
    MaxCuts,    \* bound: lost connections
    MaxStarts   \* bound: times velbusweb is started

ASSUME MessageAssumption == Message \subseteq AnyMessage
ASSUME BoundAssumption ==
    MaxSent \in Nat /\ MaxCuts \in Nat /\ MaxStarts \in Nat \ {0}

VARIABLES
    socket,             \* that.socket is connected
    wire,               \* bytes of the connection that have not arrived
    unprocessed_data,
    n_unprocessed_data,
    processing,         \* process_data's loop is running
    due,                \* history: messages of this connection still to emit
    astray,             \* history: something else was emitted
    torn,               \* history: a connection ended inside a frame
    sent, cuts, starts

buffer == <<unprocessed_data, n_unprocessed_data>>
history == <<due, astray, torn>>
counters == <<sent, cuts, starts>>
vars == <<socket, wire, unprocessed_data, n_unprocessed_data, processing, due,
          astray, torn, sent, cuts, starts>>

Init ==
    /\ socket = FALSE
    /\ wire = <<>>
    /\ unprocessed_data = <<>> /\ n_unprocessed_data = 0
    /\ processing = FALSE
    /\ due = <<>> /\ astray = FALSE /\ torn = FALSE
    /\ sent = 0 /\ cuts = 0 /\ starts = 1
-----------------------------------------------------------------------------
(* Frames.                                                                 *)

create_message(m) ==
    LET head == <<STX, 248 + m.prio, m.address, 64 * m.rtr + Len(m.data)>>
    IN head \o m.data \o <<Checksum(head \o m.data), ETX>>

\* The frames of a sequence of messages, one after the other.
Bytes(messages) ==
    LET upTo[i \in 0 .. Len(messages)] ==
            IF i = 0 THEN <<>> ELSE upTo[i - 1] \o create_message(messages[i])
    IN upTo[Len(messages)]

\* unprocessed_data[i], and what the header at the front says.
At(i) == unprocessed_data[i + 1]
StartsFrame == At(0) = STX /\ At(1) \div 4 = 62
length == At(3) % 16

\* Mutant: the data taken one byte too early.
TakesEarly ==
    [prio |-> At(1) % 4, address |-> At(2), rtr |-> (At(3) \div 64) % 2,
     data |-> SubSeq(unprocessed_data, 4, 3 + length)]

Parsed ==
    [prio |-> At(1) % 4, address |-> At(2), rtr |-> (At(3) \div 64) % 2,
     data |-> SubSeq(unprocessed_data, 5, 4 + length)]

\* resync: the first byte goes, and what follows up to the next start byte.
Resynced(bytes) ==
    LET rest == Tail(bytes)
        next == {i \in 1 .. Len(rest) : rest[i] = STX}
    IN IF next = {} THEN <<>> ELSE SubSeq(rest, Min(next), Len(rest))
-----------------------------------------------------------------------------
(* process_data: a loop over process_message.                              *)

\* Mutant: too few bytes to be worth a look.
WaitsForTwelve == n_unprocessed_data > 12

MoreToProcess == n_unprocessed_data > 6

process_message ==
    /\ processing /\ MoreToProcess
    /\ UNCHANGED <<socket, wire, processing, torn, counters>>

Keep(bytes) ==
    /\ unprocessed_data' = bytes
    /\ n_unprocessed_data' = Len(bytes)

\* Mutant: the checksum byte stays behind.
DropsTooLittle(bytes) == SubSeq(bytes, 6 + length, Len(bytes))

DropFrame(bytes) == SubSeq(bytes, 7 + length, Len(bytes))

Emit(m) ==
    IF due # <<>> /\ Head(due) = m
    THEN due' = Tail(due) /\ UNCHANGED astray
    ELSE astray' = TRUE /\ UNCHANGED due

Incomplete == n_unprocessed_data < 6 + length

\* No frame starts here, or it does not end where its length says.
LosesSync ==
    /\ process_message
    /\ ~StartsFrame \/ (~Incomplete /\ At(5 + length) # ETX)
    /\ Keep(Resynced(unprocessed_data))
    /\ UNCHANGED <<due, astray>>

\* The rest of the frame is to come: process_message returns, and the loop
\* calls it again.
WaitsInLoop ==
    /\ process_message
    /\ StartsFrame /\ Incomplete
    /\ UNCHANGED <<buffer, due, astray>>

ChecksumHolds == At(4 + length) = Checksum(SubSeq(unprocessed_data, 1, 4 + length))

EmitsFrame ==
    /\ process_message
    /\ StartsFrame /\ ~Incomplete /\ At(5 + length) = ETX
    /\ ChecksumHolds
    /\ Keep(DropFrame(unprocessed_data))
    /\ Emit(Parsed)

\* resync is called but process_message goes on: the frame's length is dropped
\* from what resync left, though it may be shorter, and the frame is emitted.
EmitsBroken ==
    /\ process_message
    /\ StartsFrame /\ ~Incomplete /\ At(5 + length) = ETX
    /\ ~ChecksumHolds
    /\ unprocessed_data' = DropFrame(Resynced(unprocessed_data))
    /\ n_unprocessed_data' = Len(Resynced(unprocessed_data)) - (6 + length)
    /\ Emit(Parsed)

ProcessDone ==
    /\ processing /\ ~MoreToProcess
    /\ processing' = FALSE
    /\ UNCHANGED <<socket, wire, buffer, history, counters>>
-----------------------------------------------------------------------------
(* The socket.                                                             *)

\* The retry timer after 'close', for ever.
Connect ==
    /\ ~processing /\ ~socket /\ cuts <= MaxCuts
    /\ socket' = TRUE
    /\ UNCHANGED <<wire, buffer, processing, history, counters>>

VelbusdWrites ==
    /\ socket /\ sent < MaxSent
    /\ \E m \in Message :
          /\ wire' = wire \o create_message(m)
          /\ due' = Append(due, m)
    /\ sent' = sent + 1
    /\ UNCHANGED <<socket, buffer, processing, astray, torn, cuts, starts>>

\* 'data', with the first k bytes that are on their way.
Data(k) ==
    /\ ~processing /\ socket /\ n_unprocessed_data >= 0
    /\ unprocessed_data' = unprocessed_data \o SubSeq(wire, 1, k)
    /\ n_unprocessed_data' = n_unprocessed_data + k
    /\ wire' = SubSeq(wire, k + 1, Len(wire))
    /\ processing' = TRUE
    /\ UNCHANGED <<socket, history, counters>>

\* data.copy to a negative offset throws: the process ends.  Upstart starts it
\* again, as after any other end of it.
Restart ==
    /\ starts < MaxStarts
    /\ starts' = starts + 1
    /\ socket' = FALSE
    /\ wire' = <<>>
    /\ unprocessed_data' = <<>> /\ n_unprocessed_data' = 0
    /\ processing' = FALSE
    /\ due' = <<>> /\ astray' = FALSE /\ torn' = FALSE
    /\ UNCHANGED <<sent, cuts>>

\* 'close': what has not arrived is lost, what has arrived stays.
Close ==
    /\ ~processing /\ socket /\ cuts < MaxCuts
    /\ cuts' = cuts + 1
    /\ socket' = FALSE
    /\ wire' = <<>>
    /\ due' = <<>>
    /\ torn' = (torn \/ unprocessed_data # <<>>)
    /\ UNCHANGED <<buffer, processing, astray, sent, starts>>
-----------------------------------------------------------------------------
process_data ==
    LosesSync \/ WaitsInLoop \/ EmitsFrame \/ EmitsBroken \/ ProcessDone

Next ==
    \/ process_data
    \/ Connect \/ VelbusdWrites \/ Close \/ Restart
    \/ \E k \in 1 .. Len(wire) : Data(k)

\* A loop that is running goes on, and what was written arrives.
Fairness ==
    /\ WF_vars(process_data)
    /\ WF_vars(\E k \in 1 .. Len(wire) : Data(k))

Spec == Init /\ [][Next]_vars /\ Fairness
-----------------------------------------------------------------------------
TypeOK ==
    /\ socket \in BOOLEAN /\ processing \in BOOLEAN
    /\ wire \in Seq(Byte) /\ unprocessed_data \in Seq(Byte)
    /\ n_unprocessed_data \in Int
    /\ due \in Seq(AnyMessage) /\ astray \in BOOLEAN /\ torn \in BOOLEAN
    /\ sent \in 0 .. MaxSent /\ cuts \in 0 .. MaxCuts /\ starts \in 1 .. MaxStarts

\* Until a connection ends inside a frame, no byte is lost, doubled or moved,
\* however the stream is cut into pieces: the buffer and what is on its way are
\* the frames of the messages that were not emitted yet.
Conserved ==
    ~torn => /\ Bytes(due) = unprocessed_data \o wire
             /\ n_unprocessed_data = Len(unprocessed_data)

\* Until then, the messages emitted are those that were written, in order, and
\* no frame is taken for broken.
Faithful == astray => torn

\* When all has arrived and the loop has ended, everything was emitted, but for
\* one message of six bytes that process_data (44) leaves for later.
Prompt ==
    ~torn /\ socket /\ ~processing /\ wire = <<>> =>
        Len(due) <= 1 /\ (due # <<>> => Head(due).data = <<>>)

\* process_data returns, so that velbusweb can serve HTTP and the TCP socket
\* (README.md 13-14).
Returns == processing ~> ~processing
=============================================================================
