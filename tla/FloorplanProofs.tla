-------------------------- MODULE FloorplanProofs --------------------------
(***************************************************************************)
(* The buttons of a blind's popover command that blind, and a popover      *)
(* says what the page knows, for any set of controls and any number of     *)
(* messages, connections and clicks.                                       *)
(***************************************************************************)
EXTENDS Floorplan, SequenceTheorems, TLAPS

\* What the click handler on the body keeps: only the icon that was clicked
\* last waits to be hidden, and every popover with buttons does.
OneWaits ==
    /\ popover \in [Icon -> {"none", "bare", "loading", "shown"}]
    /\ \A i, j \in hideme : i = j
    /\ \A i \in Icon : Complete(i) => i \in hideme

\* The inductive invariant.
IInv == OneWaits /\ OwnBlind

\* A message or an interval may fill a popover in: it had its buttons before.
LEMMA FillKeeps ==
    ASSUME IInv, NEW i, NEW d,
           Fill(i, d) \/ UNCHANGED popover, UNCHANGED <<kind, hideme, that>>
    PROVE  IInv'
<1> USE DEF IInv, OneWaits
<1>1. popover' \in [Icon -> {"none", "bare", "loading", "shown"}]
  BY DEF Fill
<1>2. \A j \in Icon : Complete(j)' <=> Complete(j)
  BY DEF Fill, Complete
<1>3. UNCHANGED <<kind, hideme, that>> OBVIOUS
<1>4. OneWaits' BY <1>1, <1>2, <1>3
<1>5. OwnBlind' BY <1>2, <1>3 DEF OwnBlind
<1> QED BY <1>4, <1>5

\* The click that opens a popover closes all others that have buttons.
LEMMA OpenKeeps ==
    ASSUME IInv, NEW i \in Icon, Open(i)
    PROVE  IInv'
<1> DEFINE k == kind[i[1]]
           fails == Throws(k, TRUE, Read(i))
           content == Content(k, fails)
<1> USE DEF IInv, OneWaits
<1>1. /\ ~Displayed(i) /\ UNCHANGED kind
      /\ popover' = [Closed({i}) EXCEPT ![i] = content]
      /\ hideme' = IF fails THEN {} ELSE {i}
      /\ that' = Shared(i, k, fails)
  BY DEF Open
<1>2. content \in {"bare", "loading", "shown"} /\ (content = "bare" <=> fails)
  BY DEF Content
<1> HIDE DEF content, fails, k
<1>3. popover'[i] = content /\ ~Complete(i) BY <1>1 DEF Closed, Displayed, Complete
<1>4. \A j \in Icon \ {i} :
         popover'[j] = IF j \in hideme THEN "none" ELSE popover[j]
  BY <1>1 DEF Closed
<1>5. \A j \in Icon \ {i} : ~Complete(j)' BY <1>4 DEF Complete
<1>6. popover' \in [Icon -> {"none", "bare", "loading", "shown"}]
  BY <1>1, <1>2 DEF Closed
<1>7. OneWaits' BY <1>1, <1>2, <1>3, <1>5, <1>6 DEF Complete
<1>8. Complete(i)' => ~fails BY <1>2, <1>3 DEF Complete
<1>9. kind[i[1]] = "blind" /\ ~fails => that' = i BY <1>1 DEF Shared, k
<1>10. OwnBlind' BY <1>1, <1>5, <1>8, <1>9 DEF OwnBlind
<1> QED BY <1>7, <1>10

\* A click elsewhere, or on an icon that is open, closes what waits.
LEMMA CloseKeeps ==
    ASSUME IInv, NEW except \in SUBSET Icon, \A i, j \in except : i = j,
           popover' = Closed(except), hideme' = except, UNCHANGED <<kind, that>>
    PROVE  IInv'
<1> USE DEF IInv, OneWaits
<1>1. \A j \in Icon :
         popover'[j] = IF j \in hideme \ except THEN "none" ELSE popover[j]
  BY DEF Closed
<1>2. popover' \in [Icon -> {"none", "bare", "loading", "shown"}] BY DEF Closed
<1>3. \A j \in Icon : Complete(j)' => Complete(j) /\ j \in except
  BY <1>1 DEF Complete
<1>4. OneWaits' BY <1>2, <1>3
<1>5. OwnBlind' BY <1>3 DEF OwnBlind
<1> QED BY <1>4, <1>5
-----------------------------------------------------------------------------
LEMMA InvInit == Init => IInv
  BY DEF Init, IInv, OneWaits, OwnBlind, Complete

LEMMA InvNext == IInv /\ [Next]_vars => IInv'
<1> SUFFICES ASSUME IInv, [Next]_vars PROVE IInv'
  OBVIOUS
<1>1. ASSUME UNCHANGED <<kind, popover, hideme, that>> PROVE IInv'
  BY <1>1, FillKeeps
<1>2. CASE Velbusweb
  BY <1>1, <1>2 DEF Velbusweb, Connect, Disconnect, Status, Answer, gui
<1>3. CASE Messages
  <2>1. CASE NewState BY <1>1, <2>1 DEF NewState, gui
  <2>2. CASE \E n \in 1 .. MaxFrame : Arrive(n) BY <1>1, <2>2 DEF Arrive, gui
  <2>3. CASE UpdateState
    <3>1. UNCHANGED <<kind, hideme, that>> BY <2>3 DEF UpdateState
    <3>2. PICK i, k, d : update(i, k, d) BY <2>3 DEF UpdateState
    <3>3. Fill(i, d) \/ UNCHANGED popover BY <3>2 DEF update
    <3> QED BY <3>1, <3>3, FillKeeps
  <2> QED BY <1>3, <2>1, <2>2, <2>3 DEF Messages
<1>4. CASE ClickElsewhere
  <2>1. popover' = Closed({}) /\ hideme' = {} /\ UNCHANGED <<kind, that>>
    BY <1>4 DEF ClickElsewhere
  <2> QED BY <2>1, CloseKeeps
<1>5. ASSUME NEW i \in Icon, OpenAgain(i) PROVE IInv'
  <2>1. popover' = Closed({i}) /\ hideme' = {i} /\ UNCHANGED <<kind, that>>
    BY <1>5 DEF OpenAgain
  <2> QED BY <2>1, CloseKeeps
<1>6. ASSUME NEW i \in Icon, Tick(i) PROVE IInv'
  <2>1. Fill(i, Read(i)) /\ UNCHANGED <<kind, hideme, that>> BY <1>6 DEF Tick
  <2> QED BY <2>1, FillKeeps
<1>7. CASE UNCHANGED vars BY <1>1, <1>7 DEF vars
<1> QED BY <1>2, <1>3, <1>4, <1>5, <1>6, <1>7, OpenKeeps DEF Next, User

-----------------------------------------------------------------------------
(* The type invariant.                                                     *)

\* What the handlers of www/controls publish.
LEMMA PublishTypes ==
    ASSUME TypeOK, NEW a \in Address, NEW d \in Data, Publish(a, d)
    PROVE  server' \in [Address -> Data] /\ wire' \in Seq(New \cup Update)
<1> USE DEF TypeOK
<1>1. server' \in [Address -> Data] BY DEF Publish
<1>2. d.lead \in Lead /\ d.detail \in Detail BY DEF Data
<1>3. Updates(a, d) \in Seq(Update)
  <2> DEFINE lead == [changetype |-> "update", addr |-> a, key |-> "lead",
                      value |-> d.lead]
             detail == [changetype |-> "update", addr |-> a, key |-> "detail",
                        value |-> d.detail]
  <2>1. lead \in Update /\ detail \in Update BY <1>2 DEF Update
  <2>2. Updates(a, d) \in {<<lead, detail>>, <<lead>>}
    BY DEF Updates
  <2> HIDE DEF lead, detail
  <2>3. <<lead, detail>> \in Seq(Update) BY <2>1
  <2>4. <<lead>> \in Seq(Update) BY <2>1
  <2> QED BY <2>2, <2>3, <2>4
<1>4. wire \o Updates(a, d) \in Seq(New \cup Update)
  <2> DEFINE u == Updates(a, d)
             M == New \cup Update
  <2>1. u \in Seq(M) BY <1>3
  <2> HIDE DEF u, M
  <2>2. wire \in Seq(M) BY DEF M
  <2>3. wire \o u \in Seq(M) BY <2>1, <2>2
  <2> QED BY <2>3 DEF u, M
<1>5. wire' = wire \o Updates(a, d) \/ wire' = wire BY DEF Publish
<1> QED BY <1>1, <1>4, <1>5

\* A key of an object.
LEMMA Assigned ==
    ASSUME NEW m \in Update, NEW d \in Data
    PROVE  [d EXCEPT ![m.key] = m.value] \in Data
<1>1. CASE m.key = "lead" /\ m.value \in Lead BY <1>1 DEF Data
<1>2. CASE m.key = "detail" /\ m.value \in Detail BY <1>2 DEF Data
<1> QED BY <1>1, <1>2 DEF Update

\* The first message of a frame, and the rest.
LEMMA FrameTypes ==
    ASSUME TypeOK, frame # <<>>
    PROVE  /\ Head(frame) \in New \cup Update /\ Tail(frame) \in Seq(New \cup Update)
           /\ Head(frame).changetype = "new" => Head(frame) \in New
           /\ Head(frame).changetype = "update" => Head(frame) \in Update
<1> DEFINE M == New \cup Update
<1>1. frame \in Seq(M) BY DEF TypeOK
<1>2. Head(frame) \in M /\ Tail(frame) \in Seq(M)
  <2> HIDE DEF M
  <2> QED BY <1>1
<1> QED BY <1>2 DEF New, Update

\* The texts, intervals and popovers after update().
LEMMA UpdateTypes ==
    ASSUME TypeOK, NEW i \in Address \X Nat, NEW k, NEW d, i \in Icon => d \in Data,
           update(i, k, d)
    PROVE  /\ popover' \in [Icon -> {"none", "bare", "loading", "shown"}]
           /\ text' \in [Icon -> Data] /\ interval' \subseteq Address \X Nat
  BY DEF TypeOK, update, Fill, Interval

LEMMA TypeInit == Init => TypeOK
<1> SUFFICES ASSUME Init PROVE TypeOK
  OBVIOUS
<1>1. Nothing \in Data BY DEF Nothing, Data, Lead, Detail
<1>2. <<>> \in Seq(New \cup Update) OBVIOUS
<1> QED BY <1>1, <1>2 DEF Init, TypeOK

LEMMA VelbuswebTypes ==
    ASSUME TypeOK, Velbusweb
    PROVE  TypeOK'
<1> USE DEF TypeOK
<1>1. CASE Connect
  <2>1. wire' = <<[changetype |-> "new", value |-> server]>> BY <1>1 DEF Connect
  <2>2. [changetype |-> "new", value |-> server] \in New BY DEF New
  <2>3. wire' \in Seq(New \cup Update) BY <2>1, <2>2
  <2>4. /\ connected' \in BOOLEAN /\ connections' \in Nat
        /\ UNCHANGED <<kind, server, frame, generation, state, gui, asked, changes>>
    BY <1>1 DEF Connect
  <2> QED BY <2>3, <2>4 DEF gui
<1>2. CASE Disconnect
  <2>1. wire' = <<>> /\ wire' \in Seq(New \cup Update) BY <1>2 DEF Disconnect
  <2>2. /\ connected' \in BOOLEAN
        /\ UNCHANGED <<kind, server, frame, generation, state, gui, asked, counters>>
    BY <1>2 DEF Disconnect
  <2> QED BY <2>1, <2>2 DEF gui, counters
<1>3. ASSUME NEW a \in Address, Status(a) PROVE TypeOK'
  <2>1. PICK d \in Data : Publish(a, d) BY <1>3 DEF Status, Reports
  <2>2. server' \in [Address -> Data] /\ wire' \in Seq(New \cup Update)
    BY <2>1, PublishTypes
  <2>3. changes' \in Nat BY <1>3 DEF Status
  <2> QED BY <1>3, <2>2, <2>3 DEF Status, gui
<1>4. ASSUME NEW a \in Address, Answer(a) PROVE TypeOK'
  <2>1. PICK d \in Data : Publish(a, d) BY <1>4 DEF Answer, Reports
  <2>2. server' \in [Address -> Data] /\ wire' \in Seq(New \cup Update)
    BY <2>1, PublishTypes
  <2>3. asked' \subseteq Address BY <1>4 DEF Answer
  <2> QED BY <1>4, <2>2, <2>3 DEF Answer, gui, counters
<1> QED BY <1>1, <1>2, <1>3, <1>4 DEF Velbusweb

LEMMA MessageTypes ==
    ASSUME TypeOK, Messages
    PROVE  TypeOK'
<1> USE DEF TypeOK
<1>1. CASE NewState
  <2>1. frame' \in Seq(New \cup Update) BY <1>1, FrameTypes DEF NewState
  <2>2. Head(frame).value \in [Address -> Data]
    BY <1>1, FrameTypes DEF NewState, New
  <2>3. state' \in [Generation -> [Address -> Data]] BY <1>1, <2>2 DEF NewState
  <2>4. generation' \in Nat BY <1>1 DEF NewState
  <2> QED BY <1>1, <2>1, <2>3, <2>4 DEF NewState, channel, gui, counters
<1>2. CASE UpdateState
  <2> DEFINE m == Head(frame)
             i == <<m.addr, generation>>
             d == [state[generation][m.addr] EXCEPT ![m.key] = m.value]
  <2>1. m \in Update /\ m.addr \in Address
    BY <1>2, FrameTypes DEF UpdateState, Update
  <2>2. i \in Address \X Nat BY <2>1
  <2>3. i \in Icon => d \in Data
    <3> SUFFICES ASSUME generation \in Generation PROVE d \in Data
      BY <2>2 DEF Icon
    <3>1. state[generation][m.addr] \in Data BY <2>1
    <3> QED BY <2>1, <3>1, Assigned
  <2>4. /\ state' = [state EXCEPT ![generation][m.addr] = d]
        /\ update(i, kind[m.addr], d)
        /\ frame' \in {<<>>, Tail(frame)} /\ frame # <<>>
    BY <1>2 DEF UpdateState
  <2>5. UNCHANGED <<kind, channel, generation, hideme, that, counters>>
    BY <1>2 DEF UpdateState
  <2>6. generation \in Generation => d \in Data BY <2>1, <2>3 DEF Icon
  <2> HIDE DEF d
  <2>7. state' \in [Generation -> [Address -> Data]] BY <2>4, <2>6
  <2>8. frame' \in Seq(New \cup Update)
    <3>1. Tail(frame) \in Seq(New \cup Update) BY <2>4, FrameTypes
    <3>2. <<>> \in Seq(New \cup Update) OBVIOUS
    <3> QED BY <2>4, <3>1, <3>2
  <2>9. /\ popover' \in [Icon -> {"none", "bare", "loading", "shown"}]
        /\ text' \in [Icon -> Data] /\ interval' \subseteq Address \X Nat
    BY <2>2, <2>3, <2>4, UpdateTypes
  <2> QED BY <2>5, <2>7, <2>8, <2>9 DEF channel, counters
<1>3. ASSUME NEW n \in 1 .. MaxFrame, Arrive(n) PROVE TypeOK'
  <2> DEFINE M == New \cup Update
  <2>1. wire \in Seq(M) OBVIOUS
  <2>2. n \in Nat /\ n >= 1 /\ n <= Len(wire) BY <1>3, BoundAssumption DEF Arrive
  <2>3. frame' = SubSeq(wire, 1, n) /\ wire' = SubSeq(wire, n + 1, Len(wire))
    BY <1>3 DEF Arrive
  <2> HIDE DEF M
  <2>4. frame' \in Seq(M) /\ wire' \in Seq(M)
    BY <2>1, <2>2, <2>3, SubSeqProperties
  <2> QED BY <1>3, <2>4 DEF Arrive, gui, counters, M
<1> QED BY <1>1, <1>2, <1>3 DEF Messages

LEMMA UserTypes ==
    ASSUME TypeOK, User
    PROVE  TypeOK'
<1> USE DEF TypeOK
<1>1. \A except : Closed(except) \in [Icon -> {"none", "bare", "loading", "shown"}]
  BY DEF Closed
<1>2. CASE ClickElsewhere
  BY <1>1, <1>2 DEF ClickElsewhere, channel, counters
<1>3. ASSUME NEW i \in Icon, OpenAgain(i) PROVE TypeOK'
  <2>1. asked' \subseteq Address BY <1>3 DEF OpenAgain, Asks, Icon
  <2> QED BY <1>1, <1>3, <2>1 DEF OpenAgain, counters
<1>4. ASSUME NEW i \in Icon, Open(i) PROVE TypeOK'
  <2> DEFINE fails == Throws(kind[i[1]], TRUE, Read(i))
             content == Content(kind[i[1]], fails)
  <2>1. Read(i) \in Data BY DEF Read, Icon
  <2>2. /\ popover' = [Closed({i}) EXCEPT ![i] = content]
        /\ text' = [text EXCEPT ![i] = IF content = "shown" THEN Read(i) ELSE Nothing]
        /\ interval' = Interval(i, kind[i[1]], Read(i))
        /\ hideme' = IF fails THEN {} ELSE {i}
        /\ that' = Shared(i, kind[i[1]], fails)
        /\ asked' = Asks(i, kind[i[1]], fails)
        /\ UNCHANGED <<kind, server, wire, connected, frame, generation, state, counters>>
    BY <1>4 DEF Open
  <2> HIDE DEF fails
  <2>3. content \in {"bare", "loading", "shown"} BY DEF Content
  <2> HIDE DEF content
  <2>4. popover' \in [Icon -> {"none", "bare", "loading", "shown"}]
    BY <1>1, <2>2, <2>3
  <2>5. text' \in [Icon -> Data]
    BY <2>1, <2>2 DEF Nothing, Data, Lead, Detail
  <2>6. interval' \subseteq Address \X Nat
    <3>1. interval' \in {interval, interval \cup {i}, interval \ {i}}
      BY <2>2 DEF Interval
    <3>2. i \in Address \X Nat BY DEF Icon, Generation
    <3> QED BY <3>1, <3>2
  <2>7. /\ hideme' \subseteq Icon /\ that' \in Icon \cup {None}
        /\ asked' \subseteq Address
    BY <2>2 DEF Shared, Asks, Icon
  <2> QED BY <2>2, <2>4, <2>5, <2>6, <2>7 DEF counters
<1> QED BY <1>2, <1>3, <1>4 DEF User

LEMMA TypeNext == TypeOK /\ [Next]_vars => TypeOK'
<1> SUFFICES ASSUME TypeOK, [Next]_vars PROVE TypeOK'
  OBVIOUS
<1>1. ASSUME NEW i \in Icon, Tick(i) PROVE TypeOK'
  <2>1. Read(i) \in Data BY DEF TypeOK, Read, Icon
  <2>2. /\ popover' \in [Icon -> {"none", "bare", "loading", "shown"}]
        /\ text' \in [Icon -> Data]
    BY <1>1, <2>1 DEF TypeOK, Tick, Fill
  <2> QED BY <1>1, <2>2 DEF TypeOK, Tick, channel, counters
<1>2. CASE UNCHANGED vars BY <1>2 DEF vars, TypeOK
<1> QED BY <1>1, <1>2, VelbuswebTypes, MessageTypes, UserTypes DEF Next

\* What velbusweb, the channel and the page hold is of its type
\* (index.html 72-188).
THEOREM FloorplanTypes == Spec => []TypeOK
  BY TypeInit, TypeNext, PTL DEF Spec

\* A blind's buttons command that blind (blind.js 16-44).
THEOREM OwnBlindAlways == Spec => []OwnBlind
<1>1. IInv => OwnBlind BY DEF IInv
<1> QED BY InvInit, InvNext, <1>1, PTL DEF Spec
-----------------------------------------------------------------------------
(* What a popover says.                                                    *)

\* The messages that the page is going to handle.
Stream == frame \o wire

\* What comes after the first k of them, of what is known of a: its detail, or
\* all of it once more.
Resumes(k, a) ==
    IF k < Len(Stream)
    THEN \/ Stream[k + 1].changetype = "new"
         \/ /\ Stream[k + 1].changetype = "update"
            /\ Stream[k + 1].addr = a /\ Stream[k + 1].key = "detail"
    ELSE ~connected

\* A status has both keys, if controls of that kind have both; or neither.
Whole(k, d) ==
    d # Nothing => d.lead # None /\ (d.detail = None <=> ~HasDetail(k))
AllWhole(kinds, value) == \A a \in Address : Whole(kinds[a], value[a])

\* What is sent is whole, and the detail follows the lead.
Proper(k) ==
    /\ Stream[k].changetype = "new" => AllWhole(kind, Stream[k].value)
    /\ Stream[k].changetype = "update" =>
          /\ Stream[k].value # None
          /\ Stream[k].key = "lead" /\ HasDetail(kind[Stream[k].addr]) =>
                Resumes(k, Stream[k].addr)

StreamInv ==
    /\ AllWhole(kind, server)
    /\ ~connected => wire = <<>>
    /\ \A k \in 1 .. Len(Stream) : Proper(k)

\* A thermostat that is off and has no detail gets it by the next message.
HalfKnown ==
    \A a \in Address :
        /\ generation \in Generation /\ kind[a] = "temp"
        /\ state[generation][a] = [lead |-> "off", detail |-> None]
        => Resumes(0, a)

\* What a popover that is filled in shows does not make update() throw.
Readable ==
    \A i \in Icon :
        /\ i[2] > generation => popover[i] = "none"
        /\ popover[i] = "shown" /\ Read(i).detail = None =>
              /\ kind[i[1]] \notin {"relay", "blind"}
              /\ kind[i[1]] = "temp" => Read(i).lead = "off"
        /\ kind[i[1]] = "temp" /\ i \in interval /\ Complete(i) => Read(i) # Nothing

FreshInv == StreamInv /\ HalfKnown /\ Readable /\ PopoverFresh
-----------------------------------------------------------------------------
Sent == New \cup Update

LEMMA AppendedFact ==
    ASSUME NEW f \in Seq(Sent), NEW w \in Seq(Sent)
    PROVE  /\ f \o w \in Seq(Sent) /\ Len(f \o w) = Len(f) + Len(w)
           /\ Len(f) \in Nat /\ Len(w) \in Nat
           /\ \A k \in 1 .. Len(f) : (f \o w)[k] = f[k]
           /\ \A k \in 1 .. Len(w) : (f \o w)[Len(f) + k] = w[k]
           /\ \A k \in Len(f) + 1 .. Len(f) + Len(w) : (f \o w)[k] = w[k - Len(f)]
  OBVIOUS

LEMMA StreamFact ==
    ASSUME TypeOK
    PROVE  /\ frame \in Seq(Sent) /\ wire \in Seq(Sent) /\ Stream \in Seq(Sent)
           /\ Len(frame) \in Nat /\ Len(wire) \in Nat /\ Len(Stream) \in Nat
           /\ Len(Stream) = Len(frame) + Len(wire)
           /\ \A k \in 1 .. Len(frame) : Stream[k] = frame[k]
           /\ \A k \in 1 .. Len(wire) : Stream[Len(frame) + k] = wire[k]
           /\ \A k \in Len(frame) + 1 .. Len(Stream) : Stream[k] = wire[k - Len(frame)]
           /\ \A k \in 1 .. Len(Stream) : Stream[k] \in Sent
<1>1. frame \in Seq(Sent) /\ wire \in Seq(Sent)
  BY DEF TypeOK, Sent
<1>2. \A k \in 1 .. Len(Stream) : Stream[k] \in Sent
  BY <1>1, AppendedFact DEF Stream
<1> QED
  BY <1>1, <1>2, AppendedFact DEF Stream

\* Messages that were handled or dropped are gone, the others stay.
LEMMA ShiftKeeps ==
    ASSUME StreamInv, NEW n \in Nat, UNCHANGED <<kind, server, connected>>,
           ~connected => wire' = <<>>,
           Len(Stream') \in Nat, Len(Stream) = Len(Stream') + n,
           \A k \in 1 .. Len(Stream') : Stream'[k] = Stream[k + n]
    PROVE  /\ StreamInv'
           /\ \A k \in Nat, a \in Address : Resumes(k, a)' <=> Resumes(k + n, a)
<1>1. ASSUME NEW k \in Nat, NEW a \in Address PROVE Resumes(k, a)' <=> Resumes(k + n, a)
  <2>1. CASE k < Len(Stream')
    <3>1. k + n < Len(Stream) /\ Stream'[k + 1] = Stream[k + n + 1]
      BY <2>1
    <3> QED
      BY <2>1, <3>1 DEF Resumes
  <2>2. CASE ~(k < Len(Stream'))
    <3>1. ~(k + n < Len(Stream))
      BY <2>2
    <3> QED
      BY <2>2, <3>1 DEF Resumes
  <2> QED
    BY <2>1, <2>2
<1>2. ASSUME NEW k \in Nat, NEW a, Resumes(k + n, a) PROVE Resumes(k, a)'
  <2>1. CASE k < Len(Stream')
    <3>1. k + n < Len(Stream) /\ Stream'[k + 1] = Stream[k + n + 1]
      BY <2>1
    <3> QED
      BY <1>2, <2>1, <3>1 DEF Resumes
  <2>2. CASE ~(k < Len(Stream'))
    <3>1. ~(k + n < Len(Stream))
      BY <2>2
    <3> QED
      BY <1>2, <2>2, <3>1 DEF Resumes
  <2> QED
    BY <2>1, <2>2
<1>3. ASSUME NEW k \in 1 .. Len(Stream') PROVE Proper(k)'
  <2>1. k + n \in 1 .. Len(Stream) /\ Stream'[k] = Stream[k + n] /\ k \in Nat
    OBVIOUS
  <2>2. Proper(k + n)
    BY <2>1 DEF StreamInv
  <2>3. \A a : Resumes(k + n, a) => Resumes(k, a)'
    BY <1>2, <2>1
  <2> QED
    BY <2>1, <2>2, <2>3 DEF Proper
<1> QED
  BY <1>1, <1>3 DEF StreamInv

\* More messages are sent; the first of a connection is "new".
LEMMA GrowKeeps ==
    ASSUME TypeOK, StreamInv, NEW u \in Seq(Sent), wire' = wire \o u,
           UNCHANGED <<kind, frame>>, connected',
           connected \/ (Len(u) >= 1 /\ u[1].changetype = "new"),
           AllWhole(kind, server'),
           \A k \in 1 .. Len(u) :
              /\ u[k].changetype = "new" => AllWhole(kind, u[k].value)
              /\ u[k].changetype = "update" =>
                    /\ u[k].value # None
                    /\ u[k].key = "lead" /\ HasDetail(kind[u[k].addr]) =>
                          /\ k < Len(u)
                          /\ u[k + 1].changetype = "update"
                          /\ u[k + 1].addr = u[k].addr /\ u[k + 1].key = "detail"
    PROVE  /\ StreamInv'
           /\ \A a \in Address : Resumes(0, a) => Resumes(0, a)'
<1>1. /\ Stream \in Seq(Sent) /\ Stream' = Stream \o u
      /\ Len(Stream) \in Nat /\ Len(u) \in Nat
  <2>1. Stream' = frame \o (wire \o u)
    BY DEF Stream
  <2>2. frame \o (wire \o u) = (frame \o wire) \o u
    <3>1. frame \in Seq(Sent) /\ wire \in Seq(Sent)
      BY StreamFact
    <3> QED
      BY <3>1
  <2> QED
    BY <2>1, <2>2, StreamFact DEF Stream
<1> DEFINE s == Stream
           w == Stream'
<1>2. /\ Len(w) = Len(s) + Len(u)
      /\ \A k \in 1 .. Len(s) : w[k] = s[k]
      /\ \A k \in 1 .. Len(u) : w[Len(s) + k] = u[k]
      /\ \A k \in Len(s) + 1 .. Len(s) + Len(u) : w[k] = u[k - Len(s)]
  BY <1>1, AppendedFact
<1>3. ASSUME NEW k \in 0 .. Len(s), NEW a, Resumes(k, a) PROVE Resumes(k, a)'
  <2>1. CASE k < Len(s)
    <3>1. k < Len(w) /\ w[k + 1] = s[k + 1]
      BY <1>1, <1>2, <2>1
    <3> QED
      BY <1>3, <2>1, <3>1 DEF Resumes
  <2>2. CASE ~(k < Len(s))
    <3>1. ~connected
      BY <1>3, <2>2 DEF Resumes
    <3>2. k < Len(w) /\ w[k + 1] = u[1]
      BY <1>1, <1>2, <2>2, <3>1
    <3> QED
      BY <3>1, <3>2 DEF Resumes
  <2> QED
    BY <2>1, <2>2
<1>5. ASSUME NEW k \in 1 .. Len(s) PROVE Proper(k)'
  <2>1. Stream'[k] = Stream[k] /\ k \in 0 .. Len(s)
    BY <1>2
  <2>2. Proper(k)
    BY DEF StreamInv
  <2>3. \A a : Resumes(k, a) => Resumes(k, a)'
    BY <1>3, <2>1
  <2> QED
    BY <2>1, <2>2, <2>3 DEF Proper
<1>6. ASSUME NEW k \in Len(s) + 1 .. Len(s) + Len(u) PROVE Proper(k)'
  <2> DEFINE j == k - Len(s)
  <2>1. j \in 1 .. Len(u) /\ Stream'[k] = u[j]
    BY <1>1, <1>2
  <2>2. j < Len(u) => k < Len(Stream') /\ Stream'[k + 1] = u[j + 1]
    BY <1>1, <1>2
  <2> HIDE DEF j
  <2>3. /\ u[j].changetype = "new" => AllWhole(kind, u[j].value)
        /\ u[j].changetype = "update" =>
              /\ u[j].value # None
              /\ u[j].key = "lead" /\ HasDetail(kind[u[j].addr]) =>
                    /\ j < Len(u)
                    /\ u[j + 1].changetype = "update"
                    /\ u[j + 1].addr = u[j].addr /\ u[j + 1].key = "detail"
    BY <2>1
  <2>4. \A a : /\ j < Len(u) /\ u[j + 1].changetype = "update"
              /\ u[j + 1].addr = a /\ u[j + 1].key = "detail"
             => Resumes(k, a)'
    BY <2>2 DEF Resumes
  <2> QED
    BY <2>1, <2>3, <2>4 DEF Proper
<1>7. \A k \in 1 .. Len(Stream') :
         k \in 1 .. Len(s) \/ k \in Len(s) + 1 .. Len(s) + Len(u)
  BY <1>1, <1>2
<1>8. 0 \in 0 .. Len(s)
  BY <1>1
<1> QED
  BY <1>3, <1>5, <1>6, <1>7, <1>8 DEF StreamInv

\* A control that was reported is whole.
LEMMA ReportWhole ==
    ASSUME NEW a \in Address, NEW d \in Reports(a), StreamInv
    PROVE  d \in Data /\ Whole(kind[a], d) /\ d.lead # None
           /\ (d.detail = None <=> ~HasDetail(kind[a]))
  BY DEF Reports, Whole

\* What is published keeps the order.
LEMMA PublishKeeps ==
    ASSUME TypeOK, StreamInv, NEW a \in Address, NEW d \in Reports(a), Publish(a, d),
           UNCHANGED <<kind, frame, connected>>
    PROVE  StreamInv' /\ \A b \in Address : Resumes(0, b) => Resumes(0, b)'
<1>1. AllWhole(kind, server')
  <2>1. server' = [server EXCEPT ![a] = d]
    BY DEF Publish
  <2> QED
    BY <2>1, ReportWhole DEF AllWhole, StreamInv, TypeOK
<1>2. CASE connected
  <2> DEFINE lead == [changetype |-> "update", addr |-> a, key |-> "lead",
                      value |-> d.lead]
             detail == [changetype |-> "update", addr |-> a, key |-> "detail",
                        value |-> d.detail]
             u == Updates(a, d)
  <2>1. lead \in Sent /\ detail \in Sent
    <3>1. d.lead \in Lead /\ d.detail \in Detail
      BY ReportWhole DEF Data
    <3> QED
      BY <3>1 DEF Sent, Update
  <2>2. u = IF HasDetail(kind[a]) THEN <<lead, detail>> ELSE <<lead>>
    BY DEF Updates
  <2>3. /\ lead.changetype = "update" /\ lead.value # None /\ lead.addr = a
        /\ detail.changetype = "update" /\ detail.addr = a /\ detail.key = "detail"
        /\ HasDetail(kind[a]) => detail.value # None
    BY ReportWhole
  <2>4. wire' = wire \o u
    BY <1>2 DEF Publish
  <2> HIDE DEF lead, detail, u
  <2>5. /\ u \in Seq(Sent)
        /\ Len(u) = IF HasDetail(kind[a]) THEN 2 ELSE 1
        /\ u[1] = lead /\ (HasDetail(kind[a]) => u[2] = detail)
    BY <2>1, <2>2
  <2>6. ASSUME NEW k \in 1 .. Len(u)
        PROVE  /\ u[k].changetype = "new" => AllWhole(kind, u[k].value)
               /\ u[k].changetype = "update" =>
                     /\ u[k].value # None
                     /\ u[k].key = "lead" /\ HasDetail(kind[u[k].addr]) =>
                           /\ k < Len(u)
                           /\ u[k + 1].changetype = "update"
                           /\ u[k + 1].addr = u[k].addr /\ u[k + 1].key = "detail"
    <3>1. CASE k = 1
      BY <2>3, <2>5, <3>1
    <3>2. CASE k # 1
      <4>1. HasDetail(kind[a]) /\ u[k] = detail
        BY <2>5, <3>2
      <4> QED
        BY <2>3, <4>1
    <3> QED
      BY <3>1, <3>2
  <2> QED
    BY <1>1, <1>2, <2>4, <2>5, <2>6, GrowKeeps
<1>3. CASE ~connected
  <2>1. wire' = wire /\ wire = <<>>
    BY <1>3 DEF Publish, StreamInv
  <2>2. Stream' = Stream
    BY <2>1 DEF Stream
  <2>3. \A k, b : Resumes(k, b)' <=> Resumes(k, b)
    BY <2>2 DEF Resumes
  <2>4. \A k : Proper(k) => Proper(k)'
    BY <2>2, <2>3 DEF Proper
  <2> QED
    BY <1>1, <2>1, <2>2, <2>3, <2>4 DEF StreamInv
<1> QED
  BY <1>2, <1>3

\* The handlers of velbusweb and its connections.
LEMMA VelbuswebStreams ==
    ASSUME TypeOK, StreamInv, Velbusweb
    PROVE  StreamInv' /\ \A a \in Address : Resumes(0, a) => Resumes(0, a)'
<1>1. CASE Connect
  <2> DEFINE u == <<[changetype |-> "new", value |-> server]>>
  <2>1. ~connected /\ connected' /\ wire' = u /\ UNCHANGED <<kind, server, frame>>
    BY <1>1 DEF Connect
  <2>2. u \in Seq(Sent) /\ Len(u) = 1 /\ u[1].changetype = "new" /\ u[1].value = server
    <3>1. [changetype |-> "new", value |-> server] \in Sent
      BY DEF Sent, New, TypeOK
    <3> QED
      BY <3>1
  <2> HIDE DEF u
  <2>3. wire' = wire \o u
    <3>1. wire = <<>>
      BY <2>1 DEF StreamInv
    <3> QED
      BY <2>1, <2>2, <3>1
  <2>4. \A k \in 1 .. Len(u) : k = 1
    BY <2>2
  <2>5. AllWhole(kind, server)
    BY DEF StreamInv
  <2>6. ASSUME NEW k \in 1 .. Len(u)
        PROVE  u[k].changetype = "new" /\ AllWhole(kind, u[k].value)
    BY <2>2, <2>4, <2>5
  <2>7. "new" # "update"
    OBVIOUS
  <2> QED
    BY <2>1, <2>2, <2>3, <2>5, <2>6, <2>7, GrowKeeps
<1>2. CASE Disconnect
  <2>1. connected /\ ~connected' /\ wire' = <<>> /\ UNCHANGED <<kind, server, frame>>
    BY <1>2 DEF Disconnect
  <2>2. Stream' = frame
    <3>1. Stream' = frame \o <<>> /\ frame \in Seq(Sent)
      BY <2>1, StreamFact DEF Stream
    <3> QED
      BY <3>1
  <2>3. ASSUME NEW k \in Nat, NEW a, k <= Len(frame), Resumes(k, a) PROVE Resumes(k, a)'
    <3>1. CASE k < Len(frame)
      <4>1. Stream[k + 1] = frame[k + 1] /\ k < Len(Stream)
        BY <3>1, StreamFact
      <4> QED
        BY <2>2, <2>3, <3>1, <4>1 DEF Resumes
    <3>2. CASE ~(k < Len(frame))
      BY <2>1, <2>2, <3>2 DEF Resumes
    <3> QED
      BY <3>1, <3>2
  <2>4. ASSUME NEW k \in 1 .. Len(Stream') PROVE Proper(k)'
    <3>1. /\ k \in 1 .. Len(Stream) /\ Stream'[k] = Stream[k]
          /\ k \in Nat /\ k <= Len(frame)
      BY <2>2, StreamFact
    <3>2. Proper(k)
      BY <3>1 DEF StreamInv
    <3>3. \A a : Resumes(k, a) => Resumes(k, a)'
      BY <2>3, <3>1
    <3> QED
      BY <2>1, <3>1, <3>2, <3>3 DEF Proper
  <2>5. 0 \in Nat /\ 0 <= Len(frame)
    BY StreamFact
  <2> QED
    BY <2>1, <2>3, <2>4, <2>5 DEF StreamInv
<1>3. ASSUME NEW a \in Address, Status(a)
      PROVE  StreamInv' /\ \A b \in Address : Resumes(0, b) => Resumes(0, b)'
  <2>1. PICK d \in Reports(a) : Publish(a, d)
    BY <1>3 DEF Status
  <2>2. UNCHANGED <<kind, frame, connected>>
    BY <1>3 DEF Status
  <2> QED
    BY <2>1, <2>2, PublishKeeps
<1>4. ASSUME NEW a \in Address, Answer(a)
      PROVE  StreamInv' /\ \A b \in Address : Resumes(0, b) => Resumes(0, b)'
  <2>1. PICK d \in Reports(a) : Publish(a, d)
    BY <1>4 DEF Answer
  <2>2. UNCHANGED <<kind, frame, connected>>
    BY <1>4 DEF Answer
  <2> QED
    BY <2>1, <2>2, PublishKeeps
<1> QED
  BY <1>1, <1>2, <1>3, <1>4 DEF Velbusweb

\* A frame arrives.
LEMMA ArriveStreams ==
    ASSUME TypeOK, StreamInv, NEW n \in 1 .. MaxFrame, Arrive(n)
    PROVE  StreamInv' /\ \A a \in Address : Resumes(0, a) => Resumes(0, a)'
<1>1. /\ frame = <<>> /\ n \in Nat /\ n >= 1 /\ n <= Len(wire)
      /\ frame' = SubSeq(wire, 1, n) /\ wire' = SubSeq(wire, n + 1, Len(wire))
      /\ UNCHANGED <<kind, server, connected>>
  BY BoundAssumption DEF Arrive, Idle
<1>2. wire \in Seq(Sent) /\ Len(wire) \in Nat
  BY StreamFact
<1>3. /\ frame' \in Seq(Sent) /\ Len(frame') = n
      /\ \A k \in 1 .. n : frame'[k] = wire[k]
  BY <1>1, <1>2
<1>4. /\ wire' \in Seq(Sent) /\ Len(wire') = Len(wire) - n
      /\ \A k \in 1 .. Len(wire) - n : wire'[k] = wire[n + k]
  BY <1>1, <1>2
<1>5. /\ Len(Stream') = n + (Len(wire) - n)
      /\ \A k \in 1 .. n : Stream'[k] = frame'[k]
      /\ \A k \in n + 1 .. n + (Len(wire) - n) : Stream'[k] = wire'[k - n]
  <2>1. Stream' = frame' \o wire'
    BY DEF Stream
  <2>2. /\ Len(frame' \o wire') = Len(frame') + Len(wire')
        /\ \A k \in 1 .. Len(frame') : (frame' \o wire')[k] = frame'[k]
        /\ \A k \in Len(frame') + 1 .. Len(frame') + Len(wire') :
              (frame' \o wire')[k] = wire'[k - Len(frame')]
    BY <1>3, <1>4, AppendedFact
  <2> QED
    BY <1>3, <1>4, <2>1, <2>2
<1>6. Len(Stream) = Len(wire) /\ \A k \in 1 .. Len(wire) : Stream[k] = wire[k]
  <2>1. Len(frame) = 0
    BY <1>1
  <2>2. \A k \in 1 .. Len(wire) : Stream[0 + k] = wire[k] /\ 0 + k = k
    BY <1>2, <2>1, StreamFact
  <2> QED
    BY <1>2, <2>1, <2>2, StreamFact
<1>7. ASSUME NEW k \in 1 .. Len(Stream') PROVE Stream'[k] = Stream[k + 0]
  <2>1. CASE k <= n
    BY <1>1, <1>2, <1>3, <1>5, <1>6, <2>1
  <2>2. CASE ~(k <= n)
    <3>1. k \in n + 1 .. n + (Len(wire) - n) /\ k - n \in 1 .. Len(wire) - n
          /\ n + (k - n) = k /\ k \in 1 .. Len(wire)
      BY <1>1, <1>2, <1>5, <2>2
    <3> QED
      BY <1>4, <1>5, <1>6, <3>1
  <2> QED
    BY <2>1, <2>2
<1>8. Len(Stream') \in Nat /\ Len(Stream) = Len(Stream') + 0
  BY <1>1, <1>2, <1>5, <1>6
<1>9. ~connected => wire' = <<>>
  BY <1>1, <1>2 DEF StreamInv
<1>10. StreamInv' /\ \A k \in Nat, a \in Address : Resumes(k, a)' <=> Resumes(k + 0, a)
  BY <1>1, <1>7, <1>8, <1>9, ShiftKeeps
<1> QED
  BY <1>10

\* One message of the frame is handled, or the frame is dropped.
LEMMA HandledStreams ==
    ASSUME TypeOK, StreamInv, frame # <<>>, frame' \in {<<>>, Tail(frame)},
           UNCHANGED <<kind, server, connected, wire>>
    PROVE  /\ StreamInv' /\ Stream[1] = Head(frame) /\ 1 \in 1 .. Len(Stream)
           /\ frame' = Tail(frame) => \A a \in Address : Resumes(0, a)' <=> Resumes(1, a)
<1>1. /\ frame \in Seq(Sent) /\ wire \in Seq(Sent) /\ Len(frame) \in Nat
      /\ Len(wire) \in Nat /\ Len(frame) >= 1 /\ Head(frame) = frame[1]
  <2>1. frame \in Seq(Sent) /\ wire \in Seq(Sent)
    BY StreamFact
  <2> QED
    BY <2>1
<1>2. PICK n \in {1, Len(frame)} :
         /\ frame' \in Seq(Sent) /\ Len(frame') = Len(frame) - n
         /\ \A k \in 1 .. Len(frame) - n : frame'[k] = frame[k + n]
         /\ frame' = Tail(frame) => n = 1
  <2>1. CASE frame' = Tail(frame)
    BY <1>1, <2>1
  <2>2. CASE frame' = <<>> /\ frame' # Tail(frame)
    <3>1. /\ frame' \in Seq(Sent) /\ Len(frame') = Len(frame) - Len(frame)
          /\ 1 .. Len(frame) - Len(frame) = {}
      BY <1>1, <2>2
    <3> QED
      BY <2>2, <3>1
  <2> QED
    BY <2>1, <2>2
<1>3. /\ Len(Stream') = (Len(frame) - n) + Len(wire)
      /\ \A k \in 1 .. Len(frame) - n : Stream'[k] = frame'[k]
      /\ \A k \in (Len(frame) - n) + 1 .. (Len(frame) - n) + Len(wire) :
            Stream'[k] = wire[k - (Len(frame) - n)]
  <2>1. Stream' = frame' \o wire
    BY DEF Stream
  <2>2. /\ Len(frame' \o wire) = Len(frame') + Len(wire)
        /\ \A k \in 1 .. Len(frame') : (frame' \o wire)[k] = frame'[k]
        /\ \A k \in Len(frame') + 1 .. Len(frame') + Len(wire) :
              (frame' \o wire)[k] = wire[k - Len(frame')]
    BY <1>1, <1>2, AppendedFact
  <2> QED
    BY <1>2, <2>1, <2>2
<1>4. n \in Nat /\ n >= 1 /\ n <= Len(frame)
  BY <1>1, <1>2
<1>5. ASSUME NEW k \in 1 .. Len(Stream') PROVE Stream'[k] = Stream[k + n]
  <2>1. CASE k <= Len(frame) - n
    BY <1>1, <1>2, <1>3, <1>4, <2>1, StreamFact
  <2>2. CASE ~(k <= Len(frame) - n)
    <3>1. /\ k \in (Len(frame) - n) + 1 .. (Len(frame) - n) + Len(wire)
          /\ k + n \in Len(frame) + 1 .. Len(Stream)
          /\ (k + n) - Len(frame) = k - (Len(frame) - n)
      BY <1>1, <1>3, <1>4, <2>2, StreamFact
    <3> QED
      BY <1>3, <3>1, StreamFact
  <2> QED
    BY <2>1, <2>2
<1>6. Len(Stream') \in Nat /\ Len(Stream) = Len(Stream') + n
  BY <1>1, <1>3, <1>4, StreamFact
<1>7. ~connected => wire' = <<>>
  BY DEF StreamInv
<1>8. StreamInv' /\ \A k \in Nat, a \in Address : Resumes(k, a)' <=> Resumes(k + n, a)
  BY <1>4, <1>5, <1>6, <1>7, ShiftKeeps
<1>9. frame' = Tail(frame) => \A a \in Address : Resumes(0, a)' <=> Resumes(1, a)
  BY <1>2, <1>8
<1>10. Stream[1] = Head(frame) /\ 1 \in 1 .. Len(Stream)
  BY <1>1, StreamFact
<1> QED
  BY <1>8, <1>9, <1>10
-----------------------------------------------------------------------------
\* While nothing else changes, nothing that follows depends on the messages.
LEMMA SameIcons ==
    ASSUME FreshInv, StreamInv', UNCHANGED <<kind, generation, state, popover, text, interval>>,
           \A a \in Address : Resumes(0, a) => Resumes(0, a)'
    PROVE  FreshInv'
<1>1. HalfKnown'
  BY DEF FreshInv, HalfKnown
<1>2. Readable' /\ PopoverFresh'
  BY DEF FreshInv, Readable, PopoverFresh, Read, Complete
<1> QED
  BY <1>1, <1>2 DEF FreshInv

\* New icons have no popover yet, and none of the old changes.
LEMMA NewFresh ==
    ASSUME TypeOK, FreshInv, NewState
    PROVE  FreshInv'
<1> DEFINE m == Head(frame)
<1>1. /\ frame # <<>> /\ m.changetype = "new" /\ generation' = generation + 1
      /\ state' = [state EXCEPT ![generation + 1] = m.value]
      /\ frame' = Tail(frame)
      /\ UNCHANGED <<kind, server, connected, wire, popover, text, interval>>
  BY DEF NewState, channel, gui
<1>2. StreamInv' /\ Stream[1] = m /\ 1 \in 1 .. Len(Stream)
  BY <1>1, HandledStreams DEF FreshInv
<1>3. AllWhole(kind, m.value)
  BY <1>1, <1>2 DEF FreshInv, StreamInv, Proper
<1> HIDE DEF m
<1>4. generation \in Nat /\ state \in [Generation -> [Address -> Data]]
  BY DEF TypeOK
<1>5. HalfKnown'
  <2> SUFFICES ASSUME NEW a \in Address, generation' \in Generation, kind[a] = "temp",
                      state'[generation'][a] = [lead |-> "off", detail |-> None]
               PROVE  FALSE
    BY <1>1 DEF HalfKnown
  <2>1. m.value[a] = [lead |-> "off", detail |-> None]
    BY <1>1, <1>4
  <2>2. Whole("temp", m.value[a])
    BY <1>3 DEF AllWhole
  <2>3. [lead |-> "off", detail |-> None] # Nothing
    <3>1. [lead |-> "off", detail |-> None].lead = "off" /\ Nothing.lead = None
      BY DEF Nothing
    <3> QED
      BY <3>1, NoneAssumption
  <2> QED
    BY <2>1, <2>2, <2>3 DEF Whole, HasDetail
<1>6. ASSUME NEW i \in Icon
      PROVE  /\ i[2] > generation' => popover'[i] = "none"
             /\ i[2] > generation => popover'[i] = "none"
             /\ i[2] <= generation => Read(i)' = Read(i)
  <2>1. i[2] \in Generation /\ i[2] \in Nat
    BY DEF Icon, Generation
  <2>2. i[2] <= generation => state'[i[2]] = state[i[2]]
    BY <1>1, <1>4, <2>1
  <2>3. i[2] > generation => popover[i] = "none"
    BY DEF FreshInv, Readable
  <2> QED
    BY <1>1, <1>4, <2>1, <2>2, <2>3 DEF Read
<1>7. \A i \in Icon : i[2] \in Nat
  BY DEF Icon, Generation
<1>8. \A i \in Icon : i[2] > generation \/ i[2] <= generation
  BY <1>4, <1>7
<1>9. Readable'
  <2> SUFFICES ASSUME NEW i \in Icon
               PROVE  /\ i[2] > generation' => popover'[i] = "none"
                      /\ popover'[i] = "shown" /\ Read(i)'.detail = None =>
                            /\ kind[i[1]] \notin {"relay", "blind"}
                            /\ kind[i[1]] = "temp" => Read(i)'.lead = "off"
                      /\ kind[i[1]] = "temp" /\ i \in interval /\ Complete(i)' =>
                            Read(i)' # Nothing
    BY <1>1 DEF Readable
  <2>1. CASE i[2] > generation
    BY <1>6, <2>1 DEF Complete
  <2>2. CASE i[2] <= generation
    BY <1>1, <1>6, <2>2 DEF FreshInv, Readable, Complete
  <2> QED
    BY <1>8, <2>1, <2>2
<1>10. PopoverFresh'
  <2> SUFFICES ASSUME NEW i \in Icon, popover'[i] = "shown" PROVE text'[i] = Read(i)'
    BY DEF PopoverFresh
  <2>1. i[2] <= generation
    BY <1>6, <1>8
  <2> QED
    BY <1>1, <1>6, <2>1 DEF FreshInv, PopoverFresh
<1> QED
  BY <1>2, <1>5, <1>9, <1>10 DEF FreshInv

\* An update of the icon that shows the control.
LEMMA UpdateFresh ==
    ASSUME TypeOK, FreshInv, UpdateState
    PROVE  FreshInv'
<1> DEFINE m == Head(frame)
           old == state[generation][m.addr]
           d == [old EXCEPT ![m.key] = m.value]
           k == kind[m.addr]
<1>i. PICK i : i = <<m.addr, generation>>
  OBVIOUS
<1>1. /\ frame # <<>> /\ m.changetype = "update"
      /\ state' = [state EXCEPT ![generation][m.addr] = d]
      /\ update(i, k, d)
      /\ frame' = IF Throws(k, Displayed(i), d) THEN <<>> ELSE Tail(frame)
      /\ UNCHANGED <<kind, server, connected, wire, generation>>
  BY <1>i DEF UpdateState, channel
<1>2. frame' \in {<<>>, Tail(frame)}
  BY <1>1
<1>3. /\ StreamInv' /\ Stream[1] = m /\ 1 \in 1 .. Len(Stream)
      /\ frame' = Tail(frame) => \A a \in Address : Resumes(0, a)' <=> Resumes(1, a)
  BY <1>1, <1>2, HandledStreams DEF FreshInv
<1>4. /\ m \in Update /\ m.addr \in Address /\ m.key \in {"lead", "detail"}
  BY <1>1, FrameTypes DEF Update
<1>5. /\ m.value # None
      /\ m.key = "lead" /\ HasDetail(k) => Resumes(1, m.addr)
  BY <1>1, <1>3 DEF FreshInv, StreamInv, Proper
<1>6. /\ generation \in Nat /\ state \in [Generation -> [Address -> Data]]
      /\ popover \in [Icon -> {"none", "bare", "loading", "shown"}]
      /\ text \in [Icon -> Data]
  BY DEF TypeOK
\* What the step shows of the control.
<1>7. ASSUME generation \in Generation
      PROVE  /\ i \in Icon /\ old \in Data /\ d \in Data /\ Read(i) = old /\ Read(i)' = d
             /\ state'[generation][m.addr] = d
             /\ d.lead = IF m.key = "lead" THEN m.value ELSE old.lead
             /\ d.detail = IF m.key = "detail" THEN m.value ELSE old.detail
  <2>1. i \in Icon
    BY <1>4, <1>7, <1>i DEF Icon
  <2>2. old \in Data
    BY <1>4, <1>6, <1>7
  <2>3. d \in Data
    BY <1>4, <2>2, Assigned
  <2>4. /\ d.lead = IF m.key = "lead" THEN m.value ELSE old.lead
        /\ d.detail = IF m.key = "detail" THEN m.value ELSE old.detail
    BY <1>4, <2>2 DEF Data
  <2> HIDE DEF d
  <2>5. state'[generation][m.addr] = d
    BY <1>1, <1>4, <1>6, <1>7
  <2> QED
    BY <1>1, <1>i, <2>1, <2>2, <2>3, <2>4, <2>5 DEF Read
<1> HIDE DEF d
<1>8. ASSUME NEW j \in Icon, j # i
      PROVE  /\ Read(j)' = Read(j) /\ popover'[j] = popover[j] /\ text'[j] = text[j]
             /\ j \in interval' <=> j \in interval
  <2>1. j[1] \in Address /\ j[2] \in Generation /\ j = <<j[1], j[2]>>
    BY DEF Icon
  <2>2. j[1] # m.addr \/ j[2] # generation
    BY <1>8, <1>i, <2>1
  <2>3. Read(j)' = Read(j)
    <3>1. state'[j[2]][j[1]] = state[j[2]][j[1]]
      BY <1>1, <1>6, <2>1, <2>2
    <3> QED
      BY <3>1 DEF Read
  <2>4. popover'[j] = popover[j] /\ text'[j] = text[j]
    BY <1>1, <1>6, <1>8 DEF update, Fill
  <2>5. j \in interval' <=> j \in interval
    BY <1>1, <1>8 DEF update, Interval
  <2> QED
    BY <2>3, <2>4, <2>5
\* A popover that is filled in does not throw.
<1>9. ASSUME generation \in Generation, popover[i] = "shown" PROVE ~Throws(k, TRUE, d)
  <2> SUFFICES ASSUME d.detail = None, ReadsDetail(k, d.lead) \/ (k = "blind" /\ d.lead = "off")
               PROVE  FALSE
    BY DEF Throws
  <2>1. m.key = "lead" /\ old.detail = None
    BY <1>4, <1>5, <1>7, <1>9
  <2>2. k \notin {"relay", "blind"} /\ (k = "temp" => old.lead = "off")
    BY <1>7, <1>9, <1>i, <2>1 DEF FreshInv, Readable
  <2>3. k = "temp" /\ old.lead = "off"
    BY <2>2 DEF ReadsDetail
  <2>4. old = [lead |-> "off", detail |-> None]
    BY <1>7, <1>9, <2>1, <2>3 DEF Data
  <2>5. Resumes(0, m.addr)
    BY <1>4, <1>9, <2>3, <2>4 DEF FreshInv, HalfKnown
  <2>6. Stream[0 + 1] = m /\ 0 < Len(Stream)
    BY <1>3
  <2>7. m.changetype = "new" \/ m.key = "detail"
    BY <2>5, <2>6 DEF Resumes
  <2> QED
    BY <1>1, <2>1, <2>7
\* What is shown afterwards of this icon.
<1>10. ASSUME generation \in Generation
       PROVE  /\ popover'[i] = "shown" => text'[i] = d /\ ~Throws(k, TRUE, d)
              /\ d # Nothing
              /\ d.detail = None => d.lead # None
  <2>1. i \in Icon /\ d \in Data
    BY <1>7, <1>10
  <2>2. ASSUME popover'[i] = "shown" PROVE text'[i] = d /\ ~Throws(k, TRUE, d)
    <3>1. CASE ~Throws(k, TRUE, d) /\ Displayed(i)
      BY <1>1, <1>6, <2>1, <2>2, <3>1 DEF update, Fill
    <3>2. CASE Throws(k, TRUE, d) \/ ~Displayed(i)
      <4>1. popover' = popover
        BY <1>1, <3>2 DEF update
      <4>2. Displayed(i) /\ popover[i] = "shown"
        BY <2>2, <4>1 DEF Displayed
      <4>3. ~Throws(k, TRUE, d)
        BY <1>9, <1>10, <4>2
      <4> QED
        BY <3>2, <4>2, <4>3
    <3> QED
      BY <3>1, <3>2
  <2>3. d # Nothing
    BY <1>4, <1>5, <1>7, <1>10 DEF Nothing
  <2>4. d.detail = None => d.lead # None
    BY <1>4, <1>5, <1>7, <1>10
  <2> QED
    BY <2>2, <2>3, <2>4
<1>11. PopoverFresh'
  <2> SUFFICES ASSUME NEW j \in Icon, popover'[j] = "shown" PROVE text'[j] = Read(j)'
    BY DEF PopoverFresh
  <2>1. CASE j = i
    <3>1. generation \in Generation
      BY <1>i, <2>1 DEF Icon
    <3> QED
      BY <1>7, <1>10, <2>1, <3>1
  <2>2. CASE j # i
    <3> QED
      BY <1>8, <2>2 DEF FreshInv, PopoverFresh
  <2> QED
    BY <2>1, <2>2
<1>12. Readable'
  <2> SUFFICES ASSUME NEW j \in Icon
               PROVE  /\ j[2] > generation => popover'[j] = "none"
                      /\ popover'[j] = "shown" /\ Read(j)'.detail = None =>
                            /\ kind[j[1]] \notin {"relay", "blind"}
                            /\ kind[j[1]] = "temp" => Read(j)'.lead = "off"
                      /\ kind[j[1]] = "temp" /\ j \in interval' /\ Complete(j)' =>
                            Read(j)' # Nothing
    BY <1>1 DEF Readable
  <2>1. CASE j = i
    <3>1. generation \in Generation /\ ~(i[2] > generation) /\ kind[i[1]] = k
      BY <1>6, <1>i, <2>1 DEF Icon
    <3>2. /\ Read(i)' = d /\ d \in Data /\ d # Nothing
          /\ popover'[i] = "shown" => ~Throws(k, TRUE, d)
          /\ d.detail = None => d.lead # None
      BY <1>7, <1>10, <3>1
    <3>3. d.lead \in {"off", "on", None}
      BY <3>2 DEF Data, Lead
    <3> QED
      BY <2>1, <3>1, <3>2, <3>3 DEF Throws, ReadsDetail
  <2>2. CASE j # i
    <3> QED
      BY <1>8, <2>2 DEF FreshInv, Readable, Complete
  <2> QED
    BY <2>1, <2>2
<1>13. HalfKnown'
  <2> SUFFICES ASSUME NEW a \in Address, generation \in Generation, kind[a] = "temp",
                      state'[generation][a] = [lead |-> "off", detail |-> None]
               PROVE  Resumes(0, a)'
    BY <1>1 DEF HalfKnown
  <2>1. CASE a = m.addr
    <3>1. d = [lead |-> "off", detail |-> None]
      BY <1>7, <2>1
    <3>2. m.key = "lead" /\ k = "temp"
      BY <1>4, <1>5, <1>7, <2>1, <3>1
    <3>3. ~Throws(k, Displayed(i), d)
      <4>1. d.lead = "off"
        BY <3>1
      <4> QED
        BY <3>2, <4>1 DEF Throws, ReadsDetail
    <3>4. frame' = Tail(frame)
      BY <1>1, <3>3
    <3>5. Resumes(1, m.addr)
      BY <1>5, <3>2 DEF HasDetail
    <3> QED
      BY <1>3, <2>1, <3>4, <3>5
  <2>2. CASE a # m.addr
    <3>1. state[generation][a] = [lead |-> "off", detail |-> None]
      BY <1>1, <1>6, <2>2
    <3>2. Resumes(0, a)
      BY <3>1 DEF FreshInv, HalfKnown
    <3>3. Stream[0 + 1] = m /\ 0 < Len(Stream)
      BY <1>3
    <3> QED
      BY <1>1, <2>2, <3>2, <3>3 DEF Resumes
  <2> QED
    BY <2>1, <2>2
<1> QED
  BY <1>3, <1>11, <1>12, <1>13 DEF FreshInv

\* The user and the intervals.
LEMMA UserFresh ==
    ASSUME TypeOK, FreshInv, User \/ \E i \in Icon : Tick(i)
    PROVE  FreshInv'
<1>0. /\ popover \in [Icon -> {"none", "bare", "loading", "shown"}]
      /\ text \in [Icon -> Data] /\ generation \in Nat
      /\ \A i \in Icon : i[2] \in Nat
      /\ \A i \in Icon : Read(i) \in Data
  BY DEF TypeOK, Icon, Generation, Read
<1>1. UNCHANGED <<kind, server, wire, connected, frame, generation, state>>
  BY DEF User, ClickElsewhere, Open, OpenAgain, Tick, channel
<1>2. Stream' = Stream
  BY <1>1 DEF Stream
<1>3. \A n, a : Resumes(n, a)' <=> Resumes(n, a)
  BY <1>1, <1>2 DEF Resumes
<1>4. StreamInv' /\ HalfKnown'
  <2>1. \A n : Proper(n)' <=> Proper(n)
    BY <1>1, <1>2, <1>3 DEF Proper
  <2>2. StreamInv'
    BY <1>1, <1>2, <2>1 DEF FreshInv, StreamInv
  <2>3. HalfKnown'
    BY <1>1, <1>3 DEF FreshInv, HalfKnown
  <2> QED
    BY <2>2, <2>3
<1>5. \A i : Read(i)' = Read(i)
  BY <1>1 DEF Read
\* The icons, one by one.
<1> DEFINE Good(i) ==
        /\ i[2] > generation => popover'[i] = "none"
        /\ popover'[i] = "shown" /\ Read(i).detail = None =>
              /\ kind[i[1]] \notin {"relay", "blind"}
              /\ kind[i[1]] = "temp" => Read(i).lead = "off"
        /\ kind[i[1]] = "temp" /\ i \in interval' /\ Complete(i)' => Read(i) # Nothing
        /\ popover'[i] = "shown" => text'[i] = Read(i)
<1>6. ASSUME NEW i \in Icon, popover'[i] \in {"none", popover[i]}, text'[i] = text[i],
             i \in interval' => i \in interval
      PROVE  Good(i)
  BY <1>6 DEF FreshInv, Readable, PopoverFresh, Complete
<1>7. ASSUME NEW except
      PROVE  \A i \in Icon : Closed(except)[i] \in {"none", popover[i]}
  BY DEF Closed
<1>9. ASSUME NEW i \in Icon, OpenAgain(i) PROVE \A j \in Icon : Good(j)
  <2>1. popover' = Closed({i}) /\ UNCHANGED <<text, interval>>
    BY <1>9 DEF OpenAgain
  <2> HIDE DEF Good
  <2> QED
    BY <1>6, <1>7, <2>1
<1>10. ASSUME NEW i \in Icon, Tick(i) PROVE \A j \in Icon : Good(j)
  <2>1. /\ i \in interval /\ ~Throws(kind[i[1]], TRUE, Read(i))
        /\ Fill(i, Read(i)) /\ UNCHANGED interval
    BY <1>10 DEF Tick
  <2>2. ASSUME NEW j \in Icon, j # i PROVE Good(j)
    <3>1. popover'[j] = popover[j] /\ text'[j] = text[j]
      BY <1>0, <2>1, <2>2 DEF Fill
    <3> HIDE DEF Good
    <3> QED
      BY <1>6, <2>1, <3>1
  <2>3. Good(i)
    <3>1. /\ popover'[i] = IF popover[i] = "loading" THEN "shown" ELSE popover[i]
          /\ text'[i] = IF popover[i] \in {"loading", "shown"} THEN Read(i) ELSE text[i]
      BY <1>0, <2>1 DEF Fill
    <3>2. Complete(i)' <=> Complete(i)
      BY <3>1 DEF Complete
    <3>3. /\ kind[i[1]] = "temp" /\ Complete(i) => Read(i) # Nothing
          /\ i[2] > generation => popover[i] = "none"
      BY <2>1 DEF FreshInv, Readable
    <3>4. Read(i).lead \in {"off", "on", None} /\ Read(i).detail = None =>
             (Read(i) # Nothing => Read(i).lead # None)
      BY <1>0 DEF Data, Nothing
    <3>5. Read(i).lead \in {"off", "on", None}
      BY <1>0 DEF Data, Lead
    <3> QED
      BY <2>1, <3>1, <3>2, <3>3, <3>4, <3>5 DEF Throws, ReadsDetail, Complete
  <2> QED
    BY <2>2, <2>3
<1>11. ASSUME NEW i \in Icon, Open(i) PROVE \A j \in Icon : Good(j)
  <2> DEFINE k == kind[i[1]]
             fails == Throws(k, TRUE, Read(i))
             content == Content(k, fails)
  <2>1. /\ Reachable(i)
        /\ popover' = [Closed({i}) EXCEPT ![i] = content]
        /\ text' = [text EXCEPT ![i] = IF content = "shown" THEN Read(i) ELSE Nothing]
        /\ interval' = Interval(i, k, Read(i))
    BY <1>11 DEF Open
  <2>2. content = "shown" => k = "gate"
    BY DEF Content, HasContent
  <2> HIDE DEF content, fails
  <2>3. ASSUME NEW j \in Icon, j # i PROVE Good(j)
    <3>1. popover'[j] = Closed({i})[j] /\ text'[j] = text[j]
      BY <1>0, <2>1, <2>3 DEF Closed
    <3>2. j \in interval' => j \in interval
      BY <2>1, <2>3 DEF Interval
    <3> HIDE DEF Good
    <3> QED
      BY <1>6, <1>7, <3>1, <3>2
  <2>4. Good(i)
    <3>1. popover'[i] = content
      BY <2>1 DEF Closed
    <3>2. text'[i] = IF content = "shown" THEN Read(i) ELSE Nothing
      BY <1>0, <2>1
    <3>3. ~(i[2] > generation)
      BY <1>0, <2>1 DEF Reachable
    <3>4. k = "temp" /\ i \in interval' => Read(i).lead = "on"
      BY <2>1 DEF Interval, Ticking
    <3>5. Read(i).lead = "on" => Read(i) # Nothing
      BY NoneAssumption DEF Nothing
    <3> QED
      BY <2>2, <3>1, <3>2, <3>3, <3>4, <3>5
  <2> QED
    BY <2>3, <2>4
<1>12. \A j \in Icon : Good(j)
  <2> HIDE DEF Good
  <2>1. CASE ClickElsewhere
    <3>1. popover' = Closed({}) /\ UNCHANGED <<text, interval>>
      BY <2>1 DEF ClickElsewhere
    <3> QED
      BY <1>6, <1>7, <3>1
  <2> QED
    BY <1>9, <1>10, <1>11, <2>1 DEF User
<1>13. Readable' /\ PopoverFresh'
  BY <1>1, <1>5, <1>12 DEF Readable, PopoverFresh
<1> QED
  BY <1>4, <1>13 DEF FreshInv
-----------------------------------------------------------------------------
LEMMA FreshInit == Init => FreshInv
<1> SUFFICES ASSUME Init PROVE FreshInv
  OBVIOUS
<1>1. /\ frame = <<>> /\ wire = <<>> /\ ~connected /\ generation = 0
      /\ server = [a \in Address |-> Nothing]
      /\ popover = [i \in Icon |-> "none"] /\ interval = {}
  BY DEF Init
<1>2. Len(Stream) = 0
  BY <1>1 DEF Stream
<1>3. StreamInv
  BY <1>1, <1>2 DEF StreamInv, AllWhole, Whole
<1>4. HalfKnown
  BY <1>1 DEF HalfKnown, Generation
<1>5. Readable /\ PopoverFresh
  BY <1>1 DEF Readable, PopoverFresh, Complete
<1> QED
  BY <1>3, <1>4, <1>5 DEF FreshInv

LEMMA FreshNext == TypeOK /\ FreshInv /\ [Next]_vars => FreshInv'
<1> SUFFICES ASSUME TypeOK, FreshInv, [Next]_vars PROVE FreshInv'
  OBVIOUS
<1>1. CASE Velbusweb
  <2>1. UNCHANGED <<kind, generation, state, popover, text, interval>>
    BY <1>1 DEF Velbusweb, Connect, Disconnect, Status, Answer, gui
  <2> QED
    BY <1>1, <2>1, VelbuswebStreams, SameIcons DEF FreshInv
<1>2. ASSUME NEW n \in 1 .. MaxFrame, Arrive(n) PROVE FreshInv'
  <2>1. UNCHANGED <<kind, generation, state, popover, text, interval>>
    BY <1>2 DEF Arrive, gui
  <2> QED
    BY <1>2, <2>1, ArriveStreams, SameIcons DEF FreshInv
<1>3. CASE UNCHANGED vars
  <2>1. Stream' = Stream
    BY <1>3 DEF vars, Stream
  <2>2. \A n, a : Resumes(n, a)' <=> Resumes(n, a)
    BY <1>3, <2>1 DEF vars, Resumes
  <2>3. \A n : Proper(n)' <=> Proper(n)
    BY <1>3, <2>1, <2>2 DEF vars, Proper
  <2>4. StreamInv'
    BY <1>3, <2>1, <2>3 DEF vars, FreshInv, StreamInv
  <2> QED
    BY <1>3, <2>2, <2>4, SameIcons DEF vars
<1> QED
  BY <1>1, <1>2, <1>3, NewFresh, UpdateFresh, UserFresh DEF Next, Messages

\* What a popover says is what the page knows of the control, over every frame
\* that an exception cuts short and every reconnection (index.html 72-188).
THEOREM PopoverFreshAlways == Spec => []PopoverFresh
<1>1. FreshInv => PopoverFresh
  BY DEF FreshInv
<1> QED
  BY TypeInit, TypeNext, FreshInit, FreshNext, <1>1, PTL DEF Spec
=============================================================================
