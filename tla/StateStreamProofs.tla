------------------------- MODULE StateStreamProofs -------------------------
(***************************************************************************)
(* What holds of StateStream for any pages, any statuses and any bounds.   *)
(***************************************************************************)
EXTENDS StateStream, TLAPS

Message == NewMessage \cup UpdateMessage

-----------------------------------------------------------------------------
(* Facts about sequences.                                                  *)

LEMMA AppendFacts ==
    ASSUME NEW S, NEW q \in Seq(S), NEW e \in S
    PROVE  /\ Append(q, e) \in Seq(S)
           /\ Len(Append(q, e)) = Len(q) + 1
           /\ Append(q, e)[Len(q) + 1] = e
           /\ \A i \in 1 .. Len(q) : Append(q, e)[i] = q[i]
OBVIOUS

LEMMA TailFacts ==
    ASSUME NEW S, NEW q \in Seq(S), q # <<>>
    PROVE  /\ Tail(q) \in Seq(S) /\ Len(Tail(q)) = Len(q) - 1
           /\ \A i \in 1 .. Len(q) - 1 : Tail(q)[i] = q[i + 1]
           /\ Len(q) \in Nat \ {0} /\ Head(q) = q[1] /\ q[1] \in S
OBVIOUS
-----------------------------------------------------------------------------
(* Type correctness.                                                       *)

LEMMA AssignmentsTyped ==
    /\ OnConnect \in Seq(Assignment) /\ OnClose \in Seq(Assignment)
    /\ \A s \in Status : RelayStatus(s) \in Seq(Assignment)
BY DEF OnConnect, OnClose, RelayStatus, Assignment, Key, Value

LEMMA EventTyped ==
    ASSUME TypeOK, NEW q \in Seq(Assignment), Event(q), socket' \in BOOLEAN
    PROVE  TypeOK'
<1>1. todo' \in Seq(Assignment)
  BY DEF TypeOK, Event
<1> QED
  BY <1>1 DEF TypeOK, Event, page

LEMMA MessagesTyped ==
    ASSUME TypeOK
    PROVE  /\ Dump \in Seq(Message)
           /\ \A a \in Assignment : Update(a) \in Message
<1>1. Len(states) \in Nat
  BY DEF TypeOK
<1>2. [changetype |-> "new", state |-> properities, at |-> Len(states)] \in Message
  BY <1>1 DEF TypeOK, Message, NewMessage
<1>3. Dump \in Seq(Message)
  BY <1>2 DEF Dump
<1>4. \A a \in Assignment : Update(a) \in Message
  BY <1>1 DEF Update, Message, UpdateMessage, Assignment
<1> QED
  BY <1>3, <1>4

LEMMA TypeInit == Init => TypeOK
<1> SUFFICES ASSUME Init PROVE TypeOK
  OBVIOUS
<1>1. Empty \in State
  BY DEF Empty, State, Value
<1>2. states \in Seq(State) /\ Len(states) > 0
  BY <1>1 DEF Init
<1>3. /\ velbus_state \in [Browser -> State]
      /\ queue \in [Browser -> Seq(NewMessage \cup UpdateMessage)]
      /\ todo \in Seq(Assignment)
  BY <1>1 DEF Init
<1>4. /\ conn \in [Browser -> {"none", "open", "closed"}]
      /\ gui \in [Browser -> {"none", "Unknown", "typed"}]
      /\ loaded \in [Browser -> BOOLEAN] /\ seen \in [Browser -> Nat]
  BY DEF Init
<1> QED
  BY <1>1, <1>2, <1>3, <1>4 DEF Init, TypeOK

LEMMA TypeStep ==
    ASSUME TypeOK, [Next]_vars
    PROVE  TypeOK'
<1> USE DEF page, server, counters, Message
<1>1. CASE VelbusConnects \/ VelbusCloses \/ VelbusMessage
  <2>1. CASE VelbusConnects
    BY <2>1, AssignmentsTyped, EventTyped DEF VelbusConnects
  <2>2. CASE VelbusCloses
    BY <2>2, AssignmentsTyped, EventTyped DEF VelbusCloses
  <2>3. CASE VelbusMessage
    BY <2>3, AssignmentsTyped, EventTyped DEF VelbusMessage, TypeOK
  <2> QED
    BY <1>1, <2>1, <2>2, <2>3
<1>2. CASE RunHandler
  <2>1. Head(todo) \in Assignment /\ Tail(todo) \in Seq(Assignment)
    BY <1>2, TailFacts DEF RunHandler, TypeOK
  <2>2. properities' \in State
    BY <1>2, <2>1 DEF RunHandler, set, TypeOK, State, Assignment
  <2>3. states' \in Seq(State) /\ Len(states') > 0
    BY <1>2, <2>2, AppendFacts DEF RunHandler, set, TypeOK
  <2>4. Update(Head(todo)) \in Message
    BY <2>1, MessagesTyped
  <2>5. \A b \in Browser : Append(queue[b], Update(Head(todo))) \in Seq(Message)
    BY <2>4, AppendFacts DEF TypeOK
  <2>6. queue' \in [Browser -> Seq(Message)]
    BY <1>2, <2>5 DEF RunHandler, set, TypeOK
  <2> QED
    BY <1>2, <2>1, <2>2, <2>3, <2>6 DEF RunHandler, TypeOK
<1>3. CASE Restart
  <2>1. Empty \in State
    BY DEF Empty, State, Value
  <2>2. states' \in Seq(State) /\ Len(states') > 0
    BY <1>3, <2>1, AppendFacts DEF Restart, TypeOK
  <2>3. conn' \in [Browser -> {"none", "open", "closed"}]
    BY <1>3 DEF Restart, TypeOK
  <2>4. todo' = <<>> /\ socket' = FALSE /\ restarts' = restarts + 1
    BY <1>3 DEF Restart
  <2>5. properities' \in State /\ UNCHANGED <<queue, page, changes, drops>>
    BY <1>3, <2>1 DEF Restart
  <2>6. socket' \in BOOLEAN
    BY <2>4
  <2>8. todo' \in Seq(Assignment)
    BY <2>4
  <2>7. restarts' \in Nat
    BY <2>4 DEF TypeOK
  <2> QED
    BY <2>2, <2>3, <2>5, <2>6, <2>7, <2>8 DEF TypeOK
<1>4. ASSUME NEW b \in Browser, Connect(b)
      PROVE  TypeOK'
  <2>1. queue' \in [Browser -> Seq(Message)]
    BY <1>4, MessagesTyped DEF Connect, TypeOK
  <2> QED
    BY <1>4, <2>1 DEF Connect, TypeOK
<1>5. ASSUME NEW b \in Browser, ServerCloses(b)
      PROVE  TypeOK'
  BY <1>5 DEF ServerCloses, TypeOK
<1>6. ASSUME NEW b \in Browser, Receive(b)
      PROVE  TypeOK'
  <2> DEFINE m == Head(queue[b])
  <2>1. m \in Message /\ Tail(queue[b]) \in Seq(Message)
    BY <1>6, TailFacts DEF Receive, TypeOK
  <2>2. queue' \in [Browser -> Seq(Message)]
    BY <1>6, <2>1 DEF Receive, TypeOK
  <2>3. m.at \in Nat
    BY <2>1 DEF NewMessage, UpdateMessage
  <2>4. Applied(velbus_state[b], m) \in State
    BY <2>1 DEF Applied, NewMessage, UpdateMessage, TypeOK, State
  <2>5. Constructed(b, m) \in {"none", "Unknown", "typed"}
    BY DEF Constructed, TypeOK
  <2>6. /\ velbus_state' \in [Browser -> State]
        /\ gui' \in [Browser -> {"none", "Unknown", "typed"}]
        /\ seen' \in [Browser -> Nat]
    BY <1>6, <2>3, <2>4, <2>5 DEF Receive, TypeOK
  <2> QED
    BY <1>6, <2>2, <2>6 DEF Receive, TypeOK
<1>7. ASSUME NEW b \in Browser, PageCloses(b)
      PROVE  TypeOK'
  <2>1. queue' \in [Browser -> Seq(Message)]
    BY <1>7 DEF PageCloses, TypeOK
  <2> QED
    BY <1>7, <2>1 DEF PageCloses, TypeOK
<1>8. ASSUME NEW b \in Browser, LoadControls(b)
      PROVE  TypeOK'
  BY <1>8 DEF LoadControls, TypeOK
<1>9. CASE UNCHANGED vars
  BY <1>9 DEF vars, TypeOK
<1> QED
  BY <1>1, <1>2, <1>3, <1>4, <1>5, <1>6, <1>7, <1>8, <1>9 DEF Next, Server, Page
-----------------------------------------------------------------------------
(* The invariant of the stream.                                            *)

LEMMA FollowsInit == Init => StreamInv
<1> SUFFICES ASSUME Init PROVE StreamInv
  OBVIOUS
<1>1. properities = states[Len(states)] /\ Len(states) = 1
  BY DEF Init
<1>2. ASSUME NEW b \in Browser
      PROVE  Follows(b)
  BY <1>1, <1>2 DEF Init, Follows
<1> QED
  BY <1>1, <1>2 DEF StreamInv

\* What an event, the loading of scripts and stuttering leave alone.
LEMMA FollowsQuiet ==
    ASSUME StreamInv,
           UNCHANGED <<properities, states, conn, queue, seen, velbus_state>>
    PROVE  StreamInv'
BY DEF StreamInv, Follows, Stands

\* A message stands for the same state when the history gets longer.
LEMMA StandsLater ==
    ASSUME TypeOK, NEW s \in State, NEW m, Stands(states, m)
    PROVE  Stands(Append(states, s), m)
<1> DEFINE h == Append(states, s)
<1>1. /\ Len(states) \in Nat /\ Len(h) = Len(states) + 1
      /\ \A i \in 1 .. Len(states) : h[i] = states[i]
  BY AppendFacts DEF TypeOK
<1> SUFFICES Stands(h, m)
  OBVIOUS
<1> HIDE DEF h
<1>2. m.at \in 1 .. Len(states) /\ m.at \in 1 .. Len(h) /\ h[m.at] = states[m.at]
  BY <1>1 DEF Stands
<1>3. CASE m.changetype = "update"
  <2>1. m.at > 1 /\ states[m.at] = [states[m.at - 1] EXCEPT ![m.key] = m.value]
    BY <1>3 DEF Stands
  <2>2. h[m.at - 1] = states[m.at - 1]
    BY <1>1, <1>2, <2>1
  <2>3. h[m.at] = [h[m.at - 1] EXCEPT ![m.key] = m.value]
    BY <1>2, <2>1, <2>2, Zenon
  <2> QED
    BY <1>2, <1>3, <2>1, <2>3 DEF Stands
<1>4. CASE m.changetype # "update"
  BY <1>2, <1>4 DEF Stands
<1> QED
  BY <1>3, <1>4

LEMMA FollowsRun ==
    ASSUME TypeOK, StreamInv, RunHandler
    PROVE  StreamInv'
<1> DEFINE a == Head(todo)
           n == Len(states)
           u == Update(a)
<1>1. a \in Assignment
  BY TailFacts DEF RunHandler, TypeOK
<1>2. properities' = [properities EXCEPT ![a.key] = a.value] /\ properities' \in State
  BY <1>1 DEF RunHandler, set, TypeOK, State, Assignment
<1>3. /\ n \in Nat \ {0} /\ states' = Append(states, properities')
      /\ Len(states') = n + 1 /\ states'[n + 1] = properities'
      /\ \A i \in 1 .. n : states'[i] = states[i]
  BY <1>2, AppendFacts DEF RunHandler, set, TypeOK
<1>4. u \in Message /\ u.changetype = "update" /\ u.at = n + 1
      /\ u.key = a.key /\ u.value = a.value
  BY <1>1, MessagesTyped DEF Update
<1>5. Stands(states', u)
  <2>1. states'[n] = properities
    BY <1>3 DEF StreamInv
  <2>2. states'[u.at] = [states'[u.at - 1] EXCEPT ![u.key] = u.value]
    <3>1. u.at - 1 = n
      BY <1>3, <1>4
    <3> QED
      BY <1>2, <1>3, <1>4, <2>1, <3>1
  <2>3. u.at \in 1 .. Len(states') /\ u.at > 1
    BY <1>3, <1>4
  <2> HIDE DEF u
  <2> QED
    BY <1>4, <2>2, <2>3 DEF Stands
<1>6. ASSUME NEW b \in Browser
      PROVE  Follows(b)'
  <2> DEFINE q == queue[b]
  <2>1. Follows(b) /\ q \in Seq(Message) /\ Len(q) \in Nat
    BY <1>6 DEF StreamInv, TypeOK, Message
  <2>2. \A i \in 1 .. Len(q) : Stands(states', q[i])
    <3>1. \A i \in 1 .. Len(q) : Stands(states, q[i])
      BY <2>1 DEF Follows
    <3> QED
      BY <1>2, <1>3, <3>1, StandsLater
  <2>3. UNCHANGED <<conn, seen, velbus_state>>
    BY DEF RunHandler, page
  <2>4. seen[b] \in Nat
    BY <1>6 DEF TypeOK
  <2>5. CASE conn[b] # "open"
    <3>1. queue'[b] = q
      BY <1>6, <2>5 DEF RunHandler, set, TypeOK
    <3> QED
      BY <1>3, <2>1, <2>2, <2>3, <2>4, <2>5, <3>1 DEF Follows
  <2>6. CASE conn[b] = "open"
    <3>1. queue'[b] = Append(q, u)
      BY <1>6, <2>6 DEF RunHandler, set, TypeOK
    <3>2. /\ Len(queue'[b]) = Len(q) + 1 /\ queue'[b][Len(q) + 1] = u
          /\ \A i \in 1 .. Len(q) : queue'[b][i] = q[i]
          /\ queue'[b] # <<>>
      <4> HIDE DEF u, q
      <4>1. /\ Len(Append(q, u)) = Len(q) + 1 /\ Append(q, u)[Len(q) + 1] = u
            /\ \A i \in 1 .. Len(q) : Append(q, u)[i] = q[i]
        BY <1>4, <2>1, AppendFacts
      <4>2. Append(q, u) # <<>>
        BY <2>1, <4>1
      <4> QED
        BY <3>1, <4>1, <4>2
    <3>3. \A i \in 1 .. Len(queue'[b]) : Stands(states', queue'[b][i])
      BY <1>5, <2>1, <2>2, <3>2
    <3>4. q # <<>> => Len(q) > 0 /\ q[Len(q)].at = n
      BY <2>1, <2>6 DEF Follows
    <3>5. \A i \in 1 .. Len(queue'[b]) : i > 1 =>
            /\ queue'[b][i].changetype = "update"
            /\ queue'[b][i].at = queue'[b][i - 1].at + 1
      <4> SUFFICES ASSUME NEW i \in 2 .. Len(q) + 1
                   PROVE  /\ queue'[b][i].changetype = "update"
                          /\ queue'[b][i].at = queue'[b][i - 1].at + 1
        BY <2>1, <3>2
      <4>1. CASE i <= Len(q)
        <5>1. i \in 1 .. Len(q) /\ i - 1 \in 1 .. Len(q) /\ i > 1
          BY <2>1, <4>1
        <5>2. queue'[b][i] = q[i] /\ queue'[b][i - 1] = q[i - 1]
          BY <3>2, <5>1
        <5>3. q[i].changetype = "update" /\ q[i].at = q[i - 1].at + 1
          BY <2>1, <5>1 DEF Follows
        <5> QED
          BY <5>2, <5>3
      <4>2. CASE i = Len(q) + 1
        <5>1. i - 1 = Len(q) /\ Len(q) \in 1 .. Len(q) /\ q # <<>>
          BY <2>1, <4>2
        <5>2. queue'[b][i] = u /\ queue'[b][i - 1] = q[Len(q)]
          BY <3>2, <4>2, <5>1
        <5> QED
          BY <1>4, <3>4, <5>1, <5>2
      <4> QED
        BY <2>1, <4>1, <4>2
    <3>6. IF queue'[b][1].changetype = "new" THEN seen[b] <= queue'[b][1].at
          ELSE seen[b] = queue'[b][1].at - 1 /\ seen[b] > 0
      <4>1. CASE q = <<>>
        <5>1. queue'[b][1] = u /\ seen[b] = n
          BY <2>1, <2>6, <3>2, <4>1 DEF Follows
        <5> QED
          BY <1>3, <1>4, <5>1
      <4>2. CASE q # <<>>
        <5>1. queue'[b][1] = q[1]
          BY <2>1, <3>2, <3>4, <4>2
        <5> QED
          BY <2>1, <2>6, <4>2, <5>1 DEF Follows
      <4> QED
        BY <4>1, <4>2
    <3>7. seen[b] <= Len(states') /\ (seen[b] > 0 => velbus_state[b] = states'[seen[b]])
      BY <1>3, <2>1, <2>4 DEF Follows
    <3> QED
      BY <1>3, <1>4, <2>3, <2>6, <3>2, <3>3, <3>5, <3>6, <3>7 DEF Follows
  <2> QED
    BY <2>5, <2>6
<1> QED
  BY <1>3, <1>6 DEF StreamInv

LEMMA FollowsRestart ==
    ASSUME TypeOK, StreamInv, Restart
    PROVE  StreamInv'
<1>1. Empty \in State
  BY DEF Empty, State, Value
<1>2. /\ Len(states) \in Nat \ {0} /\ states' = Append(states, Empty)
      /\ Len(states') = Len(states) + 1 /\ states'[Len(states')] = Empty
      /\ \A i \in 1 .. Len(states) : states'[i] = states[i]
  BY <1>1, AppendFacts DEF Restart, TypeOK
<1>3. ASSUME NEW b \in Browser
      PROVE  Follows(b)'
  <2>1. /\ Follows(b) /\ queue[b] \in Seq(Message) /\ Len(queue[b]) \in Nat
        /\ seen[b] \in Nat
    BY <1>3 DEF StreamInv, TypeOK, Message
  <2>2. \A i \in 1 .. Len(queue[b]) : Stands(states', queue[b][i])
    <3>1. \A i \in 1 .. Len(queue[b]) : Stands(states, queue[b][i])
      BY <2>1 DEF Follows
    <3> QED
      BY <1>1, <1>2, <3>1, StandsLater
  <2>3. /\ UNCHANGED <<queue, seen, velbus_state>>
        /\ conn'[b] # "open" /\ (conn'[b] = "none" <=> conn[b] = "none")
    BY <1>3 DEF Restart, page, TypeOK
  <2>4. seen[b] <= Len(states') /\ (seen[b] > 0 => velbus_state[b] = states'[seen[b]])
    BY <1>2, <2>1 DEF Follows
  <2> QED
    BY <2>1, <2>2, <2>3, <2>4 DEF Follows
<1> QED
  BY <1>2, <1>3 DEF StreamInv, Restart

LEMMA FollowsConnect ==
    ASSUME TypeOK, StreamInv, NEW b \in Browser, Connect(b)
    PROVE  StreamInv'
<1>1. /\ UNCHANGED <<properities, states, seen, velbus_state>>
      /\ Len(states) \in Nat \ {0}
  BY DEF Connect, server, page, TypeOK
<1>2. Follows(b)'
  <2>1. conn'[b] = "open" /\ queue'[b] = Dump
    BY DEF Connect, TypeOK
  <2>2. /\ Len(Dump) = 1 /\ Dump # <<>> /\ Dump[1].changetype = "new"
        /\ Dump[1].at = Len(states) /\ Dump[1].state = properities
    BY DEF Dump
  <2>3. Stands(states, Dump[1])
    BY <1>1, <2>2 DEF Stands, StreamInv
  <2> QED
    BY <1>1, <2>1, <2>2, <2>3 DEF Follows, StreamInv
<1>3. ASSUME NEW d \in Browser \ {b}
      PROVE  Follows(d)'
  <2>1. queue'[d] = queue[d] /\ conn'[d] = conn[d]
    BY DEF Connect, TypeOK
  <2> QED
    BY <1>1, <2>1 DEF Follows, StreamInv
<1> QED
  BY <1>1, <1>2, <1>3 DEF StreamInv

LEMMA FollowsClose ==
    ASSUME TypeOK, StreamInv, NEW b \in Browser, ServerCloses(b) \/ PageCloses(b)
    PROVE  StreamInv'
<1>1. UNCHANGED <<properities, states, seen, velbus_state>>
  BY DEF ServerCloses, PageCloses, server, page
<1>2. Follows(b)'
  <2>1. CASE ServerCloses(b)
    BY <1>1, <2>1 DEF ServerCloses, TypeOK, Follows, StreamInv
  <2>2. CASE PageCloses(b)
    <3>1. conn'[b] = "none" /\ queue'[b] = <<>>
      BY <2>2 DEF PageCloses, TypeOK
    <3> QED
      BY <1>1, <3>1 DEF Follows, StreamInv
  <2> QED
    BY <2>1, <2>2
<1>3. ASSUME NEW d \in Browser \ {b}
      PROVE  Follows(d)'
  <2>1. queue'[d] = queue[d] /\ conn'[d] = conn[d]
    BY DEF ServerCloses, PageCloses, TypeOK
  <2> QED
    BY <1>1, <2>1 DEF Follows, StreamInv
<1> QED
  BY <1>1, <1>2, <1>3 DEF StreamInv

\* The page takes the next state of the history, or the one of a dump.
LEMMA ReceiveLooks ==
    ASSUME TypeOK, StreamInv, NEW b \in Browser, Receive(b)
    PROVE  /\ Head(queue[b]).at \in seen[b] .. Len(states)
           /\ Head(queue[b]).at > 0
           /\ Applied(velbus_state[b], Head(queue[b])) = states[Head(queue[b]).at]
<1> DEFINE m == Head(queue[b])
<1>1. /\ queue[b] # <<>> /\ conn[b] # "none" /\ Len(queue[b]) \in Nat \ {0}
      /\ m = queue[b][1] /\ m \in Message
  BY TailFacts DEF Receive, TypeOK, Message
<1>2. Stands(states, m) /\ Follows(b) /\ seen[b] \in Nat
  BY <1>1 DEF StreamInv, Follows, TypeOK
<1>3. IF m.changetype = "new" THEN seen[b] <= m.at
      ELSE seen[b] = m.at - 1 /\ seen[b] > 0
  BY <1>1, <1>2 DEF Follows
<1>4. m.at \in seen[b] .. Len(states) /\ m.at > 0
  BY <1>2, <1>3 DEF Stands
<1>5. CASE m.changetype = "new"
  BY <1>2, <1>4, <1>5 DEF Applied, Stands
<1>6. CASE m.changetype # "new"
  <2>1. m.changetype = "update"
    BY <1>1, <1>6 DEF Message, NewMessage, UpdateMessage
  <2>2. velbus_state[b] = states[m.at - 1]
    BY <1>2, <1>3, <1>6 DEF Follows
  <2>3. states[m.at] = [states[m.at - 1] EXCEPT ![m.key] = m.value]
    BY <1>2, <2>1 DEF Stands
  <2>4. Applied(velbus_state[b], m) = [velbus_state[b] EXCEPT ![m.key] = m.value]
    BY <1>6 DEF Applied
  <2>5. Applied(velbus_state[b], m) = states[m.at]
    BY <2>2, <2>3, <2>4, Zenon
  <2> QED
    BY <1>4, <2>5
<1> QED
  BY <1>5, <1>6

LEMMA FollowsReceive ==
    ASSUME TypeOK, StreamInv, NEW b \in Browser, Receive(b)
    PROVE  StreamInv'
<1> DEFINE q == queue[b]
           m == Head(q)
<1>1. UNCHANGED <<properities, states, conn>>
  BY DEF Receive, server
<1>2. /\ q \in Seq(Message) /\ q # <<>> /\ Len(q) \in Nat \ {0} /\ m = q[1]
      /\ Tail(q) \in Seq(Message) /\ Len(Tail(q)) = Len(q) - 1
      /\ \A i \in 1 .. Len(q) - 1 : Tail(q)[i] = q[i + 1]
  BY TailFacts DEF Receive, TypeOK, Message
<1>3. Follows(b)'
  <2>1. queue'[b] = Tail(q) /\ seen'[b] = m.at /\ conn[b] # "none"
    BY DEF Receive, TypeOK
  <2>2. velbus_state'[b] = states[m.at] /\ m.at \in 1 .. Len(states)
    <3>1. velbus_state'[b] = Applied(velbus_state[b], m)
      BY DEF Receive, TypeOK
    <3>2. seen[b] \in Nat /\ Len(states) \in Nat
      BY DEF TypeOK
    <3>3. m.at \in seen[b] .. Len(states) /\ m.at > 0
      BY ReceiveLooks
    <3>4. m.at \in 1 .. Len(states)
      BY <3>2, <3>3
    <3>5. Applied(velbus_state[b], m) = states[m.at]
      BY ReceiveLooks
    <3> QED
      BY <3>1, <3>4, <3>5, Zenon
  <2>3. Follows(b)
    BY DEF StreamInv
  <2>4. \A i \in 1 .. Len(Tail(q)) :
          /\ Stands(states, Tail(q)[i])
          /\ Tail(q)[i].changetype = "update"
          /\ Tail(q)[i].at = q[i].at + 1
          /\ i > 1 => Tail(q)[i].at = Tail(q)[i - 1].at + 1
    <3> SUFFICES ASSUME NEW i \in 1 .. Len(Tail(q))
                 PROVE  /\ Stands(states, Tail(q)[i])
                        /\ Tail(q)[i].changetype = "update"
                        /\ Tail(q)[i].at = q[i].at + 1
                        /\ i > 1 => Tail(q)[i].at = Tail(q)[i - 1].at + 1
      OBVIOUS
    <3>1. /\ i + 1 \in 1 .. Len(q) /\ i + 1 > 1 /\ (i + 1) - 1 = i
          /\ Tail(q)[i] = q[i + 1] /\ (i > 1 => Tail(q)[i - 1] = q[i])
      BY <1>2
    <3>2. /\ Stands(states, q[i + 1]) /\ q[i + 1].changetype = "update"
          /\ q[i + 1].at = q[(i + 1) - 1].at + 1
      BY <2>3, <3>1 DEF Follows
    <3> QED
      BY <3>1, <3>2
  <2>5. conn[b] = "open" => IF Tail(q) = <<>> THEN m.at = Len(states)
                            ELSE Tail(q)[Len(Tail(q))].at = Len(states)
    <3>1. conn[b] = "open" => q[Len(q)].at = Len(states)
      BY <1>2, <2>3 DEF Follows
    <3>2. CASE Tail(q) = <<>>
      <4>1. Len(<<>>) = 0
        OBVIOUS
      <4>2. Len(q) = 1
        <5>1. Len(q) - 1 = 0
          BY <1>2, <3>2, <4>1, Zenon
        <5> QED
          BY <1>2, <5>1
      <4>3. conn[b] = "open" => m.at = Len(states)
        BY <1>2, <3>1, <4>2, Zenon
      <4> QED
        BY <3>2, <4>3
    <3>3. CASE Tail(q) # <<>>
      <4>1. Len(Tail(q)) \in 1 .. Len(q) - 1 /\ Len(Tail(q)) + 1 = Len(q)
        BY <1>2, <3>3
      <4> QED
        BY <1>2, <3>1, <3>3, <4>1
    <3> QED
      BY <3>2, <3>3
  <2>6. Tail(q) # <<>> => m.at = Tail(q)[1].at - 1 /\ Tail(q)[1].changetype = "update"
    <3>1. Tail(q) # <<>> => 1 \in 1 .. Len(Tail(q))
      BY <1>2
    <3> QED
      BY <1>2, <2>2, <2>4, <3>1
  <2> HIDE DEF q, m
  <2>7. \A i \in 1 .. Len(queue'[b]) :
          /\ Stands(states', queue'[b][i])
          /\ i > 1 => /\ queue'[b][i].changetype = "update"
                      /\ queue'[b][i].at = queue'[b][i - 1].at + 1
    BY <1>1, <2>1, <2>4
  <2>8. queue'[b] # <<>> =>
          /\ queue'[b][1].changetype # "new"
          /\ seen'[b] = queue'[b][1].at - 1 /\ seen'[b] > 0
    BY <2>1, <2>2, <2>6
  <2>9. conn'[b] = "open" => IF queue'[b] = <<>> THEN seen'[b] = Len(states')
                             ELSE queue'[b][Len(queue'[b])].at = Len(states')
    BY <1>1, <2>1, <2>5
  <2>10. /\ seen'[b] <= Len(states') /\ velbus_state'[b] = states'[seen'[b]]
         /\ conn'[b] # "none"
    BY <1>1, <2>1, <2>2
  <2> QED
    BY <2>7, <2>8, <2>9, <2>10 DEF Follows
<1>4. ASSUME NEW d \in Browser \ {b}
      PROVE  Follows(d)'
  <2>1. /\ queue'[d] = queue[d] /\ seen'[d] = seen[d]
        /\ velbus_state'[d] = velbus_state[d]
    BY DEF Receive, TypeOK
  <2> QED
    BY <1>1, <2>1 DEF Follows, StreamInv
<1> QED
  BY <1>1, <1>3, <1>4 DEF StreamInv

LEMMA StreamStep ==
    ASSUME TypeOK, StreamInv, [Next]_vars
    PROVE  StreamInv'
<1>1. CASE VelbusConnects \/ VelbusCloses \/ VelbusMessage
  <2>1. UNCHANGED <<properities, states, conn, queue, seen, velbus_state>>
    BY <1>1 DEF VelbusConnects, VelbusCloses, VelbusMessage, Event, page
  <2> QED
    BY <2>1, FollowsQuiet
<1>2. CASE RunHandler
  BY <1>2, FollowsRun
<1>3. CASE Restart
  BY <1>3, FollowsRestart
<1>4. CASE \E b \in Browser : Connect(b) \/ Receive(b)
  BY <1>4, FollowsConnect, FollowsReceive
<1>5. CASE \E b \in Browser : ServerCloses(b) \/ PageCloses(b)
  BY <1>5, FollowsClose
<1>6. CASE \E b \in Browser : LoadControls(b)
  BY <1>6, FollowsQuiet DEF LoadControls, server
<1>7. CASE UNCHANGED vars
  BY <1>7, FollowsQuiet DEF vars
<1> QED
  BY <1>1, <1>2, <1>3, <1>4, <1>5, <1>6, <1>7 DEF Next, Server, Page
-----------------------------------------------------------------------------
\* The inductive invariant: every message under way stands for a state of the
\* history, and a page shows the one before the first of its messages.
THEOREM StreamInvariant == Spec => [](TypeOK /\ StreamInv)
<1>1. Init => TypeOK /\ StreamInv
  BY TypeInit, FollowsInit
<1>2. TypeOK /\ StreamInv /\ [Next]_vars => (TypeOK /\ StreamInv)'
  BY TypeStep, StreamStep
<1> QED
  BY <1>1, <1>2, PTL DEF Spec

\* Type correctness of the server, the stream and the pages.
THEOREM TypeCorrect == Spec => []TypeOK
BY StreamInvariant, PTL

\* A page that has received everything shows the server's state: dump and
\* subscription leave no update between them, for any number of pages.
THEOREM InSync == Spec => []ReplicaInSync
<1>1. TypeOK /\ StreamInv => ReplicaInSync
  <2> SUFFICES ASSUME TypeOK, StreamInv, NEW b \in Browser,
                      conn[b] = "open", queue[b] = <<>>
               PROVE  velbus_state[b] = properities
    BY DEF ReplicaInSync
  <2>1. seen[b] = Len(states) /\ seen[b] > 0 /\ velbus_state[b] = states[seen[b]]
    BY DEF StreamInv, Follows, TypeOK
  <2> QED
    BY <2>1 DEF StreamInv
<1> QED
  BY <1>1, StreamInvariant, PTL

\* Pages never show a mixture of two states, nor go back to an older one: the
\* stream implements Views.
THEOREM Refinement == Spec => ImplementsViews
<1>1. Init => Pages!Init
  <2> SUFFICES ASSUME Init PROVE Pages!Init
    OBVIOUS
  <2>1. Empty \in State
    BY DEF Empty, State, Value
  <2> QED
    BY <2>1 DEF Init, Pages!Init
<1>2. TypeOK /\ TypeOK' /\ StreamInv /\ [Next]_vars => [Pages!Next]_(Pages!viewVars)
  <2> SUFFICES ASSUME TypeOK, TypeOK', StreamInv, [Next]_vars
               PROVE  Pages!Next \/ UNCHANGED <<states, seen, velbus_state>>
    BY DEF Pages!viewVars
  <2>1. CASE RunHandler \/ Restart
    <3>1. states' = Append(states, properities') /\ UNCHANGED <<seen, velbus_state>>
      BY <2>1 DEF RunHandler, Restart, set, page
    <3>2. properities' \in State
      BY DEF TypeOK
    <3>3. Pages!Change
      BY <3>1, <3>2 DEF Pages!Change
    <3> QED
      BY <3>3 DEF Pages!Next
  <2>2. ASSUME NEW b \in Browser, Receive(b)
        PROVE  Pages!Next
    <3>1. /\ UNCHANGED states
          /\ seen' = [seen EXCEPT ![b] = Head(queue[b]).at]
          /\ velbus_state' = [velbus_state EXCEPT ![b] = states[Head(queue[b]).at]]
      BY <2>2, ReceiveLooks DEF Receive
    <3>2. Pages!Look(b)
      BY <2>2, <3>1, ReceiveLooks DEF Pages!Look
    <3> QED
      BY <3>2 DEF Pages!Next
  <2>3. CASE VelbusConnects \/ VelbusCloses \/ VelbusMessage
    BY <2>3 DEF VelbusConnects, VelbusCloses, VelbusMessage, Event, page
  <2>4. CASE \E b \in Browser : Connect(b) \/ ServerCloses(b) \/ PageCloses(b)
    BY <2>4 DEF Connect, ServerCloses, PageCloses, page
  <2>5. CASE \E b \in Browser : LoadControls(b)
    BY <2>5 DEF LoadControls
  <2>6. CASE UNCHANGED vars
    BY <2>6 DEF vars
  <2> QED
    BY <2>1, <2>2, <2>3, <2>4, <2>5, <2>6 DEF Next, Server, Page
<1> QED
  BY <1>1, <1>2, StreamInvariant, PTL DEF Spec, ImplementsViews, Pages!Spec
-----------------------------------------------------------------------------
(* What a handler has assigned while it runs.                              *)

Told ==
    properities["00.state"] # Undefined =>
        (properities["00.state"] = "online" <=> socket)
Together == properities["status"] = properities["timer"]
Timer(s) == <<[key |-> "timer", value |-> s]>>

\* A handler still has to say that the connection changed, or a status and its
\* timer, or the timer only; what it does not touch is as it should be.
HandlerInv ==
    \/ todo = <<>> /\ Told /\ Together
    \/ todo = OnConnect /\ socket /\ Together
    \/ todo = OnClose /\ ~socket /\ Together
    \/ \E s \in Status : todo = RelayStatus(s) /\ Told
    \/ \E s \in Status : todo = Timer(s) /\ properities["status"] = s /\ Told

LEMMA HandlerQuiet ==
    ASSUME HandlerInv, UNCHANGED <<todo, properities, socket>>
    PROVE  HandlerInv'
BY DEF HandlerInv, Told, Together, OnConnect, OnClose, RelayStatus, Timer

LEMMA OneByOne ==
    /\ \A a : Head(<<a>>) = a /\ Tail(<<a>>) = <<>>
    /\ \A a, b : Head(<<a, b>>) = a /\ Tail(<<a, b>>) = <<b>>
OBVIOUS

LEMMA HandlerLists ==
    /\ Tail(OnConnect) = <<>> /\ Head(OnConnect).key = "00.state"
    /\ Head(OnConnect).value = "online"
    /\ Tail(OnClose) = <<>> /\ Head(OnClose).key = "00.state"
    /\ Head(OnClose).value = "offline"
    /\ \A s : /\ Tail(RelayStatus(s)) = Timer(s)
              /\ Head(RelayStatus(s)).key = "status" /\ Head(RelayStatus(s)).value = s
              /\ Tail(Timer(s)) = <<>>
              /\ Head(Timer(s)).key = "timer" /\ Head(Timer(s)).value = s
BY OneByOne DEF OnConnect, OnClose, RelayStatus, Timer

LEMMA HandlerRuns ==
    ASSUME TypeOK, HandlerInv, RunHandler
    PROVE  HandlerInv'
<1>1. /\ properities' = [properities EXCEPT ![Head(todo).key] = Head(todo).value]
      /\ todo' = Tail(todo) /\ socket' = socket /\ todo # <<>>
  BY DEF RunHandler, set
<1>2. properities \in [Key -> Value]
  BY DEF TypeOK, State
<1>3. CASE todo = OnConnect /\ socket /\ Together
  <2>1. /\ todo' = <<>>
        /\ properities' = [properities EXCEPT !["00.state"] = "online"]
    BY <1>1, <1>3, HandlerLists
  <2> QED
    BY <1>1, <1>2, <1>3, <2>1 DEF HandlerInv, Told, Together, Key
<1>4. CASE todo = OnClose /\ ~socket /\ Together
  <2>1. /\ todo' = <<>>
        /\ properities' = [properities EXCEPT !["00.state"] = "offline"]
    BY <1>1, <1>4, HandlerLists
  <2> QED
    BY <1>1, <1>2, <1>4, <2>1 DEF HandlerInv, Told, Together, Key
<1>5. ASSUME NEW s \in Status, todo = RelayStatus(s), Told
      PROVE  HandlerInv'
  <2>1. /\ todo' = Timer(s)
        /\ properities' = [properities EXCEPT !["status"] = s]
    BY <1>1, <1>5, HandlerLists
  <2>2. properities'["status"] = s /\ Told'
    BY <1>1, <1>2, <1>5, <2>1 DEF Told, Key
  <2> QED
    BY <2>1, <2>2 DEF HandlerInv, Timer
<1>6. ASSUME NEW s \in Status, todo = Timer(s), properities["status"] = s, Told
      PROVE  HandlerInv'
  <2>1. /\ todo' = <<>>
        /\ properities' = [properities EXCEPT !["timer"] = s]
    BY <1>1, <1>6, HandlerLists
  <2>2. Together' /\ Told'
    BY <1>1, <1>2, <1>6, <2>1 DEF Told, Together, Key
  <2> QED
    BY <2>1, <2>2 DEF HandlerInv
<1> QED
  BY <1>1, <1>3, <1>4, <1>5, <1>6 DEF HandlerInv

LEMMA HandlerStep ==
    ASSUME TypeOK, HandlerInv, [Next]_vars
    PROVE  HandlerInv'
<1>1. ASSUME Idle PROVE Told /\ Together /\ todo = <<>>
  BY <1>1 DEF Idle, HandlerInv, OnConnect, OnClose, RelayStatus, Timer
<1>2. \A q \in Seq(Assignment) : todo = <<>> => todo \o q = q
  OBVIOUS
<1>3. CASE VelbusConnects
  <2>1. todo' = OnConnect /\ UNCHANGED properities /\ socket' /\ Together
    BY <1>1, <1>2, <1>3, AssignmentsTyped DEF VelbusConnects, Event
  <2> QED
    BY <2>1 DEF HandlerInv, Together, OnConnect
<1>4. CASE VelbusCloses
  <2>1. todo' = OnClose /\ UNCHANGED properities /\ ~socket' /\ Together
    BY <1>1, <1>2, <1>4, AssignmentsTyped DEF VelbusCloses, Event
  <2> QED
    BY <2>1 DEF HandlerInv, Together, OnClose
<1>5. CASE VelbusMessage
  <2>1. PICK s \in Status : Event(RelayStatus(s))
    BY <1>5 DEF VelbusMessage
  <2>2. todo' = RelayStatus(s) /\ UNCHANGED <<properities, socket>> /\ Told
    BY <1>1, <1>2, <1>5, <2>1, AssignmentsTyped DEF VelbusMessage, Event
  <2> QED
    BY <2>2 DEF HandlerInv, Told, RelayStatus
<1>6. CASE RunHandler
  BY <1>6, HandlerRuns
<1>7. CASE Restart
  <2>1. todo' = <<>> /\ properities' = Empty
    BY <1>7 DEF Restart
  <2> QED
    BY <2>1 DEF HandlerInv, Told, Together, Empty, Key
<1>8. ASSUME NEW b \in Browser, Page(b) PROVE HandlerInv'
  BY <1>8, HandlerQuiet
  DEF Page, Connect, ServerCloses, Receive, PageCloses, LoadControls, server
<1>9. CASE UNCHANGED vars
  BY <1>9, HandlerQuiet DEF vars
<1> QED
  BY <1>3, <1>4, <1>5, <1>6, <1>7, <1>8, <1>9 DEF Next, Server

\* '00.state' tells the truth between handlers, over any number of connections
\* and restarts (velbusweb.js 19-26).
THEOREM ToldTheTruth == Spec => []OnlineTold
<1>1. Init => HandlerInv
  BY DEF Init, HandlerInv, Told, Together, Empty, Key
<1>2. TypeOK /\ HandlerInv /\ [Next]_vars => HandlerInv'
  BY HandlerStep
<1>3. HandlerInv => OnlineTold
  BY DEF HandlerInv, OnlineTold, Idle, Told, OnConnect, OnClose, RelayStatus, Timer
<1> QED
  BY <1>1, <1>2, <1>3, StreamInvariant, PTL DEF Spec

LEMMA WholeStep ==
    ASSUME TypeOK, HandlerInv, DumpsWhole, [Next]_vars
    PROVE  DumpsWhole'
<1> SUFFICES ASSUME NEW b \in Browser, NEW i \in 1 .. Len(queue'[b]),
                    queue'[b][i].changetype = "new"
             PROVE  queue'[b][i].state["status"] = queue'[b][i].state["timer"]
  BY DEF DumpsWhole
<1>1. queue[b] \in Seq(Message)
  BY DEF TypeOK, Message
<1>2. \A j \in 1 .. Len(queue[b]) : queue[b][j].changetype = "new" =>
         queue[b][j].state["status"] = queue[b][j].state["timer"]
  BY DEF DumpsWhole
<1>3. CASE UNCHANGED queue
  BY <1>2, <1>3
<1>4. CASE RunHandler
  <2>1. queue'[b] = queue[b] \/ queue'[b] = Append(queue[b], Update(Head(todo)))
    BY <1>4 DEF RunHandler, set
  <2>2. Update(Head(todo)) \in Message /\ Update(Head(todo)).changetype = "update"
    BY <1>4, MessagesTyped, TailFacts DEF RunHandler, TypeOK, Update
  <2>3. CASE queue'[b] = Append(queue[b], Update(Head(todo)))
    BY <1>1, <1>2, <2>2, <2>3, AppendFacts
  <2> QED
    BY <1>2, <2>1, <2>3
<1>5. ASSUME NEW c \in Browser, Connect(c) \/ Receive(c) \/ PageCloses(c)
      PROVE  queue'[b][i].state["status"] = queue'[b][i].state["timer"]
  <2>1. CASE c # b
    <3>1. queue'[b] = queue[b]
      BY <1>5, <2>1 DEF Connect, Receive, PageCloses, TypeOK
    <3> QED
      BY <1>2, <3>1
  <2>2. CASE c = b /\ Connect(b)
    <3>1. queue'[b] = Dump
      BY <2>2 DEF Connect, TypeOK
    <3>2. Together
      BY <2>2 DEF Connect, Idle, HandlerInv, OnConnect, OnClose, RelayStatus, Timer
    <3>3. i = 1 /\ queue'[b][i].state = properities
      BY <3>1 DEF Dump
    <3> QED
      BY <3>2, <3>3 DEF Together
  <2>3. CASE c = b /\ Receive(b)
    <3>1. queue'[b] = Tail(queue[b]) /\ queue[b] # <<>>
      BY <2>3 DEF Receive, TypeOK
    <3>2. i \in 1 .. Len(queue[b]) - 1 /\ queue'[b][i] = queue[b][i + 1]
      BY <1>1, <3>1, TailFacts
    <3>3. i + 1 \in 1 .. Len(queue[b])
      BY <1>1, <3>2
    <3> QED
      BY <1>2, <3>2, <3>3
  <2>4. CASE c = b /\ PageCloses(b)
    <3>1. queue'[b] = <<>>
      BY <2>4 DEF PageCloses, TypeOK
    <3> QED
      BY <3>1
  <2> QED
    BY <1>5, <2>1, <2>2, <2>3, <2>4
<1>6. CASE VelbusConnects \/ VelbusCloses \/ VelbusMessage \/ Restart
  BY <1>3, <1>6 DEF VelbusConnects, VelbusCloses, VelbusMessage, Event, Restart
<1>7. ASSUME NEW c \in Browser, ServerCloses(c) \/ LoadControls(c)
      PROVE  UNCHANGED queue
  BY <1>7 DEF ServerCloses, LoadControls
<1> QED
  BY <1>3, <1>4, <1>5, <1>6, <1>7 DEF Next, Server, Page, vars

\* No page is ever dumped a status without the timer that belongs to it
\* (velbusweb.js 99, relay.js 109-110).
THEOREM WholeDumps == Spec => []DumpsWhole
<1>1. Init => HandlerInv /\ DumpsWhole
  BY DEF Init, HandlerInv, Told, Together, Empty, Key, DumpsWhole
<1>2. TypeOK /\ HandlerInv /\ DumpsWhole /\ [Next]_vars => (HandlerInv /\ DumpsWhole)'
  BY HandlerStep, WholeStep
<1> QED
  BY <1>1, <1>2, StreamInvariant, PTL DEF Spec
=============================================================================
