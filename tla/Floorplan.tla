------------------------------ MODULE Floorplan ------------------------------
(***************************************************************************)
(* The page of velbusweb: the icons of the floor plan, their popovers, and *)
(* the messages that change them (www/public/index.html 72-188 and         *)
(* www/public/js/controls).  Each control has one icon.                    *)
(*                                                                         *)
(* What a control shows comes from two keys, assigned one after the other  *)
(* by velbusweb: "lead" is the status of a relay or blind, the value of a  *)
(* dimmer, the contact of a gate, the schedule mode of a thermostat;       *)
(* "detail" is the relay's timer, the blind's position, the thermostat's   *)
(* sleep timer.  update() of a popover whose detail is missing throws.     *)
(*                                                                         *)
(* Every "new" message makes a generation of icons.  It means to remove    *)
(* the one before, but looks for "div.control", a class that no icon has:  *)
(* old icons stay in the page, with their popovers, timers and handlers,   *)
(* and with the state object that the new one replaced.                    *)
(***************************************************************************)
EXTENDS Integers, Sequences

CONSTANTS
    Address,        \* controls of config.js
    Site,           \* choices of a kind for each
    None,           \* undefined
    MaxFrame,       \* messages that one SockJS frame may carry
    MaxWire,        \* bound: messages on their way
    MaxChanges,     \* bound: statuses sent by modules
    MaxGenerations  \* bound: connections, each of which sends one "new"

Kind == {"relay", "blind", "temp", "dimmer", "gate"}
Lead == {"off", "on", None}
Detail == {"zero", "runs", None}
Data == [lead : Lead, detail : Detail]
Generation == 1 .. MaxGenerations
Icon == Address \X Generation

ASSUME NoneAssumption == None \notin {"off", "on", "zero", "runs"}
ASSUME SiteAssumption == Site \subseteq [Address -> Kind]
ASSUME BoundAssumption ==
    /\ MaxFrame \in Nat \ {0} /\ MaxWire \in Nat
    /\ MaxChanges \in Nat /\ MaxGenerations \in Nat

New == [changetype : {"new"}, value : [Address -> Data]]
Update ==
    [changetype : {"update"}, addr : Address, key : {"lead"}, value : Lead]
        \cup
    [changetype : {"update"}, addr : Address, key : {"detail"}, value : Detail]

VARIABLES
    kind,           \* the types of config.js
    server,         \* velbusweb's state
    wire,           \* messages that were sent and not yet received
    connected,
    frame,          \* messages of the frame being handled
    generation,
    state,          \* state[g]: the object that the icons of generation g read
    popover,        \* "none", "bare" (update threw), "loading", "shown"
    text,           \* the data that a shown popover was last filled with
    interval,       \* icons whose interval runs
    hideme,         \* icons with a click handler on the body
    that,           \* the global variable of blind.js
    asked,          \* controls with a GET under way
    changes, connections

channel == <<server, wire, connected, asked>>
gui == <<popover, text, interval, hideme, that>>
vars == <<kind, server, wire, connected, frame, generation, state, popover,
          text, interval, hideme, that, asked, changes, connections>>
counters == <<changes, connections>>

Nothing == [lead |-> None, detail |-> None]

Init ==
    /\ kind \in Site
    /\ server = [a \in Address |-> Nothing]
    /\ wire = <<>> /\ connected = FALSE /\ frame = <<>>
    /\ generation = 0
    /\ state = [g \in Generation |-> [a \in Address |-> Nothing]]
    /\ popover = [i \in Icon |-> "none"]
    /\ text = [i \in Icon |-> Nothing]
    /\ interval = {} /\ hideme = {}
    /\ that = None
    /\ asked = {} /\ changes = 0 /\ connections = 0
-----------------------------------------------------------------------------
(* velbusweb.                                                              *)

HasDetail(k) == k \in {"relay", "blind", "temp"}

Updates(a, d) ==
    LET one(key) == [changetype |-> "update", addr |-> a, key |-> key,
                     value |-> d[key]]
    IN IF HasDetail(kind[a]) THEN <<one("lead"), one("detail")>>
       ELSE <<one("lead")>>

\* add_watchers of www/controls: both keys are assigned by one handler.
Publish(a, d) ==
    /\ Len(wire) + Len(Updates(a, d)) <= MaxWire
    /\ server' = [server EXCEPT ![a] = d]
    /\ wire' = IF connected THEN wire \o Updates(a, d) ELSE wire

\* Only of a relay's detail is it told apart whether a timer runs.
Reports(a) ==
    {d \in Data : /\ d.lead # None
                  /\ d.detail = None <=> ~HasDetail(kind[a])
                  /\ d.detail = "runs" => kind[a] = "relay"}

Status(a) ==
    /\ changes < MaxChanges /\ changes' = changes + 1
    /\ \E d \in Reports(a) : Publish(a, d)
    /\ UNCHANGED <<kind, connected, frame, generation, state, gui, asked, connections>>

\* The module answers a GET of the page: as before, or with a first status.
Answer(a) ==
    /\ a \in asked /\ asked' = asked \ {a}
    /\ \E d \in Reports(a) :
          /\ server[a] # Nothing => d = server[a]
          /\ Publish(a, d)
    /\ UNCHANGED <<kind, connected, frame, generation, state, gui, counters>>

Connect ==
    /\ ~connected /\ connected' = TRUE
    /\ connections < MaxGenerations /\ connections' = connections + 1
    /\ wire' = <<[changetype |-> "new", value |-> server]>>
    /\ UNCHANGED <<kind, server, frame, generation, state, gui, asked, changes>>

Disconnect ==
    /\ connected /\ connected' = FALSE
    /\ connections < MaxGenerations
    /\ wire' = <<>>
    /\ UNCHANGED <<kind, server, frame, generation, state, gui, asked, counters>>
-----------------------------------------------------------------------------
(* What the page does with a message.                                      *)

\* The page runs one handler at a time.
Idle == frame = <<>>

Arrive(n) ==
    /\ Idle /\ n <= MaxFrame /\ n <= Len(wire)
    /\ frame' = SubSeq(wire, 1, n)
    /\ wire' = SubSeq(wire, n + 1, Len(wire))
    /\ UNCHANGED <<kind, server, connected, generation, state, gui, asked, counters>>

ReadsDetail(k, lead) == k \in {"relay", "blind"} \/ (k = "temp" /\ lead = "on")

\* update() throws on a detail that is missing: when it fills in a popover,
\* and for the icon of a blind that has stopped.
Throws(k, displayed, d) ==
    /\ d.detail = None
    /\ \/ displayed /\ ReadsDetail(k, d.lead)
       \/ k = "blind" /\ d.lead = "off"

\* The popover has a clock that an interval moves.
Ticking(k, d) ==
    \/ k = "relay" /\ d.detail = "runs"
    \/ k = "blind" /\ d.lead # "off"
    \/ k = "temp" /\ d.lead = "on"

Displayed(i) == popover[i] # "none"

\* The icons with content in their popover other than a name.
HasContent(k) == k # "gate"

\* A relay without timer throws before its interval is set; a blind that
\* throws in its first lines leaves the interval alone.
Interval(i, k, d) ==
    IF k = "blind" /\ Throws(k, FALSE, d) THEN interval
    ELSE IF Ticking(k, d) THEN interval \cup {i} ELSE interval \ {i}

\* Mutant: a popover is filled in once.
FillsOnce(i, d) ==
    /\ popover' = [popover EXCEPT ![i] = IF @ = "loading" THEN "shown" ELSE @]
    /\ text' = IF popover[i] = "loading" THEN [text EXCEPT ![i] = d] ELSE text

Fill(i, d) ==
    /\ popover' = [popover EXCEPT ![i] = IF @ = "loading" THEN "shown" ELSE @]
    /\ text' = IF popover[i] \in {"loading", "shown"}
               THEN [text EXCEPT ![i] = d] ELSE text

\* Relay.update and its siblings.
update(i, k, d) ==
    IF ~Displayed(i) THEN UNCHANGED <<popover, text, interval>>
    ELSE /\ interval' = Interval(i, k, d)
         /\ IF Throws(k, TRUE, d) THEN UNCHANGED <<popover, text>>
            ELSE Fill(i, d)

\* onSockJSmessage, "new".  All of a control is undefined, or nothing of it:
\* the constructors do not throw.
NewState ==
    /\ frame # <<>> /\ Head(frame).changetype = "new"
    /\ generation' = generation + 1
    /\ state' = [state EXCEPT ![generation + 1] = Head(frame).value]
    /\ frame' = Tail(frame)
    /\ UNCHANGED <<kind, channel, gui, counters>>

\* onSockJSmessage, "update".  What update() throws leaves _didMessage, and
\* with it the messages of the frame that were still to come.
UpdateState ==
    /\ frame # <<>> /\ Head(frame).changetype = "update"
    /\ LET m == Head(frame)
           i == <<m.addr, generation>>
           d == [state[generation][m.addr] EXCEPT ![m.key] = m.value]
       IN /\ state' = [state EXCEPT ![generation][m.addr] = d]
          /\ update(i, kind[m.addr], d)
          /\ frame' = IF Throws(kind[m.addr], Displayed(i), d) THEN <<>>
                      ELSE Tail(frame)
    /\ UNCHANGED <<kind, channel, generation, hideme, that, counters>>

Read(i) == state[i[2]][i[1]]

\* update_state, every half second or second.
Tick(i) ==
    /\ Idle /\ i \in interval
    /\ ~Throws(kind[i[1]], TRUE, Read(i))
    /\ Fill(i, Read(i))
    /\ UNCHANGED <<kind, channel, frame, generation, state, interval, hideme,
                   that, counters>>
-----------------------------------------------------------------------------
(* What the user does.                                                     *)

\* An old icon lies under the new one; its popover lies above.
Reachable(i) == i[2] <= generation /\ (i[2] = generation \/ Displayed(i))

\* Mutant: a popover stays when the user clicks on another icon.
ClosesNone(except) == popover

\* The click reaches the body, where each hideme hides its own icon unless
\* the click was inside it, and unbinds itself.  Intervals run on.
Closed(except) ==
    [i \in Icon |-> IF i \in hideme \ except THEN "none" ELSE popover[i]]

\* What show() puts into a new popover, unless update() has thrown before.
Content(k, fails) ==
    IF fails THEN "bare" ELSE IF HasContent(k) THEN "loading" ELSE "shown"

\* Blind.show: no "var", so that all blinds share one "that".
Shared(i, k, fails) == IF k = "blind" /\ ~fails THEN i ELSE that

\* The GET, whose answer comes by the event stream.
Asks(i, k, fails) == IF fails \/ ~HasContent(k) THEN asked ELSE asked \cup {i[1]}

\* A click on an icon without popover: show() appends one and calls update().
\* When that throws, neither the content nor the GET nor hideme follow.
Open(i) ==
    LET k == kind[i[1]]
        fails == Throws(k, TRUE, Read(i))
        content == Content(k, fails)
    IN /\ Idle /\ Reachable(i) /\ ~Displayed(i)
       /\ popover' = [Closed({i}) EXCEPT ![i] = content]
       /\ text' = [text EXCEPT ![i] = IF content = "shown" THEN Read(i) ELSE Nothing]
       /\ interval' = Interval(i, k, Read(i))
       /\ hideme' = IF fails THEN {} ELSE {i}
       /\ that' = Shared(i, k, fails)
       /\ asked' = Asks(i, k, fails)
       /\ UNCHANGED <<kind, server, wire, connected, frame, generation, state, counters>>

\* A click on an icon, or in a popover, that is open: only the GET.
OpenAgain(i) ==
    /\ Idle /\ Reachable(i) /\ Displayed(i)
    /\ popover' = Closed({i})
    /\ hideme' = {i}
    /\ asked' = Asks(i, kind[i[1]], FALSE)
    /\ UNCHANGED <<kind, server, wire, connected, frame, generation, state,
                   text, interval, that, counters>>

ClickElsewhere ==
    /\ Idle /\ hideme # {}
    /\ popover' = Closed({})
    /\ hideme' = {}
    /\ UNCHANGED <<kind, channel, frame, generation, state, text, interval,
                   that, counters>>
-----------------------------------------------------------------------------
Velbusweb == Connect \/ Disconnect \/ \E a \in Address : Status(a) \/ Answer(a)
Messages == NewState \/ UpdateState \/ \E n \in 1 .. MaxFrame : Arrive(n)
User == ClickElsewhere \/ \E i \in Icon : Open(i) \/ OpenAgain(i)
Next == Velbusweb \/ Messages \/ User \/ \E i \in Icon : Tick(i)

Spec == Init /\ [][Next]_vars
-----------------------------------------------------------------------------
TypeOK ==
    /\ kind \in Site
    /\ server \in [Address -> Data]
    /\ wire \in Seq(New \cup Update) /\ frame \in Seq(New \cup Update)
    /\ connected \in BOOLEAN
    /\ generation \in Nat
    /\ state \in [Generation -> [Address -> Data]]
    /\ popover \in [Icon -> {"none", "bare", "loading", "shown"}]
    /\ text \in [Icon -> Data]
    /\ interval \subseteq Address \X Nat /\ hideme \subseteq Icon
    /\ that \in Icon \cup {None}
    /\ asked \subseteq Address
    /\ changes \in Nat /\ connections \in Nat

Complete(i) == popover[i] \in {"loading", "shown"}

\* The buttons of a blind's popover command that blind, although all of them
\* read one global variable (blind.js 34): a popover that is open when another
\* is opened is closed by the same click, also over reconnections.
OwnBlind ==
    \A i \in Icon : kind[i[1]] = "blind" /\ Complete(i) => that = i

\* What a popover says, and so what its button is going to do (relay.js 40-49,
\* 92-94), is what the page knows of the control.
PopoverFresh ==
    \A i \in Icon : popover[i] = "shown" => text[i] = Read(i)
=============================================================================
