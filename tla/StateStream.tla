---------------------------- MODULE StateStream ----------------------------
(***************************************************************************)
(* The live state of velbusweb and its replicas in web pages: the handlers *)
(* of velbus events that assign it (www/velbusweb.js 19-26 and             *)
(* add_watchers of www/controls), www/state.js, the SockJS stream          *)
(* (www/velbusweb.js 97-109) and the page (www/public/index.html 138-209). *)
(*                                                                         *)
(* Node runs one handler to its end before the next: todo holds the        *)
(* assignments the running handler has still to make.  The state is a      *)
(* function from the keys that change; the configured ones are constant.   *)
(* conn[b] is page b's connection: "none", "open", or "closed" when the    *)
(* server's end is gone and the page did not notice yet.  queue[b] is what *)
(* was written to it and not yet received.                                 *)
(***************************************************************************)
EXTENDS Integers, Sequences

CONSTANTS
    Browser,        \* web pages
    Status,         \* values of a relay's status
    Off,            \* the one of a light that is off
    Undefined,      \* a key that was never assigned
    MaxChanges,     \* bound: events of the velbus connection
    MaxDrops,       \* bound: lost connections
    MaxRestarts     \* bound: restarts of velbusweb

Key == {"00.state", "status", "timer"}
Value == Status \cup {"online", "offline", Undefined}
State == [Key -> Value]
Empty == [k \in Key |-> Undefined]

ASSUME StatusAssumption == {"online", "offline", Undefined} \cap Status = {}
ASSUME OffAssumption == Off \in Status
ASSUME BoundAssumption ==
    MaxChanges \in Nat /\ MaxDrops \in Nat /\ MaxRestarts \in Nat

Assignment == [key : Key, value : Value]
NewMessage == [changetype : {"new"}, state : State, at : Nat]
UpdateMessage == [changetype : {"update"}, key : Key, value : Value, at : Nat]

VARIABLES
    socket,         \* velbus.socket is connected to velbusd
    todo,           \* assignments of the running handler
    properities,    \* state.properities
    conn,
    queue,
    velbus_state,   \* velbus_state[b]: the page's replica
    loaded,         \* loaded[b]: the page has run js/controls.js
    gui,            \* gui[b]: how the page's controls were constructed
    states,         \* history: every value of properities
    seen,           \* history: which of them page b shows
    changes, drops, restarts

server == <<socket, todo, properities>>
page == <<velbus_state, loaded, gui, seen>>
counters == <<changes, drops, restarts>>
vars == <<socket, todo, properities, conn, queue, velbus_state, loaded, gui,
          states, seen, changes, drops, restarts>>

Init ==
    /\ socket = FALSE
    /\ todo = <<>>
    /\ properities = Empty
    /\ conn = [b \in Browser |-> "none"]
    /\ queue = [b \in Browser |-> <<>>]
    /\ velbus_state = [b \in Browser |-> Empty]
    /\ loaded = [b \in Browser |-> FALSE]
    /\ gui = [b \in Browser |-> "none"]
    /\ states = <<Empty>>
    /\ seen = [b \in Browser |-> 0]
    /\ changes = 0 /\ drops = 0 /\ restarts = 0
-----------------------------------------------------------------------------
(* Events of the velbus connection, and the assignments of their handlers. *)

\* The event loop is free.
Idle == todo = <<>>

\* Mutant: only the first connection is announced.
AnnouncesFirst ==
    IF properities["00.state"] = Undefined
    THEN <<[key |-> "00.state", value |-> "online"]>> ELSE <<>>

OnConnect == <<[key |-> "00.state", value |-> "online"]>>
OnClose == <<[key |-> "00.state", value |-> "offline"]>>

\* A status and the timer that belongs to it.
RelayStatus(s) ==
    <<[key |-> "status", value |-> s], [key |-> "timer", value |-> s]>>

Event(sets) ==
    /\ Idle /\ changes < MaxChanges
    /\ changes' = changes + 1
    /\ todo' = todo \o sets
    /\ UNCHANGED <<properities, conn, queue, page, states, drops, restarts>>

VelbusConnects == ~socket /\ socket' = TRUE /\ Event(OnConnect)

\* Also a connection attempt that fails.
VelbusCloses == socket' = FALSE /\ Event(OnClose)

VelbusMessage ==
    /\ socket /\ UNCHANGED socket
    /\ \E s \in Status : Event(RelayStatus(s))
-----------------------------------------------------------------------------
(* state.set and the stream.                                               *)

\* Mutant: the update is emitted before the assignment is made.
PublishesOld(a) ==
    [changetype |-> "update", key |-> a.key, value |-> properities[a.key],
     at |-> Len(states) + 1]

Update(a) ==
    [changetype |-> "update", key |-> a.key, value |-> a.value,
     at |-> Len(states) + 1]

set(a) ==
    /\ properities' = [properities EXCEPT ![a.key] = a.value]
    /\ states' = Append(states, properities')
    /\ queue' = [b \in Browser |-> IF conn[b] = "open"
                                   THEN Append(queue[b], Update(a))
                                   ELSE queue[b]]

RunHandler ==
    /\ todo # <<>>
    /\ set(Head(todo))
    /\ todo' = Tail(todo)
    /\ UNCHANGED <<socket, conn, page, counters>>

\* Mutant: nothing is sent until the next update.
SendsNothing == <<>>

\* The full object, before any update.
Dump == <<[changetype |-> "new", state |-> properities, at |-> Len(states)]>>

\* newSockJSconn, and the server's 'connection' event.
Connect(b) ==
    /\ Idle /\ conn[b] = "none"
    /\ conn' = [conn EXCEPT ![b] = "open"]
    /\ queue' = [queue EXCEPT ![b] = Dump]
    /\ UNCHANGED <<server, page, states, counters>>

\* 'close' on the server: the listener is removed.
ServerCloses(b) ==
    /\ Idle /\ conn[b] = "open" /\ drops < MaxDrops
    /\ drops' = drops + 1
    /\ conn' = [conn EXCEPT ![b] = "closed"]
    /\ UNCHANGED <<server, queue, page, states, changes, restarts>>

\* The process ends and Upstart starts it again, with an empty state.
Restart ==
    /\ restarts < MaxRestarts
    /\ restarts' = restarts + 1
    /\ socket' = FALSE
    /\ todo' = <<>>
    /\ properities' = Empty
    /\ states' = Append(states, Empty)
    /\ conn' = [b \in Browser |-> IF conn[b] = "open" THEN "closed" ELSE conn[b]]
    /\ UNCHANGED <<queue, page, changes, drops>>
-----------------------------------------------------------------------------
(* The page.                                                               *)

\* Mutant: a new state is merged into the old one; undefined is not sent.
Merges(view, m) ==
    IF m.changetype = "new"
    THEN [k \in Key |-> IF m.state[k] = Undefined THEN view[k] ELSE m.state[k]]
    ELSE [view EXCEPT ![m.key] = m.value]

\* onSockJSmessage: "new" replaces everything, "update" one key.
Applied(view, m) ==
    IF m.changetype = "new" THEN m.state
    ELSE [view EXCEPT ![m.key] = m.value]

\* The constructors are those known when "new" arrives.
Constructed(b, m) ==
    IF m.changetype = "update" THEN gui[b]
    ELSE IF loaded[b] THEN "typed" ELSE "Unknown"

\* The icon of a light: the rules that the scripts bring match the classes of
\* type and icon, which Unknown sets, too; only update() of a Relay adds "off".
Image(b) ==
    IF gui[b] = "typed" /\ velbus_state[b]["status"] = Off
    THEN "light-off" ELSE "light-on"

Receive(b) ==
    /\ conn[b] # "none" /\ queue[b] # <<>>
    /\ LET m == Head(queue[b]) IN
          /\ velbus_state' = [velbus_state EXCEPT ![b] = Applied(@, m)]
          /\ gui' = [gui EXCEPT ![b] = Constructed(b, m)]
          /\ seen' = [seen EXCEPT ![b] = m.at]
    /\ queue' = [queue EXCEPT ![b] = Tail(@)]
    /\ UNCHANGED <<server, conn, loaded, states, counters>>

\* onclose: what was on its way is lost; the page connects again later.
PageCloses(b) ==
    /\ conn[b] # "none"
    /\ conn[b] = "open" => drops < MaxDrops
    /\ drops' = IF conn[b] = "open" THEN drops + 1 ELSE drops
    /\ conn' = [conn EXCEPT ![b] = "none"]
    /\ queue' = [queue EXCEPT ![b] = <<>>]
    /\ UNCHANGED <<server, page, states, changes, restarts>>

\* The script after the one that opened the stream has been fetched and run.
LoadControls(b) ==
    /\ ~loaded[b]
    /\ loaded' = [loaded EXCEPT ![b] = TRUE]
    /\ UNCHANGED <<server, conn, queue, velbus_state, gui, states, seen, counters>>
-----------------------------------------------------------------------------
Server == VelbusConnects \/ VelbusCloses \/ VelbusMessage \/ RunHandler \/ Restart
Page(b) ==
    Connect(b) \/ ServerCloses(b) \/ Receive(b) \/ PageCloses(b) \/ LoadControls(b)
Next == Server \/ \E b \in Browser : Page(b)

\* A handler runs to its end, an open connection delivers, and a page that
\* lost its connection is told by the browser and retries for ever.
Fairness ==
    /\ WF_vars(RunHandler)
    /\ \A b \in Browser :
          /\ WF_vars(Receive(b))
          /\ WF_vars(Connect(b))
          /\ WF_vars(PageCloses(b) /\ conn[b] = "closed")

Spec == Init /\ [][Next]_vars /\ Fairness
-----------------------------------------------------------------------------
TypeOK ==
    /\ socket \in BOOLEAN
    /\ todo \in Seq(Assignment)
    /\ properities \in State
    /\ conn \in [Browser -> {"none", "open", "closed"}]
    /\ queue \in [Browser -> Seq(NewMessage \cup UpdateMessage)]
    /\ velbus_state \in [Browser -> State]
    /\ loaded \in [Browser -> BOOLEAN]
    /\ gui \in [Browser -> {"none", "Unknown", "typed"}]
    /\ states \in Seq(State) /\ Len(states) > 0
    /\ seen \in [Browser -> Nat]
    /\ changes \in Nat /\ drops \in Nat /\ restarts \in Nat

\* A page that has received all that was written to its connection shows the
\* server's state: the dump and the subscription of sockjs_stream's
\* 'connection' handler (97-104) leave no update between them.
ReplicaInSync ==
    \A b \in Browser :
        conn[b] = "open" /\ queue[b] = <<>> => velbus_state[b] = properities

\* What makes it inductive: the messages of a connection stand for consecutive
\* values of the state, up to the newest while it is open, and the page shows
\* the one before the first of them.
Stands(history, m) ==
    /\ m.at \in 1 .. Len(history)
    /\ m.changetype = "new" => m.state = history[m.at]
    /\ m.changetype = "update" =>
          /\ m.at > 1
          /\ history[m.at] = [history[m.at - 1] EXCEPT ![m.key] = m.value]
Follows(b) ==
    /\ \A i \in 1 .. Len(queue[b]) :
          /\ Stands(states, queue[b][i])
          /\ i > 1 => /\ queue[b][i].changetype = "update"
                      /\ queue[b][i].at = queue[b][i - 1].at + 1
    /\ (conn[b] # "none" /\ queue[b] # <<>>) =>
          IF queue[b][1].changetype = "new" THEN seen[b] <= queue[b][1].at
          ELSE seen[b] = queue[b][1].at - 1 /\ seen[b] > 0
    /\ conn[b] = "open" =>
          IF queue[b] = <<>> THEN seen[b] = Len(states)
          ELSE queue[b][Len(queue[b])].at = Len(states)
    /\ conn[b] = "none" => queue[b] = <<>>
    /\ seen[b] <= Len(states)
    /\ seen[b] > 0 => velbus_state[b] = states[seen[b]]
StreamInv ==
    /\ properities = states[Len(states)]
    /\ \A b \in Browser : Follows(b)

\* A page that connects is given whole messages: a status and its timer are
\* assigned by one handler that runs to its end (relay.js 109-110), so that no
\* dump separates them.
DumpsWhole ==
    \A b \in Browser : \A i \in 1 .. Len(queue[b]) :
        queue[b][i].changetype = "new" =>
            queue[b][i].state["status"] = queue[b][i].state["timer"]

\* '00.state' tells the truth about the connection to velbusd between handlers,
\* over reconnections and restarts (velbusweb.js 19-26).
OnlineTold == (Idle /\ properities["00.state"] # Undefined) =>
                  (properities["00.state"] = "online" <=> socket)

\* Whatever is lost on the way, pages end with the state of the server.
Converges == <>[](\A b \in Browser : velbus_state[b] = properities)

\* A page that has run the scripts has an icon of its own for a light that is off
\* (README.md 138), whatever came first, state or scripts.
OffIsShown ==
    \A b \in Browser :
        loaded[b] /\ gui[b] # "none" /\ velbus_state[b]["status"] = Off =>
            Image(b) = "light-off"

\* The stream implements Views: a page shows states the server had, in order.
Pages == INSTANCE Views WITH Viewer <- Browser, shown <- velbus_state
ImplementsViews == Pages!Spec
=============================================================================
