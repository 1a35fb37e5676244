------------------------------- MODULE SockJS -------------------------------
(***************************************************************************)
(* The event stream as the page sees it: newSockJSconn (index.html         *)
(* 190-209) and the SockJS client (www/public/js/sockjs-0.3.js).  A SockJS *)
(* object asks for /info, tries one transport after the other until a      *)
(* server greets it with an "o" frame, and is closed for good afterwards;  *)
(* the page then makes another one.  There is one object at a time.        *)
(*                                                                         *)
(* Each transport names a session of its own.  The server (sockjs-node)    *)
(* opens a session that it does not know, greets, and writes messages,     *)
(* here numbered; the first is the dump of the state.  A websocket carries *)
(* frames one by one; "xhr-streaming" lines of one long answer, some at a  *)
(* time; "xhr-polling" and "jsonp-polling" one frame per answer.           *)
(*                                                                         *)
(* Whatever one event of the browser brings is handled in one step: Hears  *)
(* runs the lines of a chunk, or of an answer, through _didMessage.        *)
(***************************************************************************)
EXTENDS Integers, Sequences

CONSTANTS
    Browser,        \* choices of the set of protocols that are enabled
    FirstWait,      \* 100 ms
    LongestWait,    \* 128000 ms, the limit of the exponential backoff
    MaxMessages,    \* bound: messages of a session
    MaxFailures,    \* bound: what fails or comes late
    MaxThrows       \* bound: exceptions of the page's message handler

\* Those for pages of another site are left out.
Protocol == {"websocket", "xhr-streaming", "xhr-polling", "jsonp-polling"}
Transport == 1 .. MaxFailures + 1

\* jsonp-polling is always enabled (1516).
ASSUME BrowserAssumption ==
    \A enabled \in Browser : enabled \subseteq Protocol /\ "jsonp-polling" \in enabled
ASSUME WaitAssumption ==
    FirstWait \in Nat /\ LongestWait \in Nat /\ FirstWait <= LongestWait
ASSUME BoundAssumption ==
    MaxMessages \in Nat \ {0} /\ MaxFailures \in Nat /\ MaxThrows \in Nat

Message == 1 .. MaxMessages
O == [type |-> "o", messages |-> <<>>]
C == [type |-> "c", messages |-> <<>>]
A(ms) == [type |-> "a", messages |-> ms]
Frame == [type : {"o", "a", "c"}, messages : Seq(Message)]

VARIABLES
    enabled,    \* the browser
    sockjs,     \* the object, and what its handlers have told the page
    loaded,     \* the document is complete
    closing,    \* the object's "close" event is on its way
    retry,      \* the page's timer for the next object
    wait,       \* SockJS_retry_wait
    request,    \* request[t]: the connection, or the poll, of transport t
    session,    \* session[t]: what the server knows of it
    box,        \* box[t]: frames that t has not heard
    written,    \* written[t]: messages written to the session
    failures, throws

page == <<loaded, closing, retry, wait>>
server == <<session, written>>
vars == <<enabled, sockjs, loaded, closing, retry, wait, request, session, box,
          written, failures, throws>>

\* heard[t]: the handlers of transport t are set; got: messages since "open".
Fresh == [readyState |-> "connecting", ir |-> TRUE, protocols |-> <<>>,
          protocol |-> "none", tref |-> FALSE, transport |-> 0, heard |-> {},
          dials |-> 0, got |-> <<>>, raised |-> FALSE]

Init ==
    /\ enabled \in Browser
    /\ sockjs = Fresh
    /\ loaded = FALSE /\ closing = FALSE /\ retry = FALSE /\ wait = FirstWait
    /\ request = [t \in Transport |-> [protocol |-> "none", now |-> "none"]]
    /\ session = [t \in Transport |-> "none"]
    /\ box = [t \in Transport |-> <<>>]
    /\ written = [t \in Transport |-> 0]
    /\ failures = 0 /\ throws = 0

Fails == failures < MaxFailures /\ failures' = failures + 1
-----------------------------------------------------------------------------
(* The SockJS object.                                                      *)

\* utils.detectProtocols: one protocol of each group that has one.
detectProtocols(websocket) ==
    LET one(protocol, or) == IF protocol \in enabled THEN <<protocol>> ELSE or
    IN (IF websocket THEN one("websocket", <<>>) ELSE <<>>)
         \o one("xhr-streaming", <<>>)
         \o one("xhr-polling", <<"jsonp-polling">>)

need_body(protocol) == protocol \in {"xhr-streaming", "jsonp-polling"}

StartTransport(s) ==
    [s EXCEPT !.protocol = Head(s.protocols), !.protocols = Tail(@),
              !.tref = TRUE, !.dials = @ + 1, !.transport = s.dials + 1,
              !.heard = @ \cup {s.dials + 1}]

try_next_protocol(s, complete) ==
    IF s.protocols = <<>> THEN [s EXCEPT !.protocol = "none", !.tref = FALSE]
    ELSE IF need_body(Head(s.protocols)) /\ ~complete
    THEN [s EXCEPT !.protocol = "waiting-for-load", !.tref = FALSE]
    ELSE StartTransport(s)

\* doCleanup: whatever the transport still has to say is not heard.
Cleaned(s) == [s EXCEPT !.ir = FALSE, !.transport = 0,
                        !.heard = @ \ {s.transport}]

\* _didClose throws on a closed object; force: no other protocol is tried.
didClose(s, force) ==
    IF s.readyState = "closed" THEN [s EXCEPT !.raised = TRUE]
    ELSE LET next == IF s.readyState = "connecting" /\ ~force
                     THEN try_next_protocol(Cleaned(s), loaded) ELSE Cleaned(s)
         IN IF s.readyState = "connecting" /\ ~force /\ next.protocol # "none"
            THEN next ELSE [next EXCEPT !.readyState = "closed"]

\* Mutant: a second greeting goes unnoticed.
KeepsSession(s) == [s EXCEPT !.readyState = "open", !.tref = FALSE]

\* A greeting of an open object: the server has lost the session.
dispatchOpen(s) ==
    IF s.readyState = "connecting"
    THEN [s EXCEPT !.readyState = "open", !.tref = FALSE]
    ELSE didClose(s, FALSE)

didMessage(s, frame) ==
    CASE frame.type = "o" -> dispatchOpen(s)
      [] frame.type = "c" -> didClose(s, FALSE)
      [] OTHER -> IF s.readyState = "open"
                             THEN [s EXCEPT !.got = @ \o frame.messages] ELSE s

\* Transport t hears lines, while it has its handlers: what a line changes may
\* take them away.
Hear(t, s, line) == IF t \in s.heard THEN didMessage(s, line) ELSE s
Hears(t, lines) ==
    LET after[n \in 0 .. Len(lines)] ==
          IF n = 0 THEN sockjs ELSE Hear(t, after[n - 1], lines[n])
    IN after[Len(lines)]

\* What follows from a change of the object: the "close" event, the page's
\* onopen, and the first request of a transport.
Follows(s) ==
    /\ sockjs' = s
    /\ closing' = (closing \/ (sockjs.readyState # "closed" /\ s.readyState = "closed"))
    /\ IF sockjs.readyState = "connecting" /\ s.readyState = "open"
       THEN wait' = FirstWait ELSE UNCHANGED wait

Asks(s, r) ==
    IF s.dials = sockjs.dials THEN r
    ELSE [r EXCEPT ![s.dials] = [protocol |-> s.protocol, now |-> "asked"]]

InfoArrives ==
    /\ sockjs.ir
    /\ \E websocket \in BOOLEAN :
          LET s == didClose([sockjs EXCEPT !.ir = FALSE,
                                           !.protocols = detectProtocols(websocket)],
                            FALSE)
          IN Follows(s) /\ request' = Asks(s, request)
    /\ UNCHANGED <<enabled, loaded, retry, server, box, failures, throws>>

\* Not status 200, or not within eight seconds.
InfoFails ==
    /\ sockjs.ir /\ Fails
    /\ Follows(didClose([sockjs EXCEPT !.ir = FALSE], TRUE))
    /\ UNCHANGED <<enabled, loaded, retry, request, server, box, throws>>

\* "Transport timeouted"
Timeout ==
    /\ sockjs.tref /\ sockjs.readyState = "connecting" /\ Fails
    /\ LET s == didClose([sockjs EXCEPT !.tref = FALSE], FALSE)
       IN Follows(s) /\ request' = Asks(s, request)
    /\ UNCHANGED <<enabled, loaded, retry, server, box, throws>>

Load ==
    /\ ~loaded /\ loaded' = TRUE
    /\ LET s == IF sockjs.protocol = "waiting-for-load"
                THEN try_next_protocol(sockjs, TRUE) ELSE sockjs
       IN sockjs' = s /\ request' = Asks(s, request)
    /\ UNCHANGED <<enabled, closing, retry, wait, server, box, failures, throws>>
-----------------------------------------------------------------------------
(* The page.                                                               *)

\* Mutant: the wait is doubled without a limit.
Doubled(w) == 2 * w

\* Exponential backoff, with a limit of two minutes.
NextWait(w) == IF 2 * w > LongestWait THEN LongestWait ELSE 2 * w

OnClose ==
    /\ closing /\ closing' = FALSE
    /\ retry' = TRUE
    /\ wait' = NextWait(wait)
    /\ UNCHANGED <<enabled, sockjs, loaded, request, server, box, failures, throws>>

\* Mutant: the timer is an interval.
RetriesOften ==
    /\ retry /\ UNCHANGED retry
    /\ sockjs' = [Fresh EXCEPT !.dials = sockjs.dials, !.raised = sockjs.raised]
    /\ UNCHANGED <<enabled, loaded, closing, wait, request, server, box, failures, throws>>

newSockJSconn ==
    /\ retry /\ retry' = FALSE
    /\ sockjs' = [Fresh EXCEPT !.dials = sockjs.dials, !.raised = sockjs.raised]
    /\ UNCHANGED <<enabled, loaded, closing, wait, request, server, box,
                   failures, throws>>
-----------------------------------------------------------------------------
(* The server.                                                             *)

\* A request for a session that the server does not know.
ServerOpens(t) ==
    /\ request[t].now = "asked" /\ session[t] # "open"
    /\ session' = [session EXCEPT ![t] = "open"]
    /\ box' = [box EXCEPT ![t] = <<O, A(<<1>>)>>]
    /\ written' = [written EXCEPT ![t] = 1]
    /\ UNCHANGED <<enabled, sockjs, page, request, failures, throws>>

ServerWrites(t) ==
    /\ session[t] = "open" /\ written[t] < MaxMessages
    /\ written' = [written EXCEPT ![t] = @ + 1]
    /\ box' = [box EXCEPT ![t] = Append(@, A(<<written[t] + 1>>))]
    /\ UNCHANGED <<enabled, sockjs, page, request, session, failures, throws>>

\* The next poll does not come in time.
ServerForgets(t) ==
    /\ session[t] = "open" /\ request[t].protocol # "websocket" /\ Fails
    /\ session' = [session EXCEPT ![t] = "gone"]
    /\ box' = [box EXCEPT ![t] = <<>>]
    /\ UNCHANGED <<enabled, sockjs, page, request, written, throws>>

\* The server restarts: sessions are gone, and requests are cut.
Restarted ==
    /\ session' = [t \in Transport |-> IF session[t] = "open" THEN "gone" ELSE session[t]]
    /\ request' = [t \in Transport |->
                     IF request[t].now = "asked" THEN [request[t] EXCEPT !.now = "cut"]
                     ELSE request[t]]
    /\ box' = [t \in Transport |-> <<>>]
    /\ UNCHANGED <<enabled, sockjs, page, written, throws>>

ServerRestarts == Fails /\ Restarted

NetworkBreaks(t) ==
    /\ request[t].now = "asked" /\ Fails
    /\ request' = [request EXCEPT ![t].now = "cut"]
    /\ UNCHANGED <<enabled, sockjs, page, server, box, throws>>
-----------------------------------------------------------------------------
(* Transports.                                                             *)

Heard(t) == t \in sockjs.heard
Streams(t) == request[t].protocol \in {"websocket", "xhr-streaming"}

\* What an event can bring of the frames in the box: a message of the
\* websocket, some lines of a stream, an answer to a poll.
Brings(t, n) ==
    CASE request[t].protocol = "websocket" -> n = 1
      [] request[t].protocol = "xhr-streaming" -> n \in 1 .. Len(box[t])
      [] OTHER -> IF Head(box[t]) = O THEN n = 1 ELSE n = Len(box[t])

Lines(t, n) ==
    LET frames == SubSeq(box[t], 1, n)
    IN IF Streams(t) \/ Head(frames) = O THEN frames
       ELSE <<A([i \in 1 .. n |-> frames[i].messages[1]])>>

\* A poll's request ends with its answer.  A stream, which ends once it has
\* grown long, and jsonp tell of lines and end at once.
Ends(t) ==
    IF request[t].protocol = "xhr-polling" THEN {"ended", "asked"} ELSE {"asked"}

Arrives(t) ==
    /\ Heard(t) /\ request[t].now = "asked" /\ session[t] = "open" /\ box[t] # <<>>
    /\ \E n \in 1 .. Len(box[t]), end \in Ends(t) :
          /\ Brings(t, n)
          /\ LET s == Hears(t, Lines(t, n))
             IN /\ Follows(s)
                /\ request' = Asks(s, [request EXCEPT ![t].now = end])
          /\ box' = [box EXCEPT ![t] = SubSeq(@, n + 1, Len(@))]
    /\ UNCHANGED <<enabled, loaded, retry, server, failures, throws>>

\* The browser tells of the end of a poll after it has told of the line.
PollEnds(t) ==
    /\ Heard(t) /\ request[t].now = "ended"
    /\ request' = [request EXCEPT ![t].now = "asked"]
    /\ UNCHANGED <<enabled, sockjs, page, server, box, failures, throws>>

\* After an exception only a websocket is sure to go on.  What is thrown at
\* the end of an answer is thrown in place of the next request.
AfterThrow(t) ==
    CASE request[t].protocol = "websocket" -> {"asked"}
      [] request[t].protocol = "xhr-streaming" -> {"asked", "dead"}
      [] request[t].protocol = "xhr-polling" -> {"ended", "dead"}
      [] OTHER -> {"dead"}

\* The page's handler throws on message m + 1 of the k-th line.  The rest of
\* that line is lost; the next line of a stream comes with what follows.
Throws(t) ==
    /\ Heard(t) /\ request[t].now = "asked" /\ session[t] = "open" /\ box[t] # <<>>
    /\ throws < MaxThrows /\ throws' = throws + 1
    /\ \E n \in 1 .. Len(box[t]) :
          /\ Brings(t, n)
          /\ \E k \in DOMAIN Lines(t, n) :
                LET lines == SubSeq(Lines(t, n), 1, k - 1)
                    line == Lines(t, n)[k]
                IN \E m \in 0 .. Len(line.messages) - 1 :
                      LET s == Hears(t, Append(lines, A(SubSeq(line.messages, 1, m))))
                      IN /\ s.readyState = "open" /\ Follows(s)
                         /\ box' = [box EXCEPT ![t] =
                              SubSeq(@, (IF Streams(t) THEN k ELSE n) + 1, Len(@))]
                         /\ \E end \in AfterThrow(t) :
                               request' = [request EXCEPT ![t].now = end]
    /\ UNCHANGED <<enabled, loaded, retry, server, failures>>

\* onclose of the websocket, a status other than 200, onerror of the script.
Breaks(t) ==
    /\ Heard(t) /\ request[t].now = "cut"
    /\ LET s == Hears(t, <<C>>)
       IN /\ Follows(s)
          /\ request' = Asks(s, [request EXCEPT ![t].now = "none"])
    /\ UNCHANGED <<enabled, loaded, retry, server, box, failures, throws>>
-----------------------------------------------------------------------------
Object == InfoArrives \/ InfoFails \/ Timeout \/ OnClose \/ newSockJSconn
Server(t) == ServerOpens(t) \/ ServerWrites(t) \/ ServerForgets(t) \/ NetworkBreaks(t)
Wire(t) == Arrives(t) \/ PollEnds(t) \/ Throws(t) \/ Breaks(t)
Events == Object \/ \E t \in Transport : Server(t) \/ Wire(t)
Next == Events \/ Load \/ ServerRestarts

Spec == Init /\ [][Next]_vars
-----------------------------------------------------------------------------
TypeOK ==
    /\ enabled \in Browser
    /\ sockjs.readyState \in {"connecting", "open", "closed"}
    /\ sockjs.protocols \in Seq(Protocol)
    /\ sockjs.protocol \in Protocol \cup {"none", "waiting-for-load"}
    /\ sockjs.transport \in Transport \cup {0} /\ sockjs.heard \subseteq Transport
    /\ sockjs.dials \in Transport \cup {0} /\ sockjs.got \in Seq(Message)
    /\ loaded \in BOOLEAN /\ closing \in BOOLEAN /\ retry \in BOOLEAN
    /\ wait \in FirstWait .. LongestWait
    /\ request \in [Transport -> [protocol : Protocol \cup {"none"},
                                  now : {"none", "asked", "ended", "cut", "dead"}]]
    /\ session \in [Transport -> {"none", "open", "gone"}]
    /\ box \in [Transport -> Seq(Frame)] /\ written \in [Transport -> Message \cup {0}]
    /\ failures \in 0 .. MaxFailures /\ throws \in 0 .. MaxThrows

\* One object at a time, which closes once: no event of a transport that was
\* given up reaches a closed object, though its session may live on (1000-1003
\* would throw); while an object lives no "close" event and no timer for the
\* next one is due, and a closed one has exactly one of the two.
OneAttempt ==
    /\ ~sockjs.raised
    /\ ~(closing /\ retry)
    /\ (sockjs.readyState = "closed") <=> (closing \/ retry)

\* What the page has got since "open" is the beginning of one session, of the
\* dump first, and of nothing else; only an exception leaves messages out.
Beginning ==
    LET got == sockjs.got
    IN /\ \A i, j \in DOMAIN got : i < j => got[i] < got[j]
       /\ throws = 0 => \A i \in DOMAIN got : got[i] = i
=============================================================================
