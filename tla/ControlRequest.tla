--------------------------- MODULE ControlRequest ---------------------------
(***************************************************************************)
(* HTTP requests about controls, www/controls/: a request leaves one-shot  *)
(* listeners for the messages it needs, a timer, and questions on the bus; *)
(* a POST sends its command first.  Answers, time-outs, other requests,    *)
(* the queries at start-up and reports of the modules come in any order.   *)
(***************************************************************************)
EXTENDS ControlCodec

CONSTANTS
    Request,
    Content,        \* what a request may be: [need, setting]
    None,
    Configured,     \* controls queried when velbusd is connected
    Measured,       \* raw temperatures that a sensor may measure
    MaxReports,     \* bound: reports of the modules themselves
    MaxLost         \* bound: messages lost on the way to a module

ASSUME ContentAssumption ==
    \A c \in Content :
        /\ c.need \in SUBSET Part /\ c.need # {}
        /\ c.setting # None => c.setting \in Setting /\ c.need = {c.setting.to}
ASSUME NoneAssumption ==
    None \notin Content \cup Shown /\ None \notin Word /\ None \notin Int
ASSUME ConfiguredAssumption == Configured \subseteq Part \ {"temperature"}
ASSUME MeasuredAssumption == Measured # {} /\ Measured \subseteq TwoBytes
ASSUME BoundAssumption == MaxReports \in Nat /\ MaxLost \in Nat

VARIABLES
    content,    \* content[r]: what r asks for, or None
    phase,      \* phase[r]: "new", "waiting" or "answered"
    need_cmd,   \* need_cmd[r]: messages that r still waits for
    total_msg,  \* total_msg[r]: parts of the answer to r
    listeners,  \* listeners[p]: requests that listen for message p
    ahead,      \* ahead[r]: requests that were made before r
    timers,     \* requests whose time-out is pending
    responses,  \* responses[r]: what was sent in answer to r
    startup,    \* queries at start-up whose timer is pending
    asked,      \* commands on their way to the modules
    told,       \* messages on their way from the modules
    held,       \* held[p]: the status of the module
    live,       \* live[p]: state.properities of the control
    wanted,     \* history: what was posted last
    reports, lost

requests == <<content, phase, need_cmd, total_msg, listeners, ahead, timers, responses>>
bus == <<asked, told>>
counters == <<reports, lost>>
vars == <<content, phase, need_cmd, total_msg, listeners, ahead, timers,
          responses, startup, asked, told, held, live, wanted, reports, lost>>

\* What is expected of a status: a word, a number, or both.
Expected == [word : Word \cup {None}, number : Int \cup {None}]
Unset == [word |-> None, number |-> None]

Init ==
    /\ content = [r \in Request |-> None]
    /\ phase = [r \in Request |-> "new"]
    /\ need_cmd = [r \in Request |-> {}]
    /\ total_msg = [r \in Request |-> [p \in Part |-> None]]
    /\ listeners = [p \in Part |-> {}]
    /\ ahead = [r \in Request |-> {}]
    /\ timers = {}
    /\ responses = [r \in Request |-> <<>>]
    /\ startup = Configured
    /\ asked = <<>> /\ told = <<>>
    /\ \E t \in Measured :
          held = [p \in Part |-> [code |-> 0,
                                  number |-> IF p = "temperature" THEN t ELSE 0]]
    /\ live = [p \in Part |-> None]
    /\ wanted = [p \in Part |-> Unset]
    /\ reports = 0 /\ lost = 0
-----------------------------------------------------------------------------
(* Requests.                                                               *)

Sends(r, answer) == responses' = [responses EXCEPT ![r] = Append(@, answer)]

\* A temperature sensor may be asked for both of its messages.
Questions(c) ==
    LET questions(p) == IF p \in c.need THEN <<ask(p)>> ELSE <<>>
    IN questions("relay") \o questions("blind") \o questions("dimmer")
         \o questions("input") \o questions("temp_status") \o questions("temperature")

Posted(c) == IF c.setting = None THEN <<>> ELSE <<post(c.setting)>>

\* Mutant: the questions before the setting.
AsksFirst(c) == Questions(c) \o Posted(c)

\* A POST sends its command and falls through to the GET.
Commands(c) == Posted(c) \o Questions(c)

\* A POST that is not understood.
Refused(r) ==
    /\ phase[r] = "new"
    /\ phase' = [phase EXCEPT ![r] = "answered"]
    /\ Sends(r, "refused")
    /\ UNCHANGED <<content, need_cmd, total_msg, listeners, ahead, timers, startup,
                   bus, held, live, wanted, counters>>

\* What the one who posts expects to see.
Wish(s) ==
    [word |-> [on |-> "on", timer |-> "on", off |-> "off", up |-> "going_up",
               down |-> "going_down", stop |-> "stopped", dim |-> None,
               target |-> None, comfort |-> "comfort", day |-> "day",
               night |-> "night", safe |-> "safe"][s.word],
     number |-> IF s.word \in {"on", "off", "timer", "target"} THEN s.number
                ELSE IF s.word = "dim" THEN post(s).number ELSE None]

Updated(old, new) == IF new = None THEN old ELSE new

Wants(c) ==
    wanted' = IF c.setting = None THEN wanted
              ELSE [wanted EXCEPT ![c.setting.to] =
                      [word |-> Updated(@.word, Wish(c.setting).word),
                       number |-> Updated(@.number, Wish(c.setting).number)]]

reply_to_get(r, c) ==
    /\ phase[r] = "new"
    /\ phase' = [phase EXCEPT ![r] = "waiting"]
    /\ content' = [content EXCEPT ![r] = c]
    /\ need_cmd' = [need_cmd EXCEPT ![r] = c.need]
    /\ listeners' = [p \in Part |-> IF p \in c.need THEN listeners[p] \cup {r}
                                    ELSE listeners[p]]
    /\ ahead' = [ahead EXCEPT ![r] = {q \in Request : phase[q] # "new"}]
    /\ timers' = timers \cup {r}
    /\ asked' = asked \o Commands(c)
    /\ Wants(c)
    /\ UNCHANGED <<total_msg, responses, startup, told, held, live, counters>>

\* Mutant: the listeners stay.
LeavesListeners(r) == listeners

RemoveListener(r) == [p \in Part |-> listeners[p] \ {r}]

timeout(r) ==
    /\ r \in timers
    /\ timers' = timers \ {r}
    /\ listeners' = RemoveListener(r)
    /\ phase' = [phase EXCEPT ![r] = "answered"]
    /\ Sends(r, "timeout")
    /\ UNCHANGED <<content, need_cmd, total_msg, ahead, startup, bus, held, live,
                   wanted, counters>>

\* Mutant: no question is sent.
AsksNothing(p) == <<>>

QueryFor(p) == <<ask(p)>>

StartupQuery(p) ==
    /\ p \in startup
    /\ startup' = startup \ {p}
    /\ asked' = asked \o QueryFor(p)
    /\ UNCHANGED <<requests, told, held, live, wanted, counters>>
-----------------------------------------------------------------------------
(* Messages.                                                               *)

\* Mutants: any message completes an answer; the timer is stopped by any, or
\* by none.
CompleteWithAny(p) == listeners[p]
StopsAtFirst(p) == listeners[p]
StopsNone(p) == {}

\* save_tss and save_st, then send_answer: is anyone still waited for?
Complete(p) == {r \in listeners[p] : need_cmd[r] \subseteq {p}}

\* clearTimeout comes after the check.
Cleared(p) == Complete(p)

\* All listeners get the same object, from which the first request for an input
\* deletes what the next would read.
Gets(r, p, value) ==
    IF p = "input" /\ ahead[r] \cap listeners[p] # {}
    THEN [value EXCEPT !.word = "false"] ELSE value

\* 'message': the watcher of the state, then the listeners of this message,
\* each removed before it is called.
VelbusMessage ==
    /\ told # <<>> /\ Head(told).part \in Part
    /\ told' = Tail(told)
    /\ LET p == Head(told).part
           value == parse(p, Head(told).reading)
       IN /\ live' = [live EXCEPT ![p] = value]
          /\ need_cmd' = [r \in Request |-> IF r \in listeners[p]
                                            THEN need_cmd[r] \ {p} ELSE need_cmd[r]]
          /\ total_msg' = [r \in Request |->
                             IF r \in listeners[p]
                             THEN [total_msg[r] EXCEPT ![p] = Gets(r, p, value)]
                             ELSE total_msg[r]]
          /\ listeners' = [listeners EXCEPT ![p] = {}]
          /\ timers' = timers \ Cleared(p)
          /\ phase' = [r \in Request |-> IF r \in Complete(p) THEN "answered"
                                         ELSE phase[r]]
          /\ responses' = [r \in Request |-> IF r \in Complete(p)
                                             THEN Append(responses[r], "answer")
                                             ELSE responses[r]]
    /\ UNCHANGED <<content, ahead, startup, asked, held, wanted, counters>>

\* A push button status, of what was just pressed (code) or released (number).
PushButtonStatus ==
    /\ told # <<>> /\ Head(told).part = "push_button"
    /\ told' = Tail(told)
    /\ live' = [live EXCEPT !["input"] = pushButtonStatus(Head(told).reading)]
    /\ UNCHANGED <<requests, startup, asked, held, wanted, counters>>
-----------------------------------------------------------------------------
(* The modules on the bus.                                                 *)

Tell(part, reading) == told' = Append(told, [part |-> part, reading |-> reading])

ModuleObeys ==
    /\ asked # <<>> /\ ~IsQuestion(Head(asked))
    /\ asked' = Tail(asked)
    /\ held' = [held EXCEPT ![Head(asked).to] = Obeyed(Head(asked), @)]
    /\ UNCHANGED <<requests, startup, told, live, wanted, counters>>

ModuleAnswers ==
    /\ asked # <<>> /\ IsQuestion(Head(asked))
    /\ asked' = Tail(asked)
    /\ Tell(Head(asked).to, held[Head(asked).to])
    /\ UNCHANGED <<requests, startup, held, live, wanted, counters>>

SensorReports ==
    \E t \in Measured :
        /\ held' = [held EXCEPT !["temperature"] = [code |-> 0, number |-> t]]
        /\ Tell("temperature", [code |-> 0, number |-> t])

InputReports ==
    LET pressed == 1 - held["input"].code
    IN /\ held' = [held EXCEPT !["input"] = [code |-> pressed, number |-> 0]]
       /\ Tell("push_button", [code |-> pressed, number |-> 1 - pressed])

ModuleReports ==
    /\ reports < MaxReports /\ reports' = reports + 1
    /\ SensorReports \/ InputReports
    /\ UNCHANGED <<requests, startup, asked, live, wanted, lost>>

Loses ==
    /\ asked # <<>> /\ lost < MaxLost
    /\ lost' = lost + 1
    /\ asked' = Tail(asked)
    /\ UNCHANGED <<requests, startup, told, held, live, wanted, reports>>
-----------------------------------------------------------------------------
Module == ModuleObeys \/ ModuleAnswers \/ ModuleReports \/ Loses
Next ==
    \/ \E r \in Request : Refused(r) \/ timeout(r)
    \/ \E r \in Request, c \in Content : reply_to_get(r, c)
    \/ \E p \in Part : StartupQuery(p)
    \/ VelbusMessage \/ PushButtonStatus
    \/ Module

\* Timers fire.
Fairness == \A r \in Request : WF_vars(timeout(r))

Spec == Init /\ [][Next]_vars /\ Fairness
-----------------------------------------------------------------------------
TypeOK ==
    /\ content \in [Request -> Content \cup {None}]
    /\ phase \in [Request -> {"new", "waiting", "answered"}]
    /\ need_cmd \in [Request -> SUBSET Part]
    /\ total_msg \in [Request -> [Part -> Shown \cup {None}]]
    /\ listeners \in [Part -> SUBSET Request]
    /\ ahead \in [Request -> SUBSET Request]
    /\ timers \in SUBSET Request
    /\ responses \in [Request -> Seq({"answer", "timeout", "refused"})]
    /\ startup \in SUBSET Part
    /\ asked \in Seq(Command) /\ told \in Seq(Telegram)
    /\ held \in [Part -> Reading] /\ held["input"].code \in {0, 1}
    /\ live \in [Part -> Shown \cup {None}]
    /\ wanted \in [Part -> Expected]
    /\ reports \in Nat /\ lost \in Nat

\* A request is answered at most once, however answers, time-outs and reports
\* of the module race: each takes away what would let the other answer.
AnsweredOnce == \A r \in Request : Len(responses[r]) <= 1

\* Nothing of a request is left behind: it has a timer while it waits, and a
\* listener for each message it still needs, and none afterwards.
Attended ==
    \A r \in Request :
        /\ r \in timers <=> phase[r] = "waiting"
        /\ \A p \in Part :
              r \in listeners[p] <=> phase[r] = "waiting" /\ p \in need_cmd[r]

Asked(r) == IF content[r] = None THEN {} ELSE content[r].need

\* An answer has every message the request asked for.
AnswersWhole ==
    \A r \in Request : \A i \in 1 .. Len(responses[r]) :
        responses[r][i] = "answer" => \A p \in Asked(r) : total_msg[r][p] # None

\* What makes the three above inductive: a message that is no longer waited for
\* is in the answer, and only a request that waits for none was answered whole.
Followed ==
    \A r \in Request :
        /\ \A p \in Asked(r) \ need_cmd[r] : total_msg[r][p] # None
        /\ Len(responses[r]) = IF phase[r] = "answered" THEN 1 ELSE 0
        /\ \A i \in 1 .. Len(responses[r]) :
              responses[r][i] = "answer" => need_cmd[r] = {}
IInv == TypeOK /\ Attended /\ Followed

\* Each request is answered, also when a message or the module is lost.
EveryAnswered == \A r \in Request : phase[r] = "waiting" ~> phase[r] = "answered"

\* No command or message is on its way, and none was lost.
Quiet == asked = <<>> /\ told = <<>> /\ lost = 0

\* After start-up, when the bus is quiet, the live state has the status of each
\* configured control.
KnownAfterStart ==
    Quiet /\ startup = {} => \A p \in Configured : live[p] # None

\* When the bus is quiet, the live state shows what was posted last, as far as
\* the setting goes, whatever was asked or reported in the meantime: the words
\* and numbers of requests, commands, statuses and pages mean the same.
\* (Targets below zero are read in another way, and of a relay's time three
\* bytes are sent.)
Effective ==
    Quiet => \A p \in Part :
        /\ wanted[p].word # None => live[p] # None /\ live[p].word = wanted[p].word
        /\ wanted[p].number # None /\ wanted[p].number \in 0 .. Widest =>
              live[p] # None /\ live[p].number = wanted[p].number

\* What a number means to the module, and to bin/velbus-parse.pl.
Signed(p, tc) == IF p \in {"temp_status", "temperature"} /\ tc >= Threshold(p)
                 THEN tc - 2 * Threshold(p) ELSE tc

\* When the bus is quiet, the live state shows what the modules report or
\* answer, in whatever order these come, for temperatures above zero.
CurrentAboveZero ==
    Quiet => \A p \in Part : live[p] # None /\ Signed(p, held[p].number) >= 0 =>
                                 live[p] = parse(p, held[p])
=============================================================================
