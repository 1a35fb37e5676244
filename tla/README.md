# A TLA+ model of velbusd and velbusweb

This directory specifies the parts of this repository whose correctness depends
on the order of events: the gateway daemon `velbusd` (src/src/velbusd.cpp), the
interface module it drives, and the web server `velbusweb` (src/www) with its
pages. The modules are model-checked with TLC on small instances; the
invariants that matter most are proved with TLAPS for every value of the
constants.

To check one instance: `tlc -config MCVelbusd.cfg MCVelbusd`. To check one
module's proofs: `tlapm GatewayProofs.tla`. PROJECT.json lists the runs, a mutant of the
code that breaks each property, the source lines of each definition, the
hazards and the findings.

## 1. The system

    clients --TCP--\                            /--SockJS-- pages
                    velbusd --TCP-- velbusweb --
    Velbus --serial-/                           \--HTTP---- requests

| Part | State it keeps | Operations | What must be right |
|---|---|---|---|
| velbusd: event loop (`velbusd.cpp`) | list of connections, two watchers and a read buffer per connection, `bus_active`, `rx_ready` | `ready_to_read`, `process_read_data`, `incomming_connection`, kill one or all connections, start, end | no message lost, doubled or reordered; all clients see the same bus; nobody forgotten by the loop; no client without a bus |
| velbusd: flow control with the interface | the same flags; in the interface, room for messages | write a message and a status request, wait for `RxReady` | one message at a time; the interface is never overrun; the gate reopens |
| velbusd: frame parser (`VelbusMessage/`) | none | `parse_and_consume`, registry of types | one frame or one bad byte per call |
| velbusweb: velbusd client (`velbus.js`) | byte buffer, socket | cut frames, resynchronise, reconnect, build messages | every message once and in order, however the stream is cut |
| velbusweb: decoders (`velbusMessages/`) | position and motion of each blind | one `parse` per message type | numbers and names mean what the module meant |
| velbusweb: control requests (`controls/`) | one-shot listeners, a timer and the rest of the answer per HTTP request | GET, POST, time-out, message | each request answered once and whole; nothing left behind |
| velbusweb: live state and stream (`state.js`, `velbusweb.js`) | `properities`, one listener per page | `set`, `dump`, SockJS connection and close | pages show a state the server had, and end with its newest |
| velbusweb: bundle of control scripts (`velbusweb.js` 117-146) | the list of files to come and the contents so far, per request | a callback per file | one whole answer per request, whatever the order of the callbacks |
| event stream client (`sockjs-0.3.js`, `index.html` 190-209) | the SockJS object, its transports, the retry timer | ask for /info, try transports, greet, receive, close, back off | one connection at a time, which hears one session from its beginning; connected again after failures |
| pages (`public/index.html`, `public/js/controls/`) | replica of the state, icons, popovers, their clocks, sliders and fields | receive, reconnect, load scripts, open and close popovers, type, click | as above; icons shown; a popover shows and commands what it stands for |
| test bench (`test/`), rrdtool scripts, command-line decoder, Upstart jobs | none of their own | | |

Interactions: velbusd and the interface exchange frames on the serial line;
velbusd writes every frame to every TCP client but its author; velbusweb is one
such client. Inside velbusweb, `velbus.js` emits `message`, the decoders run in
turn on the same object, and two events with the decoded type call the
watchers that assign the state and the one-shot listeners of HTTP requests.
`state.set` emits an update for each listening page.

The hard behaviours: libev and Node run one callback at a time, so the hazards
are orders of callbacks, not data races. Watchers are stopped at one message
and started at another; connections die in the middle of a loop over
connections; memory is freed while libev still refers to it; answers, time-outs
and unsolicited reports race; connections, pages and both processes are lost
and come back in any state; a TCP stream is cut anywhere; in the page, clocks,
handlers and timers of closed popovers and replaced connections run on. PROJECT.json's
`hazards` lists each with its line.

## 2. The modules

| Module | What it is |
|---|---|
| `Velbusd` | the daemon's event loop; its environment is any sender on the bus and any clients |
| `Hub` | what the relay promises: one log, each member sees it without a gap |
| `Gateway` | `Velbusd` with the interface module and fairness |
| `GatewayProofs` | proofs about `Velbusd`, among them that it implements `Hub`, and about `Gateway` |
| `Framing` | frames as velbusd reads and writes them |
| `VelbusClient` | `velbus.js`, byte by byte |
| `BusToWeb` | from the bus to velbusweb: serial line, velbusd's parser, TCP stream, `VelbusClient` |
| `BusToWebProofs` | proofs about `Framing`, `VelbusClient` and `BusToWeb` |
| `ControlCodec` | commands and decoders of `controls/` and `velbusMessages/`, and what they mean to a module |
| `ControlRequest`, `ControlRequestProofs` | HTTP requests of `controls/`, start-up queries, live state and modules; proofs, also about `ControlCodec` |
| `BlindPosition` | `blindStatus.js`, the page's `blind.js` and a blind |
| `StateStream` | live state, event stream, pages |
| `Views` | what the stream promises a page |
| `StateStreamProofs` | proofs about `StateStream`; that it implements `Views` |
| `Bundle` | the callbacks behind `/js/controls.js` |
| `SockJS` | the event stream as the page's SockJS client sees it |
| `Page` | `SockJS` and `Bundle` together: a page that loads, connects and reconnects |
| `PageProofs` | proofs about `Bundle`, `SockJS` and `Page` |
| `Floorplan`, `FloorplanProofs` | icons, popovers, messages and clicks; proofs |
| `Duration` | the fields "for" and "until", and the button beside them |
| `DimmerSlider` | the slider of a dimmer, between the user and the module |
| `Popover` | one popover: `BlindPosition`, `DimmerSlider` or `Duration` |
| `PopoverProofs` | proofs about these four |
| `Induction` | induction over the natural numbers in a form that the provers can use |
| `MC*` | instances for TLC |

Each mutant operator stands right before the definition it replaces and is
marked as one; no specification uses it.

### Velbusd

A connection is an element of `Client`, used once as a `struct connection` is, or
`Serial`. Each libev watcher is modelled by the set of connections for which it
is active: `read_ready` (ev_io) and `processing_todo` (ev_idle). There is one
action per callback, and one disjunct per branch of it: `ready_to_read`,
`ReadFails` and `AssertionFails` are the callback of 162-193;
`process_read_data` has `InsufficientData`, `FormError`, the interface's four
flow messages, `FromBus`, `FromClient` and `SerialWriteFails`;
`incomming_connection` keeps or refuses. A relay loop chooses the set of
clients whose write fails. `Exit` and `Start` stop the process and start it
again, keeping or flushing what the driver held of the serial line.

Bytes are abstracted to items: a frame `[kind, src, n]` or one `Garbage` byte at
which no frame starts. `n` numbers what its author sends. A read takes any number
of items; zero stands for a frame that has arrived in part. A garbage header
that could start a frame, and holds back frames behind it until its length is
there, is `BusToWeb`'s matter.

Undefined behaviour is a choice. A destroyed connection with work left keeps an
idle entry in the loop (`freed_todo`): its callback may run on what the memory
still holds, on the struct of a new connection that got the memory, or end the
process. `undefined` records that this happened; `OneMessagePerReady` is stated
up to then, `WaitsForReply` and `NoOverrun` also up to the first restart and for
a daemon that waits for the interface's first answer (`FirstLife`).

### Gateway

The interface is hardware. It is modelled by what velbusd.cpp expects: a status
request is answered by the state of bus and buffer (156-160), a message may
fill the buffer, and a buffer that was reported full is reported empty. Its bus
stays on; `Velbusd` has `BusOff` at any time. The flow messages come from it
alone and no client asks for its status (`InterfaceAssumption`): the daemon would
take the answer to a client for its own (156-160 do not tell them apart).

### Framing, VelbusClient and BusToWeb

`Framing` has `parse_and_consume` as predicates on the buffer: `InsufficientData`
and `FormError` are its exceptions, `Frame`, `Consumed` and `Contents` what it
returns and leaves; and the four message classes whose `typeid` velbusd tests.

In `VelbusClient` `process_data` is a loop of actions, so a call that takes
nothing is a step that changes nothing: the counterexample to `Returns` stays
there. A message is any that the format can carry, of up to fifteen bytes of data
(`MessageAssumption`). `due`, `astray` and `torn` are history: what should still be emitted,
whether something else was, and whether a connection ended inside a frame. Its
4096-byte buffer is not exceeded.

`BusToWeb` puts them in a row. The interface writes whole frames on the serial
line (external), which may pick up noise between them; velbusd reads any
number of bytes, only when nothing is left to process, drops a byte where no
frame starts, keeps flow control to itself and writes all other frames to its
client, whose stream is cut anywhere again. One client is enough here, since
clients share nothing but the frames; what several do to each other, and flow
control, are `Velbusd`'s. `unparsed` and `misread` are history.

### ControlCodec and ControlRequest

A status is reduced to a code (relay and blind status, temperature mode, input)
and a number (timer, per cent, half degrees, 1/512 degrees), of which the
decoders make a word and a number. Both directions are there: `post_*` are the
bytes of the POST handlers, `Obeyed` what a module does at them, read from
bin/velbus-parse.pl, which is independent of the web server.

`reply_to_get` registers its listeners, its timer and its questions in one
step, as Node runs it; a POST puts its command before them (`Commands`), and
each request is any of the constant `Content`. `VelbusMessage` is the watchers
and all listeners of one message; all listeners of an input get one object, of
which the first takes the value (`Gets`). `StartupQuery` is the delayed query of
one control. The modules are external: they obey, answer and report in the
order in which they got the commands; commands may be lost. Time-outs fire at
any time after they are set. `wanted` is history: what was posted last; `Effective`
is stated for numbers that three bytes hold, which is all that a POST of a relay
sends (controls/relay.js 75). `None` is none of the values beside which it is used
(`NoneAssumption`, here and in `Floorplan`).

### BlindPosition

One tick moves the blind by one unit of its `Travel`. A status message may come
at any tick, many times, late or never. Three parties hold three views of the
blind: the decoder (`decoder`: sum, direction, since when), the page's replica
(`state`: status, position and its time) and the blind itself (`blind`). The
watcher of controls/blind.js 107-108 assigns status and position one after the
other, so a `BlindStatus` puts two messages into `updates`, and the page shows
what it has after each (`Update`, index.html 167-182). `run` is history: how
long the blind has moved as it was last reported to move. The model starts after
the first status, which decoder and page have had. Fractions and their rounding
are left out, page and server share a clock, and the configured time is taken as
the true one (the decoder's default of `msg.timeout - 5` is not known to the
page). The statuses "going up" and "going down" are written with an
underscore, since strings with spaces trouble the provers.

### StateStream

`todo` holds the assignments of the running handler, so that "a handler runs to
its end" is a guard (`Idle`) and a mutant can drop it. The keys are `00.state`
and two that one handler assigns together, as controls/relay.js 109-110. A connection is
open, or closed at the server and not yet at the page. `states` and `seen` are
history for the refinement. Of what an icon looks like there is only the class
that update() sets or removes (`Image`): an icon that was constructed as `Unknown`
has the classes of its type, so that the style rules of a later script apply to
it, but its update() does nothing. The rest of rendering, the back-off of reconnection and the
flattening of key paths are left out (`Page` has the back-off); a `connect`
handler is taken to be called at reconnections too, as `velbusweb.js` 19 expects.

### Bundle, SockJS and Page

In `Bundle` each `readFile` is a callback of its own. All of them share the
variable `fn`, so each takes the last name off the list `files` instead of its
own (`Spliced`); only the length of the list decides. A second answer to one
request throws and ends the process (`Alive`).

`SockJS` keeps the object as one record and changes it by functions named after
the methods (`didClose`, `try_next_protocol`, `didMessage`); an action is one
event of the browser. Each transport names a session of its own; the server
(sockjs-node, external) opens it, greets, writes numbered messages and forgets.
The lines of one chunk or answer are handed over one by one within one event
(`Hears`), while the transport still has its handlers.
A websocket brings one frame, a stream some lines of one answer, a poll one
answer. `Throws` is an exception in the page's handler: it leaves the loop over
the messages of a frame, and what is behind in the frame is lost.

`Page` composes the two, because one process serves both: the page's document
is complete, which some transports wait for (sockjs-0.3.js 1083), only when the
request for the bundle has ended, and when a bundle's second answer ends the
process every session is gone.

### Floorplan and Popover

A control's two keys, `lead` and `detail`, stand for those that one watcher
assigns one after the other. `update()` throws on a detail that is missing
(`Throws`), at once from `show()` or from the loop over a frame's messages. Each
"new" message makes a `generation` of icons; the old ones are not removed, since
`div.control` (index.html 154) is a class no icon has, and go on reading the
state object they were made for. `hideme`, `interval` and `that` are the click
handlers on the body, the clocks and the global variable of blind.js.

`Popover` is what moves inside one open popover. `Duration` has the texts of the
two fields by their form; times are in seconds; an hour below ten is written
with one digit, which `parse_datetime` does not read. The module's side is what
controls/relay.js and controls/temp.js make of the text, with the width of their
timers, and what bin/velbus-parse.pl 821-829 reads in it. The interval fires at most
a `Period` after the field that follows was written, and anything may be typed
or clicked in between, when that field is out of date. `DimmerSlider` has the
change handler that jQuery UI (external) calls at a release and at each value
that is written while the user does not drag; posts overtake each other.

## 3. What is checked

| Run | Instance | Properties | Bounds and why they are enough |
|---|---|---|---|
| `relay` | two clients, symmetric; a bus with all but `RxBuffFull`, garbage, a restart | `BusOffMeansNoClients`, `Served`; `BroadcastComplete`, `RelayAgreement`; `OneMessagePerReady`; `ImplementsHub` | one message each, two of the bus, one item in each kernel queue: a relay between two clients while a third party's write fails, or the bus goes off, needs no more |
| `gateway` | two clients with the interface, which also says `RxBuffFull` | `WaitsForReply`, `Conserved`, `NoOverrun`, `Delivered`, `GateReopens` | two messages each and queues of two, so that buffered work meets a closed gate and a read holds one, two or half a frame; no restart (see below) |
| `bus_to_web` | three messages of four kinds, noise once; a lost connection, a restart | `NeverMisread`, `HeldBack`; `Conserved`, `Faithful`, `Prompt` | messages of 0, 1 and 6 data bytes: the shortest frame, one at the loop's limit of seven bytes, and one that contains a frame header; noise of one byte, a header that announces more than a frame has, and one that only the checksum tells from a frame |
| `control_request` | any two requests: a POST of each kind, two GETs | `AnsweredOnce`, `Attended`, `AnswersWhole`, `EveryAnswered`; `KnownAfterStart`, `Effective`, `CurrentAboveZero` | two requests race in every way that more do, since listeners are sets; one query at start-up, one report and one loss, each of which any request may see |
| `state_stream` | two pages, two events, one lost connection, one restart | `ReplicaInSync`, `OnlineTold`, `ImplementsViews`, `Converges` | one assignment between dump and update is enough to break them |
| `popover` | each kind of popover: a blind of three units over eight ticks; three levels, two slides and a button; ten minutes in steps of thirty seconds, a day of twenty | `PopoverTypeOK`; `ExactAtEnd`, `SameEstimate`; `SliderShowsLamp`; `FieldsAgree`, `ClickIsMeant` | two full runs of a blind and a part, two reports and so four updates under way; a slide, a post, a status and a button meet in every order; durations of nothing, half a minute, a minute and a half and more, moments that pass while the popover is open, and the hours before ten; an interval of two steps, so that half of it may have passed at a click. Midnight, and the widths of the timers, are the proofs' |
| `floorplan` | two controls: two blinds, a relay and a gate, or a thermostat and a dimmer; two generations of icons | `OwnBlind`, `PopoverFresh` | two messages in a frame, of which the first may throw; one change on top of the answers to the page's own questions; two blinds are what one global variable needs |
| `page` | three kinds of browsers; two directories of two scripts and another file | `PageTypeOK`; `OneAttempt`, `Beginning`; `BundleWhole`, `Reconnects` | two failures of network, server or time-outs: one ends an object, one its successor or a transport before it; one failure of the file system; two messages, so that one can be lost behind the dump |

The type invariants of the modules whose runs do not list one are theorems
(`TypeCorrect`, `FloorplanTypes`, `BusTypes`) or part of a proved invariant.
CHECK_DEADLOCK is FALSE throughout because environments and starts are bounded:
a run really stops when they are used up.

Four runs show where the code does not do what it, its tests or its
documentation say:

- `assertion`: a client accepted between a message and the interface's `RxReady`
  is watched for input (velbusd.cpp:303), and when it sends, the assertion at
  165 ends the daemon.
- `freed_watcher`: `kill_connection` and `kill_all_connections` leave the idle
  watcher of a freed struct in the loop (106).
- `parser_hangs`: seven or more bytes of an unfinished frame make
  `process_data` loop for ever (velbus.js:44).
- `lights_stay_on`: a page whose full state arrives before `/js/controls.js`
  constructs every control as `Unknown` for good (index.html:160). The icon
  appears, since its classes are set (81-83) and the script's style rules match
  them when they come; but no update() of its type ever runs, so that a light
  that is off looks as one that is on, and its popover has no content. README.md:138
  of the repository calls the light's icon one of on and off.

What the models show of the code and no run is spent on:

- Below zero `twosComplement` (sensorTemperature.js:5) gives another temperature
  than the module meant, and than Parser-SensorTemp.sh expects: theorem
  `BelowZeroDiffers`. `CurrentAboveZero` is stated accordingly.
- A daemon that restarts while a message is on its way to the interface may
  write another before the first is answered: nothing of the gate survives.
  `WaitsForReply` is stated for the daemon's first life.
- Between the two updates of a blind's status the page shows the new status with
  the old position and its time. The percentage of a blind that starts after
  long rest jumps to its end, and that of one that stops falls back to the
  position last reported, until the second update comes. `ExactAtEnd` and
  `SameEstimate` are stated for a page that has both.
- A popover that is open when the page reconnects stays with its old icon; what
  it asks for is answered to the new one. `PopoverFresh` holds for the state that
  its own icon reads.
- update() of a thermostat in sleep mode whose timer has not come yet throws
  out of SockJS's loop, and the messages behind in the frame are lost; so do a
  relay and a blind. `Reconnects` is stated for a handler that does not throw.
- A popover whose update() throws while it opens has no content, asks for
  nothing, and no click closes it.
- Durations of more than 2^24 seconds lose their upper bits in a relay's timer;
  less than a minute is a timer of zero to a thermostat, which reads it as
  "cancel", as it reads an empty field that the page calls "until next step".
  `ClickIsMeant` is stated for what fits (`Fits`).
- When the moment in "until" passes, "for" becomes "<0", which is no duration:
  the button then switches the relay on for good. `Understood` excludes it.
- A file of the bundle that cannot be read is answered twice, which ends the
  process; a directory without a script is never answered.

### Fairness

`Velbusd` has none: it is only asked for safety. `Gateway` assumes that libev
calls active watchers back: weakly for idle watchers and accepts; strongly for
reads that take something, since in each iteration readable sockets are served
before idle watchers, which alone can stop them, and since a frame arrives in
finitely many pieces. libev serves idle watchers of one priority last-started
first; `Delivered` is therefore about finitely many messages. The interface answers
and drains (weakly fair). `VelbusClient`: a running loop goes on and what was
written arrives (only `parser_hangs` needs it; `BusToWeb` is asked for safety).
`ControlRequest`: timers fire. `StateStream`: a handler runs to its end, an open
connection delivers, a page is told by its browser that its connection is gone
and tries again for ever. `Page`: velbusweb, the network and the file system
answer, the browser hands over what has arrived and the end of a request, and
timers fire; nothing is assumed of failures, which are bounded. `Floorplan` and
`Popover` have none: they are only asked for safety. That the interval of a
duration fires in time is part of the guard of `TimePasses`, and an assumption: a
browser that slows the timers of a hidden page makes the lag longer.

## 4. What is proved

All proofs are for every value of the constants that satisfies the named
ASSUMEs of the module; TLC evaluates these on each run. PROJECT.json
lists the results, with the run's property that each states.

**The provers and induction.** The library's induction theorems take a
predicate as a parameter, which the installed provers cannot instantiate.
`Induction` proves induction for one set instead (`SetInduction`), from the
well-foundedness of the subsets of a finite set; a proof defines the set of the
lengths for which its statement holds. With it, what a recursive function
computes for every input is within reach: the bytes of a sequence of messages
(`Bytes`), the lines of an event (`Hears`), runs of numbered messages.

**velbusd** (`GatewayProofs`).

- The event loop. `TypeOK` is inductive. The four safety invariants are not
  inductive one by one: that `Served` survives `RxReady` needs to know that who is not
  watched is in `c_network`, that idle work implies `rx_ready` needs that no
  idle watcher is left when the gate closes, and all of them need that a
  stopped process keeps nothing (`Stopped`) and that a connection not yet
  accepted has no data (`FreshBuffers`). `IInv` is their conjunction; the proof
  has a lemma per action and branch. `GateKept` proves the action property
  `OneMessagePerReady` from it.
- The relay. `Refinement`: every step of the daemon is a step of `Hub` or a stutter,
  under the mapping `members <- c_network`, `view <- outbox`. It needs in
  addition that a client that is not yet connected was written nothing, so
  that it joins with an empty view. `RelayAgreed` follows from what `Hub`
  promises: each view is the log from some point on without its owner's entries.
- The messages. What `Conserved` and `BroadcastComplete` say of filtered
  sequences becomes inductive as `Streams`: what is on a line, then in a buffer,
  then written, are runs of consecutive numbers, one behind the other. Nine kinds
  of steps on lines (`LineStep`: a read, a drop, a relay, a lost connection ...)
  cover every branch of every action, so that runs are only reasoned about once
  per kind. `MessageInv` also knows that what has no number is never relayed
  (`Sources`).
- Flow control. `Dialogue`, in the daemon's first life: there is one status
  request or one `RxReady` under way or neither, an outstanding message goes before
  the request behind it, and a ready daemon faces an interface that has room,
  with nothing under way. `WaitsForReply` and `NoOverrun` follow. Steps of the
  daemon are of four kinds here, too: calm, one that opens the gate and thereby
  takes the only `RxReady`, and one that writes and closes it.

**From the bus to velbusweb** (`BusToWebProofs`).

- `ReadsBack`: for every message and any bytes behind it, the parser finds a
  frame, returns that message and leaves exactly those bytes. It only needs
  where the parts of a concatenation are (`Layout`), not what the sum of the
  bytes is.
- `BusInv`: the client's buffer and its connection, one behind the other, are the
  frames of the messages still due, for every way of cutting the stream into
  pieces; as long as the line has no noise, so are velbusd's buffer and the
  serial line. `StreamFront` is the lemma both parsers need: the first six bytes
  of such a stream are a header, and once as many bytes are there as it
  says, they are the first message. `Conserved`, `Faithful` and `Prompt` follow with noise
  on the serial line or without; `NeverMisread` and `HeldBack` are proved for a clean
  line. With noise they depend on which bytes it has (a well-formed frame may be
  picked up), so they stay with the run's three kinds of noise.
- `BusTypes`: types hold even after a connection ended inside a frame, when the
  count of bytes may be negative.

**velbusweb.**

- `ControlRequestProofs`. `Attended` is nearly inductive; `Followed` adds that
  what is no longer needed is in the answer, and how many responses each phase
  has. `AnsweredOnce` and `AnswersWhole` follow for any set of requests.
  `MeansTheSame` says, for every setting and every status before it, that what
  is posted, sent, obeyed, reported and decoded is shown as posted, and
  `BelowZeroDiffers` that of the targets below zero only -32 degrees is; they
  rest on the ranges of bytes proved before them.
- There, too, `ArrivalInv`, of what is on its way while nothing is lost: a question
  waits behind all orders to its module, or the last message about it, or else the
  live state, shows what the module holds (`Current`); what was asked for is
  known or will be (`Known`); what was posted last is the last order under way
  that sets its field, or is what the module holds (`Obedient`).
  `KnownAfterStart`, `Effective` and `CurrentAboveZero` are what is left of them
  when nothing is under way.
- `StateStreamProofs`. `StreamInv` says that the messages in a page's queue stand
  for consecutive states, the last of them the newest while the connection is
  open. `ReplicaInSync` and the refinement of `Views` follow. `HandlerInv` says
  what the running handler has yet to assign and which keys agree meanwhile;
  from it `OnlineTold`, and that every dump has a status together with its
  timer (`DumpsWhole`).

**The pages.**

- `PageProofs`, of the bundle. `BundleInv`: there are as many names on the list as
  files still to come, though other names (`Counted`), and while no call fails the
  scripts that are read are those in the body (`Collected`). It needs the cardinality of
  a set with an element removed, and that a listing is as long as its set.
- There, too, of the event stream: `SockJSInv`. An object hears at most one
  transport, the one it uses (`Sound`), so that no late event closes it twice;
  a closed one has one thing due (`Closed`); the frames in a box are the last of
  those written, numbered (`Boxes`); and what the page has got ends where the box
  begins (`Told`). `HearsLines` follows the lines of one event by induction.
  Transports are numbered without reuse, of which there must be enough: that
  each but the first costs a failure is part of the invariant (`Budget`), and that
  nothing was ever sent to a transport not yet tried (`Unused`). `OneAttempt` and
  `Beginning` follow for every browser and all bounds. `PageParts`: the composed
  page implements both of its parts; `PageTypes` and the rest carry over.
- `PopoverProofs`. Of a blind: the last two updates, under way or in the page, are
  the status and the position that the decoder goes by (`Agree`), from which
  `SameEstimate` follows; a reported motion has carried both the decoder's sum and
  the blind as far as it has lasted (`Carried`), so that with the first
  `ExactAtEnd` does. No message makes the decoder's sum jump (`Continuous`) and its
  error never grows while the report is true; what the page shows between two
  updates may jump, so neither is stated of it. Of a timer: `Follower` says what
  the field that leads has last written into the other and `OnTime` how long ago,
  `Idle` that without a leader the page does not show that it understood;
  `FieldsAgree` follows for every time, up to the `Period` of the interval, and
  with the ranges of two and three bytes `ClickIsMeant`. Of a dimmer: the last of
  what is on its way to the module is a question and the last of what is on its way back is the truth
  (`Queued`), so that only a change under way sets slider and lamp apart:
  `SliderShowsLamp`. `PopoverInv` is the conjunction, kept by the whole popover.
- `FloorplanProofs`. `OneWaits`: at most one icon waits to be hidden by the next
  click, and every popover with buttons does. Therefore the click that opens
  another blind's popover closes this one, and `OwnBlind` holds although the
  buttons share a variable. `FreshInv`: a status that is sent is whole, or its
  second key is in the message behind (`Proper`); a state that is half known, on
  which update() may throw, is completed by the next message (`HalfKnown`); and
  what an open popover reads does not make it throw (`Readable`). From it
  `PopoverFresh`, over every frame that an exception cuts short. Types are proved
  beside it.

**Only model-checked.** Everything under fairness (`Delivered`, `GateReopens`,
`EveryAnswered`, `Converges`, `Reconnects`), which the provers do not reach; and
`NeverMisread` and `HeldBack` on a line with noise. The four runs that find
a violation have nothing to prove.

## 5. What is not modelled

- Of SockJS: transports for pages of another site, sending (the page only
  listens) and work-arounds for old browsers; the other vendored libraries
  (jQuery, date.js, jquery.json) are used as they are and are most of the lines
  under src/www. What the models need of them is external.
- The estimate of the server's clock, the schedule editor's layout and the icons
  of the page.
- Requests for one field of a status, and the fields no control shows (LEDs,
  valve, schedule, sleep timer); the mask `& 0x03` of relayStatus.js, which
  leaves two of its cases out of reach, is translated as it is.
- The browser's rendering; the graphs.
- Options, PID file, fork, log files: sequential input and output before and
  beside the loop. Socket wrappers appear as the failures the loop meets.
- Loss on the serial line. velbusd has no time-out there; a lost `RxReady` or
  status request keeps the gate closed for good (hazard at velbusd.cpp:244).

## 6. Plan

Done, in order of importance: `Velbusd` with `Hub`, its invariants and
refinement; `Gateway`; `StateStream` with `Views`; `VelbusClient`; `BlindPosition`;
`ControlRequest` with `ControlCodec`; `Framing` and `BusToWeb`; `Bundle`, `SockJS`
and `Page`; `Floorplan`, `Duration`, `DimmerSlider` and `Popover`.

What could follow: an abstract request (asked, answered once) that
`ControlRequest` implements; `VelbusClient` after a torn frame and at its
buffer's limit, with frames abstracted to lengths; what changes at a module
while velbusd is away, which the queries at the first connection alone do not
find (relay.js:117); and a condition on noise under which `NeverMisread` can be
proved.
