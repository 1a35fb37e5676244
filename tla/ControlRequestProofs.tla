------------------------ MODULE ControlRequestProofs ------------------------
(***************************************************************************)
(* Requests are answered at most once and whole, and leave no listener or  *)
(* timer behind: for every set of requests, and every order of answers,    *)
(* time-outs and reports.                                                  *)
(***************************************************************************)
EXTENDS ControlRequest, TLAPS
-----------------------------------------------------------------------------
(* What is posted becomes a command that fits a message, what a module     *)
(* does at it leaves a reading, and what is read in its messages is a      *)
(* value of the live state: for every value posted and every reading.      *)

\* Three bytes hold one.
LEMMA WidestFact == Widest \in Nat /\ Widest >= 255
  BY SMT DEF Widest

\* Two bytes fit three.
LEMMA TwoBytesFact == \A n \in TwoBytes : n \in Wide
<1>1. \A n \in TwoBytes : n \in Int /\ 0 <= n /\ n <= 65535
  BY SMT DEF TwoBytes
<1>2. Widest >= 65535 /\ Widest \in Int
  BY SMT DEF Widest
<1> QED
  BY <1>1, <1>2 DEF Wide

\* What three bytes hold: bytes, per cent, and the rest of any number.
LEMMA WideFact ==
    /\ \A n \in Wide : n \in Nat
    /\ \A b \in Byte : b \in Wide
    /\ \A b \in 0 .. 100 : b \in Wide
    /\ \A n \in Int : n % (Widest + 1) \in Wide
<1>1. ASSUME NEW n \in Int PROVE n % (Widest + 1) \in Wide
  BY WidestFact DEF Wide
<1> QED
  BY <1>1, WidestFact DEF Wide, Byte

\* A setting fits a byte.
LEMMA SettingByteFact == ASSUME NEW tt \in Int PROVE SettingByte(tt) \in Byte
  BY DEF SettingByte, Byte

\* What can be posted becomes an order to a module.
LEMMA PostFact ==
    ASSUME NEW s \in Setting
    PROVE  post(s) \in Order
<1>0. 0 \in Wide
  BY WideFact DEF Byte
<1>1. CASE s \in RelaySetting
  BY WideFact, <1>1 DEF RelaySetting, post, post_relay, Order, Byte
<1>2. CASE s \in BlindSetting
  BY <1>0, <1>2 DEF BlindSetting, post, post_blind, Order, Byte
<1>3. CASE s \in DimmerSetting
  BY <1>3, WideFact DEF DimmerSetting, post, post_dimmer, Order, Byte
<1>4. CASE s \in TempSetting
  <2>1. s.number \in Int
    BY <1>4 DEF TempSetting
  <2>2. SettingByte(s.number) \in Wide
    BY <2>1, SettingByteFact, WideFact
  <2> QED
   BY <1>4, <2>2 DEF TempSetting, post, post_temp, Order, Byte
<1> QED
  BY <1>1, <1>2, <1>3, <1>4 DEF Setting

\* What is asked for is a question.
LEMMA AskFact == ASSUME NEW p \in Part PROVE ask(p) \in Question
  BY DEF ask, Question

\* A module that obeys an order has a status.
LEMMA ObeyedFact ==
    ASSUME NEW c \in Order, NEW was \in Reading
    PROVE  Obeyed(c, was) \in Reading
<1>0. 0 \in Wide /\ c.number \in Wide
  BY WideFact DEF Byte, Order
<1>1. CASE c.to = "relay"
  BY <1>0, <1>1 DEF Obeyed, SwitchRelay, Reading, Byte
<1>2. CASE c.to = "blind"
  BY <1>0, <1>2 DEF Obeyed, SwitchBlind, Reading, Byte
<1>3. CASE c.to = "dimmer"
  BY <1>0, <1>3 DEF Obeyed, SetDimvalue, Reading, Byte
<1>4. CASE c.to = "temp_status" /\ c.op = 228
  BY <1>0, <1>4 DEF Obeyed, SetTemperature, Reading, Byte
<1>5. CASE c.to = "temp_status" /\ c.op # 228
  BY <1>5 DEF Obeyed, SwitchToMode, Reading, Byte
<1> QED
  BY <1>1, <1>2, <1>3, <1>4, <1>5 DEF Order

\* Each status is shown.
LEMMA ParseFact ==
    ASSUME NEW p \in Part, NEW v \in Reading
    PROVE  parse(p, v) \in Shown
<1>v. v.code \in 0..255 /\ v.number \in Nat
  BY WideFact DEF Reading, Byte
<1>0. /\ v.code % 4 \in {0,1,2,3}
      /\ (v.code \div 16) % 8 \in {0,1,2,3,4,5,6,7}
  BY <1>v
<1>9. twosComplement(p, v.number) \in Int
  BY <1>v, SMT DEF twosComplement, Threshold
<1>1. CASE p = "relay"
  BY <1>v, <1>0, <1>1 DEF parse, relayStatus, Shown, Word
<1>2. CASE p = "blind"
  BY <1>0, <1>2 DEF parse, blindStatus, Shown, Word
<1>3. CASE p = "dimmer"
  BY <1>v, <1>3 DEF parse, dimmerStatus, Shown, Word
<1>4. CASE p = "input"
  BY <1>4 DEF parse, moduleStatus, Shown, Word
<1>5. CASE p = "temp_status"
  BY <1>0, <1>9, <1>5 DEF parse, tempSensorStatus, TempMode, Shown, Word
<1>6. CASE p = "temperature"
  BY <1>9, <1>6 DEF parse, sensorTemperature, Shown, Word
<1> QED
  BY <1>1, <1>2, <1>3, <1>4, <1>5, <1>6 DEF Part

\* So is a push button status.
LEMMA PushButtonFact == \A v \in Reading : pushButtonStatus(v) \in Shown
  BY DEF pushButtonStatus, Shown, Word
-----------------------------------------------------------------------------
(* The requests.                                                           *)

\* What a request asks for, and what it sets.
LEMMA ContentFact ==
    ASSUME NEW c \in Content
    PROVE  /\ c # None /\ c.need \in SUBSET Part
           /\ c.setting # None => c.setting \in Setting /\ c.setting.to \in Part
<1>1. ASSUME c.setting # None PROVE c.setting \in Setting /\ c.setting.to \in Part
  BY <1>1, ContentAssumption
<1> QED
  BY <1>1, ContentAssumption, NoneAssumption

\* What is sent for a request is a sequence of commands.
LEMMA CommandsFact ==
    ASSUME NEW c \in Content
    PROVE  Commands(c) \in Seq(Command)
<1>1. Posted(c) \in Seq(Command)
  <2>1. CASE c.setting = None
    BY <2>1 DEF Posted
  <2>2. CASE c.setting # None
    <3>1. post(c.setting) \in Command
      BY <2>2, ContentFact, PostFact DEF Command
    <3> QED
      BY <2>2, <3>1 DEF Posted
  <2> QED
    BY <2>1, <2>2
<1>2. \A p \in Part : ask(p) \in Command
  BY AskFact DEF Command
<1>3. Questions(c) \in Seq(Command)
  BY <1>2 DEF Questions, Part
<1> QED
  BY <1>1, <1>3 DEF Commands

\* What is expected of a setting is a value of the live state, or a part of one.
LEMMA WishFact ==
    ASSUME NEW s \in Setting
    PROVE  Wish(s) \in Expected
<1>1. post(s).number \in Int
  BY PostFact, WideFact DEF Order
<1>2. s.number \in Int
  BY WideFact DEF Setting, RelaySetting, BlindSetting, DimmerSetting, TempSetting
<1>3. s.word \in {"on", "off", "timer", "up", "down", "stop", "dim", "target",
                  "comfort", "day", "night", "safe"}
  BY DEF Setting, RelaySetting, BlindSetting, DimmerSetting, TempSetting
<1>4. Wish(s).word \in Word \cup {None}
  BY <1>3 DEF Wish, Word
<1>5. Wish(s).number \in Int \cup {None}
  BY <1>1, <1>2 DEF Wish
<1> QED
  BY <1>4, <1>5 DEF Wish, Expected

LEMMA WantsFact ==
    ASSUME NEW c \in Content, wanted \in [Part -> Expected], Wants(c)
    PROVE  wanted' \in [Part -> Expected]
<1>1. CASE c.setting = None
  BY <1>1 DEF Wants
<1>2. CASE c.setting # None
  <2> DEFINE to == c.setting.to
             new == [word |-> Updated(wanted[to].word, Wish(c.setting).word),
                     number |-> Updated(wanted[to].number, Wish(c.setting).number)]
  <2>1. to \in Part /\ Wish(c.setting) \in Expected
    BY <1>2, ContentFact, WishFact DEF Expected
  <2>2. wanted[to] \in Expected
    BY <2>1
  <2>3. new \in Expected
    BY <2>1, <2>2 DEF Expected, Updated
  <2>4. wanted' = [wanted EXCEPT ![to] = new]
    BY <1>2 DEF Wants
  <2> HIDE DEF new, to
  <2> QED
    BY <2>3, <2>4
<1> QED
  BY <1>1, <1>2

\* A sensor's reading is one.
LEMMA MeasuredFact == \A t \in Measured : t \in Wide
  BY MeasuredAssumption, TwoBytesFact

\* The value that a request gets is one of the live state.
LEMMA GetsFact ==
    ASSUME NEW r \in Request, NEW p \in Part, NEW value \in Shown
    PROVE  Gets(r, p, value) \in Shown /\ Gets(r, p, value) # None
  BY NoneAssumption DEF Gets, Shown, Word

\* What a message does: the requests that listen for it have it, those that
\* lacked nothing else are answered.
Delivered(p, value) ==
    /\ live' = [live EXCEPT ![p] = value]
    /\ told' \in Seq(Telegram)
    /\ need_cmd' = [r \in Request |-> IF r \in listeners[p]
                                      THEN need_cmd[r] \ {p} ELSE need_cmd[r]]
    /\ total_msg' = [r \in Request |-> IF r \in listeners[p]
                        THEN [total_msg[r] EXCEPT ![p] = Gets(r, p, value)]
                        ELSE total_msg[r]]
    /\ listeners' = [listeners EXCEPT ![p] = {}]
    /\ timers' = timers \ Complete(p)
    /\ phase' = [r \in Request |-> IF r \in Complete(p) THEN "answered" ELSE phase[r]]
    /\ responses' = [r \in Request |-> IF r \in Complete(p)
                                       THEN Append(responses[r], "answer")
                                       ELSE responses[r]]
    /\ UNCHANGED <<content, ahead, startup, asked, held, wanted, reports, lost>>

LEMMA MessageFacts ==
    ASSUME TypeOK, VelbusMessage
    PROVE  \E p \in Part, value \in Shown : Delivered(p, value)
<1> DEFINE p == Head(told).part
           value == parse(p, Head(told).reading)
<1>1. Head(told) \in Telegram /\ Tail(told) \in Seq(Telegram)
  BY DEF VelbusMessage, TypeOK
<1>2. p \in Part /\ Head(told).reading \in Reading
  BY <1>1 DEF Telegram, VelbusMessage
<1>3. value \in Shown
  BY <1>2, ParseFact
<1>4. Delivered(p, value)
  BY <1>1 DEF VelbusMessage, Cleared, counters, Delivered
<1> HIDE DEF p, value
<1> QED
  BY <1>2, <1>3, <1>4
-----------------------------------------------------------------------------
\* What is shown once the module has obeyed what was posted.
After(s, was) == parse(s.to, Obeyed(post(s), was))

\* What is posted, sent, obeyed, reported and shown means the same, for every
\* setting and whatever the status was before: the word as expected, and each
\* number from zero that three bytes hold.
THEOREM MeansTheSame ==
    ASSUME NEW s \in Setting, NEW was \in Reading
    PROVE  /\ Wish(s).word # None => After(s, was).word = Wish(s).word
           /\ Wish(s).number # None /\ Wish(s).number \in 0 .. Widest =>
                 After(s, was).number = Wish(s).number
<1>w. Widest \in Nat /\ Widest >= 255 /\ \A n \in 0 .. Widest : n % (Widest + 1) = n
  BY WidestFact
<1>1. CASE s \in RelaySetting
  BY <1>1, <1>w DEF RelaySetting, After, Wish, parse, Obeyed, post, post_relay,
                    SwitchRelay, relayStatus
<1>2. CASE s \in BlindSetting
  BY <1>2 DEF BlindSetting, After, Wish, parse, Obeyed, post, post_blind,
              SwitchBlind, blindStatus
<1>3. CASE s \in DimmerSetting
  <2>1. s.to = "dimmer" /\ s.word = "dim"
    BY <1>3 DEF DimmerSetting
  <2>2. post(s).to = "dimmer"
    BY <2>1 DEF post, post_dimmer
  <2>3. After(s, was).number = post(s).number
    BY <2>1, <2>2 DEF After, parse, Obeyed, SetDimvalue, dimmerStatus
  <2>4. Wish(s).word = None /\ Wish(s).number = post(s).number
    BY <2>1 DEF Wish
  <2> QED
    BY <2>3, <2>4
<1>4. CASE s \in TempSetting
  <2>1. CASE s.word = "target"
    <3>1. s.number \in -128 .. 127 /\ s.to = "temp_status"
      BY <1>4, <2>1 DEF TempSetting
    <3>2. After(s, was).number = twosComplement("temp_status", SettingByte(s.number))
      BY <2>1, <3>1 DEF After, parse, Obeyed, post, post_temp, SetTemperature,
                        tempSensorStatus
    <3>3. s.number >= 0 => twosComplement("temp_status", SettingByte(s.number)) = s.number
      BY <3>1 DEF twosComplement, Threshold, SettingByte
    <3>4. Wish(s).word = None /\ Wish(s).number = s.number
      BY <2>1 DEF Wish
    <3> QED
      BY <3>1, <3>2, <3>3, <3>4
  <2>2. CASE s.word # "target"
    BY <1>4, <2>2 DEF TempSetting, After, Wish, parse, Obeyed, post, post_temp,
                      SwitchToMode, tempSensorStatus, TempMode
  <2> QED
    BY <2>1, <2>2
<1> QED
  BY <1>1, <1>2, <1>3, <1>4 DEF Setting

\* A target below zero is sent in two's complement and read in another way: of
\* all of them only -32 degrees is shown as it was posted.
THEOREM BelowZeroDiffers ==
    ASSUME NEW s \in TempSetting, s.word = "target", s.number < 0, s.number # -64,
           NEW was \in Reading
    PROVE  After(s, was).number # s.number
<1>1. s.number \in -128 .. 127 /\ s.to = "temp_status"
  BY DEF TempSetting
<1>2. After(s, was).number = twosComplement("temp_status", SettingByte(s.number))
  BY <1>1 DEF After, parse, Obeyed, post, post_temp, SetTemperature, tempSensorStatus
<1>3. SettingByte(s.number) = s.number + 256
  BY <1>1 DEF SettingByte
<1> QED
  BY <1>1, <1>2, <1>3 DEF twosComplement, Threshold
-----------------------------------------------------------------------------
\* The initial state.
LEMMA Initially == Init => IInv
<1> SUFFICES ASSUME Init PROVE IInv
  OBVIOUS
<1>1. TypeOK
  <2>1. PICK t \in Measured :
          held = [p \in Part |-> [code |-> 0,
                                  number |-> IF p = "temperature" THEN t ELSE 0]]
    BY DEF Init
  <2>2. t \in Wide /\ 0 \in Wide
    BY MeasuredFact, WideFact DEF Byte
  <2>3. held \in [Part -> Reading]
    BY <2>1, <2>2 DEF Reading, Byte
  <2>4. wanted \in [Part -> Expected]
    BY DEF Init, Unset, Expected
  <2>5. startup \in SUBSET Part
    BY ConfiguredAssumption DEF Init
  <2>6. held["input"].code \in {0, 1}
    BY <2>1 DEF Part
  <2> QED
    BY <2>3, <2>4, <2>5, <2>6 DEF Init, TypeOK
<1>2. Attended
  BY DEF Init, Attended
<1>3. Followed
  <2>1. ASSUME NEW r \in Request
        PROVE  phase[r] = "new" /\ Asked(r) = {} /\ responses[r] = <<>>
    BY DEF Init, Asked
  <2> QED
    BY <2>1 DEF Followed
<1> QED
  BY <1>1, <1>2, <1>3 DEF IInv

\* Every step keeps the types.
LEMMA TypeStep == TypeOK /\ [Next]_vars => TypeOK'
<1> SUFFICES ASSUME TypeOK, [Next]_vars PROVE TypeOK'
  OBVIOUS
<1> USE DEF TypeOK
<1>1. ASSUME NEW r \in Request, Refused(r) PROVE TypeOK'
  BY <1>1 DEF Refused, Sends, bus, counters
<1>2. ASSUME NEW r \in Request, NEW c \in Content, reply_to_get(r, c) PROVE TypeOK'
  <2>1. asked' \in Seq(Command)
    BY <1>2, CommandsFact DEF reply_to_get
  <2>2. listeners' \in [Part -> SUBSET Request]
    BY <1>2 DEF reply_to_get
  <2>3. wanted' \in [Part -> Expected]
    BY <1>2, WantsFact DEF reply_to_get
  <2>4. need_cmd' \in [Request -> SUBSET Part]
    BY <1>2, ContentFact DEF reply_to_get
  <2>5. /\ phase' \in [Request -> {"new", "waiting", "answered"}]
        /\ content' \in [Request -> Content \cup {None}]
        /\ ahead' \in [Request -> SUBSET Request]
        /\ timers' \in SUBSET Request
    BY <1>2 DEF reply_to_get
  <2> QED
    BY <1>2, <2>1, <2>2, <2>3, <2>4, <2>5 DEF reply_to_get, counters
<1>3. ASSUME NEW r \in Request, timeout(r) PROVE TypeOK'
  BY <1>3 DEF timeout, Sends, RemoveListener, bus, counters
<1>4. ASSUME NEW p \in Part, StartupQuery(p) PROVE TypeOK'
  <2>1. <<ask(p)>> \in Seq(Command)
    BY AskFact DEF Command
  <2> QED
    BY <1>4, <2>1 DEF StartupQuery, QueryFor, requests, counters
<1>5. CASE VelbusMessage
  <2>1. PICK p \in Part, value \in Shown : Delivered(p, value)
    BY <1>5, MessageFacts
  <2>2. total_msg' \in [Request -> [Part -> Shown \cup {None}]]
    <3>1. \A r \in Request : Gets(r, p, value) \in Shown
      BY GetsFact
    <3>2. \A r \in Request :
             [total_msg[r] EXCEPT ![p] = Gets(r, p, value)] \in [Part -> Shown \cup {None}]
      BY <3>1
    <3> QED
      BY <2>1, <3>2 DEF Delivered
  <2>3. responses' \in [Request -> Seq({"answer", "timeout", "refused"})]
    BY <2>1 DEF Delivered
  <2>4. /\ live' \in [Part -> Shown \cup {None}]
        /\ need_cmd' \in [Request -> SUBSET Part]
        /\ listeners' \in [Part -> SUBSET Request]
        /\ timers' \in SUBSET Request
        /\ phase' \in [Request -> {"new", "waiting", "answered"}]
    BY <2>1 DEF Delivered
  <2> QED
    BY <2>1, <2>2, <2>3, <2>4 DEF Delivered
<1>6. CASE PushButtonStatus
  <2>1. Head(told) \in Telegram /\ Tail(told) \in Seq(Telegram)
    BY <1>6 DEF PushButtonStatus
  <2>2. pushButtonStatus(Head(told).reading) \in Shown
    BY <2>1, PushButtonFact DEF Telegram
  <2> QED
    BY <1>6, <2>1, <2>2 DEF PushButtonStatus, requests, counters
<1>7. CASE Module
  <2>1. ASSUME ModuleObeys PROVE TypeOK'
    <3>1. Head(asked) \in Command /\ Tail(asked) \in Seq(Command)
      BY <2>1 DEF ModuleObeys
    <3>2. Head(asked) \in Order
      BY <2>1, <3>1 DEF ModuleObeys, IsQuestion, Command, Question
    <3> DEFINE to == Head(asked).to
               new == Obeyed(Head(asked), held[to])
    <3>3. to \in Part /\ to # "input"
      BY <3>2 DEF Order, Part
    <3>4. new \in Reading
      BY <3>2, <3>3, ObeyedFact
    <3>5. held' = [held EXCEPT ![to] = new]
      BY <2>1 DEF ModuleObeys
    <3> HIDE DEF to, new
    <3>6. held' \in [Part -> Reading] /\ held'["input"].code \in {0, 1}
      BY <3>3, <3>4, <3>5 DEF Part
    <3> QED
      BY <2>1, <3>1, <3>6 DEF ModuleObeys, requests, counters
  <2>2. ASSUME ModuleAnswers PROVE TypeOK'
    <3>1. Head(asked) \in Command /\ Tail(asked) \in Seq(Command)
      BY <2>2 DEF ModuleAnswers
    <3>2. Head(asked).to \in Part
      BY <3>1 DEF Command, Question, Order, Part
    <3>3. [part |-> Head(asked).to, reading |-> held[Head(asked).to]] \in Telegram
      BY <3>2 DEF Telegram
    <3>4. told' \in Seq(Telegram)
      BY <2>2, <3>3 DEF ModuleAnswers, Tell
    <3> QED
      BY <2>2, <3>1, <3>4 DEF ModuleAnswers, requests, counters
  <2>3. ASSUME SensorReports PROVE held' \in [Part -> Reading] /\ told' \in Seq(Telegram)
                                   /\ held'["input"].code \in {0, 1}
    <3>1. PICK t \in Measured :
              /\ held' = [held EXCEPT !["temperature"] = [code |-> 0, number |-> t]]
              /\ Tell("temperature", [code |-> 0, number |-> t])
      BY <2>3 DEF SensorReports
    <3>2. [code |-> 0, number |-> t] \in Reading
      BY MeasuredFact DEF Reading, Byte
    <3>3. [part |-> "temperature", reading |-> [code |-> 0, number |-> t]] \in Telegram
      BY <3>2 DEF Telegram, Part
    <3>4. told' \in Seq(Telegram)
      BY <3>1, <3>3 DEF Tell
    <3>5. held' \in [Part -> Reading] /\ held'["input"].code \in {0, 1}
      BY <3>1, <3>2 DEF Part
    <3> QED
      BY <3>4, <3>5
  <2>4. ASSUME InputReports PROVE held' \in [Part -> Reading] /\ told' \in Seq(Telegram)
                                  /\ held'["input"].code \in {0, 1}
    <3> DEFINE pressed == 1 - held["input"].code
    <3>1. pressed \in {0, 1} /\ 1 - pressed \in {0, 1}
      OBVIOUS
    <3>2. /\ held' = [held EXCEPT !["input"] = [code |-> pressed, number |-> 0]]
          /\ Tell("push_button", [code |-> pressed, number |-> 1 - pressed])
      BY <2>4 DEF InputReports
    <3>3. 0 \in Wide /\ 1 \in Wide
      BY WideFact DEF Byte
    <3> HIDE DEF pressed
    <3>4. [code |-> pressed, number |-> 0] \in Reading
          /\ [code |-> pressed, number |-> 1 - pressed] \in Reading
      BY <3>1, <3>3 DEF Reading, Byte
    <3>5. told' \in Seq(Telegram)
      BY <3>2, <3>4 DEF Tell, Telegram
    <3>6. held' \in [Part -> Reading] /\ held'["input"].code \in {0, 1}
      BY <3>1, <3>2, <3>4 DEF Part
    <3> QED
      BY <3>5, <3>6
  <2>5. ASSUME ModuleReports PROVE TypeOK'
    BY <2>3, <2>4, <2>5 DEF ModuleReports, requests
  <2>6. ASSUME Loses PROVE TypeOK'
    BY <2>6 DEF Loses, requests
  <2> QED
    BY <1>7, <2>1, <2>2, <2>5, <2>6 DEF Module
<1>8. CASE UNCHANGED vars
  BY <1>8 DEF vars
<1> QED
  BY <1>1, <1>2, <1>3, <1>4, <1>5, <1>6, <1>7, <1>8 DEF Next

\* Every step keeps requests attended to.
LEMMA AttendedStep == IInv /\ [Next]_vars => Attended'
<1> SUFFICES ASSUME IInv, [Next]_vars PROVE Attended'
  OBVIOUS
<1> USE DEF IInv
<1>1. ASSUME NEW r \in Request, Refused(r) PROVE Attended'
  <2>1. phase' = [phase EXCEPT ![r] = "answered"] /\ phase[r] = "new"
        /\ UNCHANGED <<need_cmd, listeners, timers>>
    BY <1>1 DEF Refused
  <2> QED
    BY <2>1 DEF Attended, TypeOK
<1>2. ASSUME NEW r \in Request, NEW c \in Content, reply_to_get(r, c) PROVE Attended'
  <2>1. /\ phase[r] = "new" /\ phase' = [phase EXCEPT ![r] = "waiting"]
        /\ listeners' = [p \in Part |-> IF p \in c.need THEN listeners[p] \cup {r}
                                        ELSE listeners[p]]
        /\ timers' = timers \cup {r}
        /\ need_cmd' = [need_cmd EXCEPT ![r] = c.need]
    BY <1>2 DEF reply_to_get
  <2>2. \A q \in Request : need_cmd'[q] = IF q = r THEN c.need ELSE need_cmd[q]
    BY <2>1 DEF TypeOK
  <2>3. ASSUME NEW q \in Request
        PROVE  /\ q \in timers' <=> phase'[q] = "waiting"
               /\ \A p \in Part :
                    q \in listeners'[p] <=> phase'[q] = "waiting" /\ p \in need_cmd'[q]
    <3>1. phase'[q] = IF q = r THEN "waiting" ELSE phase[q]
      BY <2>1 DEF TypeOK
    <3>2. /\ q \in timers <=> phase[q] = "waiting"
          /\ \A p \in Part :
               q \in listeners[p] <=> phase[q] = "waiting" /\ p \in need_cmd[q]
      BY DEF Attended
    <3>3. CASE q = r
      BY <2>1, <2>2, <3>1, <3>2, <3>3
    <3>4. CASE q # r
      BY <2>1, <2>2, <3>1, <3>2, <3>4
    <3> QED
      BY <3>3, <3>4
  <2> QED
    BY <2>3 DEF Attended
<1>3. ASSUME NEW r \in Request, timeout(r) PROVE Attended'
  <2>1. /\ phase' = [phase EXCEPT ![r] = "answered"]
        /\ listeners' = [p \in Part |-> listeners[p] \ {r}]
        /\ timers' = timers \ {r}
        /\ UNCHANGED need_cmd
    BY <1>3 DEF timeout, RemoveListener
  <2> QED
    BY <2>1 DEF Attended, TypeOK
<1>4. CASE VelbusMessage
  <2>1. PICK p \in Part, value \in Shown : Delivered(p, value)
    BY <1>4, MessageFacts
  <2>2. ASSUME NEW q \in Request
        PROVE  /\ q \in timers' <=> phase'[q] = "waiting"
               /\ \A o \in Part :
                    q \in listeners'[o] <=> phase'[q] = "waiting" /\ o \in need_cmd'[q]
    <3>1. /\ q \in timers <=> phase[q] = "waiting"
          /\ \A o \in Part :
               q \in listeners[o] <=> phase[q] = "waiting" /\ o \in need_cmd[q]
      BY DEF Attended
    <3>2. \A o \in Part : listeners'[o] = IF o = p THEN {} ELSE listeners[o]
      BY <2>1 DEF TypeOK, Delivered
    <3>3. CASE q \in Complete(p)
      <4>1. q \in listeners[p] /\ need_cmd[q] \subseteq {p}
        BY <3>3 DEF Complete
      <4>2. \A o \in Part : q \notin listeners'[o]
        BY <3>1, <3>2, <4>1
      <4> QED
        BY <2>1, <3>3, <4>2 DEF Delivered
    <3>4. CASE q \notin Complete(p)
      <4>1. phase'[q] = phase[q] /\ (q \in timers' <=> q \in timers)
        BY <2>1, <3>4 DEF Delivered
      <4>2. need_cmd'[q] = IF q \in listeners[p] THEN need_cmd[q] \ {p}
                           ELSE need_cmd[q]
        BY <2>1 DEF Delivered
      <4> QED
        BY <3>1, <3>2, <4>1, <4>2
    <3> QED
      BY <3>3, <3>4
  <2> QED
    BY <2>2 DEF Attended
<1>5. ASSUME \/ \E p \in Part : StartupQuery(p)
             \/ PushButtonStatus \/ Module \/ UNCHANGED vars
      PROVE  Attended'
  <2>1. UNCHANGED requests
    BY <1>5 DEF StartupQuery, PushButtonStatus, Module, ModuleObeys, ModuleAnswers,
                ModuleReports, Loses, vars, requests
  <2> QED
    BY <2>1 DEF requests, Attended
<1> QED
  BY <1>1, <1>2, <1>3, <1>4, <1>5 DEF Next

\* Every step keeps what an answer has and how often it was given.
LEMMA FollowedStep == IInv /\ [Next]_vars => Followed'
<1> SUFFICES ASSUME IInv, [Next]_vars PROVE Followed'
  OBVIOUS
<1> USE DEF IInv
<1> DEFINE Ok(asks, need, total, ph, resp, q) ==
        /\ \A p \in asks \ need[q] : total[q][p] # None
        /\ Len(resp[q]) = IF ph[q] = "answered" THEN 1 ELSE 0
        /\ \A i \in 1 .. Len(resp[q]) : resp[q][i] = "answer" => need[q] = {}
<1>a. \A q \in Request : Ok(Asked(q), need_cmd, total_msg, phase, responses, q)
  BY DEF Followed
<1>c. ASSUME UNCHANGED content PROVE \A q \in Request : Asked(q)' = Asked(q)
  BY <1>c DEF Asked
<1>d. \A q \in Request : Asked(q) \subseteq Part
  BY ContentFact DEF Asked, TypeOK
<1>b. ASSUME NEW r \in Request, NEW word \in {"timeout", "refused"},
             phase[r] # "answered",
             phase' = [phase EXCEPT ![r] = "answered"],
             Sends(r, word), UNCHANGED <<content, need_cmd, total_msg>>
      PROVE  Followed'
  <2>1. ASSUME NEW q \in Request
        PROVE  Ok(Asked(q)', need_cmd', total_msg', phase', responses', q)
    <3>1. CASE q = r
      <4>1. Len(responses[r]) = 0
        BY <1>a, <1>b
      <4>2. responses'[r] = <<word>>
        BY <1>b, <4>1 DEF Sends, TypeOK
      <4>3. phase'[r] = "answered"
        BY <1>b DEF TypeOK
      <4>4. /\ Len(responses'[r]) = 1
            /\ \A i \in 1 .. Len(responses'[r]) : responses'[r][i] # "answer"
        BY <4>2
      <4> QED
        BY <1>a, <1>b, <1>c, <3>1, <4>3, <4>4
    <3>2. CASE q # r
      <4>1. phase'[q] = phase[q] /\ responses'[q] = responses[q]
        BY <1>b, <3>2 DEF Sends, TypeOK
      <4> QED
        BY <1>a, <1>b, <1>c, <4>1
    <3> QED
      BY <3>1, <3>2
  <2> QED
    BY <2>1 DEF Followed
<1>1. ASSUME NEW r \in Request, Refused(r) PROVE Followed'
  BY <1>1, <1>b DEF Refused
<1>2. ASSUME NEW r \in Request, NEW c \in Content, reply_to_get(r, c) PROVE Followed'
  <2>1. /\ phase[r] = "new" /\ phase' = [phase EXCEPT ![r] = "waiting"]
        /\ content' = [content EXCEPT ![r] = c]
        /\ need_cmd' = [need_cmd EXCEPT ![r] = c.need]
        /\ UNCHANGED <<total_msg, responses>>
    BY <1>2 DEF reply_to_get
  <2>2. ASSUME NEW q \in Request
        PROVE  Ok(Asked(q)', need_cmd', total_msg', phase', responses', q)
    <3>1. CASE q = r
      <4>1. phase'[r] = "waiting" /\ content'[r] = c /\ need_cmd'[r] = c.need
        BY <2>1 DEF TypeOK
      <4>2. Asked(r)' \ need_cmd'[r] = {}
        BY <4>1 DEF Asked
      <4>3. Len(responses'[r]) = 0
        BY <1>a, <2>1
      <4> QED
        BY <3>1, <4>1, <4>2, <4>3
    <3>2. CASE q # r
      <4>1. phase'[q] = phase[q] /\ content'[q] = content[q]
            /\ need_cmd'[q] = need_cmd[q]
        BY <2>1, <3>2 DEF TypeOK
      <4>2. Asked(q)' = Asked(q)
        BY <4>1 DEF Asked
      <4> QED
        BY <1>a, <2>1, <4>1, <4>2
    <3> QED
      BY <3>1, <3>2
  <2> QED
    BY <2>2 DEF Followed
<1>3. ASSUME NEW r \in Request, timeout(r) PROVE Followed'
  <2>1. phase[r] = "waiting"
    BY <1>3 DEF timeout, Attended
  <2> QED
    BY <1>3, <1>b, <2>1 DEF timeout
<1>4. CASE VelbusMessage
  <2>1. PICK p \in Part, value \in Shown : Delivered(p, value)
    BY <1>4, MessageFacts
  <2>2. ASSUME NEW q \in Request
        PROVE  Ok(Asked(q)', need_cmd', total_msg', phase', responses', q)
    <3>1. q \in listeners[p] => phase[q] = "waiting"
      BY DEF Attended
    <3>0. Asked(q)' = Asked(q) /\ Asked(q) \subseteq Part
      BY <1>c, <1>d, <2>1 DEF Delivered
    <3>2. total_msg[q] \in [Part -> Shown \cup {None}]
      BY DEF TypeOK
    <3>3. \A o \in Asked(q)' \ need_cmd'[q] : total_msg'[q][o] # None
      <4>1. CASE q \in listeners[p]
        <5>1. need_cmd'[q] = need_cmd[q] \ {p}
              /\ total_msg'[q] = [total_msg[q] EXCEPT ![p] = Gets(q, p, value)]
          BY <2>1, <4>1 DEF Delivered
        <5>2. \A o \in Part : total_msg'[q][o] = IF o = p THEN Gets(q, p, value)
                                                 ELSE total_msg[q][o]
          BY <3>2, <5>1
        <5>3. Gets(q, p, value) # None
          BY GetsFact
        <5> QED
          BY <1>a, <3>0, <5>1, <5>2, <5>3
      <4>2. CASE q \notin listeners[p]
        BY <1>a, <2>1, <3>0, <4>2 DEF Delivered
      <4> QED
        BY <4>1, <4>2
    <3>4. CASE q \in Complete(p)
      <4>1. q \in listeners[p] /\ need_cmd[q] \subseteq {p}
        BY <3>4 DEF Complete
      <4>2. need_cmd'[q] = {}
        BY <2>1, <4>1 DEF Delivered
      <4>3. Len(responses[q]) = 0
        BY <1>a, <3>1, <4>1
      <4>4. responses[q] \in Seq({"answer", "timeout", "refused"})
        BY DEF TypeOK
      <4>5. Len(responses'[q]) = 1
        BY <2>1, <3>4, <4>3, <4>4 DEF Delivered
      <4>6. phase'[q] = "answered"
        BY <2>1, <3>4 DEF Delivered
      <4> QED
        BY <3>3, <4>2, <4>5, <4>6
    <3>5. CASE q \notin Complete(p)
      <4>1. phase'[q] = phase[q] /\ responses'[q] = responses[q]
        BY <2>1, <3>5 DEF Delivered
      <4>2. q \notin listeners[p] => need_cmd'[q] = need_cmd[q]
        BY <2>1 DEF Delivered
      <4>3. phase[q] = "waiting" => Len(responses[q]) = 0
        BY <1>a
      <4>4. CASE q \in listeners[p]
        BY <1>a, <3>1, <3>3, <4>1, <4>3, <4>4
      <4>5. CASE q \notin listeners[p]
        BY <1>a, <3>3, <4>1, <4>2, <4>5
      <4> QED
        BY <4>4, <4>5
    <3> QED
      BY <3>4, <3>5
  <2> QED
    BY <2>2 DEF Followed
<1>5. ASSUME \/ \E p \in Part : StartupQuery(p)
             \/ PushButtonStatus \/ Module \/ UNCHANGED vars
      PROVE  Followed'
  <2>1. UNCHANGED requests
    BY <1>5 DEF StartupQuery, PushButtonStatus, Module, ModuleObeys, ModuleAnswers,
                ModuleReports, Loses, vars, requests
  <2> QED
    BY <2>1 DEF requests, Followed, Asked
<1> QED
  BY <1>1, <1>2, <1>3, <1>4, <1>5 DEF Next
-----------------------------------------------------------------------------
\* The invariant: listeners and timers follow the phase of each request, and
\* what it still needs follows the messages that came.
THEOREM Invariant == Spec => []IInv
<1>1. IInv /\ [Next]_vars => IInv'
  BY TypeStep, AttendedStep, FollowedStep DEF IInv
<1> QED
  BY Initially, <1>1, PTL DEF Spec

\* Settings fit a byte and the listeners are requests, for every set of them.
THEOREM TypeCorrect == Spec => []TypeOK
<1>1. IInv => TypeOK
  BY DEF IInv
<1> QED
  BY <1>1, Invariant, PTL

\* A waiting request has its timer and the listeners it needs, and no other
\* request has any (temp.js 40-48, 85-96).
THEOREM NothingLeftBehind == Spec => []Attended
<1>1. IInv => Attended
  BY DEF IInv
<1> QED
  BY <1>1, Invariant, PTL

\* Answers, time-outs and reports race, and each request is answered once.
THEOREM Once == Spec => []AnsweredOnce
<1>1. IInv => AnsweredOnce
  <2> SUFFICES ASSUME TypeOK, Followed, NEW r \in Request
               PROVE  Len(responses[r]) <= 1
    BY DEF IInv, AnsweredOnce
  <2>1. Len(responses[r]) = IF phase[r] = "answered" THEN 1 ELSE 0
    BY Zenon DEF Followed
  <2>2. responses[r] \in Seq({"answer", "timeout", "refused"})
    BY DEF TypeOK
  <2> QED
    BY <2>1, <2>2
<1> QED
  BY <1>1, Invariant, PTL

\* No answer is sent before each message it needs has come (temp.js 40-46).
THEOREM Whole == Spec => []AnswersWhole
<1>1. IInv => AnswersWhole
  BY DEF IInv, Followed, AnswersWhole
<1> QED
  BY <1>1, Invariant, PTL
-----------------------------------------------------------------------------
(* What comes of commands, questions and answers that are on their way.    *)

\* The part of the live state that a message is about, and what it shows there.
About(t) == IF t.part = "push_button" THEN "input" ELSE t.part
Shows(t) == IF t.part = "push_button" THEN pushButtonStatus(t.reading)
            ELSE parse(t.part, t.reading)

\* A question to p is on its way behind all orders to p.
Covered(q, p) ==
    \E i \in 1 .. Len(q) :
        /\ q[i].to = p /\ IsQuestion(q[i])
        /\ \A j \in i + 1 .. Len(q) : q[j].to = p => IsQuestion(q[j])
Untouched(q, p) == \A i \in 1 .. Len(q) : q[i].to # p

\* The last message about p shows what the module holds; there is none.
Ends(t, p, v) ==
    \E i \in 1 .. Len(t) :
        /\ About(t[i]) = p /\ Shows(t[i]) = parse(p, v)
        /\ \A j \in i + 1 .. Len(t) : About(t[j]) # p
Untold(t, p) == \A i \in 1 .. Len(t) : About(t[i]) # p

\* Unless a question will be answered later, the last message about p, or else
\* the live state, shows what the module holds.
Current(p) ==
    \/ Covered(asked, p)
    \/ /\ Untouched(asked, p)
       /\ \/ Ends(told, p, held[p])
          \/ Untold(told, p) /\ live[p] \in {None, parse(p, held[p])}

\* What was asked for is known or will be.
Known(p) ==
    (p \in Configured /\ p \notin startup) \/ wanted[p] # Unset =>
        \/ ~Untouched(asked, p)
        \/ ~Untold(told, p)
        \/ live[p] # None

\* The word or the number of a value, which orders set either, and the status
\* after an order, as far as it is set.
Field(v, f) == IF f = "word" THEN v.word ELSE v.number
Sets(c, f) ==
    /\ ~IsQuestion(c)
    /\ \/ c.to = "relay"
       \/ c.to = "blind" /\ f = "word"
       \/ c.to = "dimmer" /\ f = "number"
       \/ c.to = "temp_status" /\ (c.op = 228 <=> f = "number")
Outcome(c) == parse(c.to, Obeyed(c, [code |-> 0, number |-> 0]))

\* The last order on its way to p that sets f sets it to v; there is none.
Final(q, p, f, v) ==
    \E i \in 1 .. Len(q) :
        /\ q[i].to = p /\ Sets(q[i], f) /\ Field(Outcome(q[i]), f) = v
        /\ \A j \in i + 1 .. Len(q) : ~(q[j].to = p /\ Sets(q[j], f))
Unordered(q, p, f) == \A i \in 1 .. Len(q) : ~(q[i].to = p /\ Sets(q[i], f))

\* A number that three bytes hold.
Counts(f, v) == v # None /\ (f = "number" => v \in 0 .. Widest)

\* The module holds what was wanted, or will once it has obeyed.
Obedient(p) ==
    \A f \in {"word", "number"} :
        Counts(f, Field(wanted[p], f)) =>
            \/ Final(asked, p, f, Field(wanted[p], f))
            \/ /\ Unordered(asked, p, f)
               /\ Field(parse(p, held[p]), f) = Field(wanted[p], f)

\* Sensors and inputs are not set.
SetOnly == wanted["input"] = Unset /\ wanted["temperature"] = Unset

ArrivalInv == SetOnly /\ (lost = 0 => \A p \in Part : Current(p) /\ Known(p) /\ Obedient(p))
-----------------------------------------------------------------------------
\* What is in a longer sequence of commands.
LEMMA JoinedFact ==
    ASSUME NEW q \in Seq(Command), NEW e \in Seq(Command)
    PROVE  /\ q \o e \in Seq(Command) /\ Len(q \o e) = Len(q) + Len(e)
           /\ \A i \in 1 .. Len(q) : (q \o e)[i] = q[i]
           /\ \A i \in 1 .. Len(e) : (q \o e)[Len(q) + i] = e[i]
           /\ \A i \in Len(q) + 1 .. Len(q) + Len(e) : (q \o e)[i] = e[i - Len(q)]
  OBVIOUS

LEMMA LaterFact ==
    ASSUME NEW S, NEW q \in Seq(S), q # <<>>
    PROVE  /\ Tail(q) \in Seq(S) /\ Len(Tail(q)) = Len(q) - 1 /\ Len(q) \in Nat
           /\ Len(q) >= 1 /\ Head(q) = q[1] /\ Head(q) \in S
           /\ \A i \in 1 .. Len(q) - 1 : Tail(q)[i] = q[i + 1]
           /\ \A i \in 2 .. Len(q) : Tail(q)[i - 1] = q[i]
  OBVIOUS

\* Commands behind others.
LEMMA BehindCommands ==
    ASSUME NEW q \in Seq(Command), NEW e \in Seq(Command), NEW p
    PROVE  /\ Covered(e, p) => Covered(q \o e, p)
           /\ Covered(q, p) /\ Untouched(e, p) => Covered(q \o e, p)
           /\ Untouched(q, p) /\ Untouched(e, p) => Untouched(q \o e, p)
           /\ ~Untouched(q, p) \/ ~Untouched(e, p) => ~Untouched(q \o e, p)
<1> DEFINE w == q \o e
<1>1. /\ Len(q) \in Nat /\ Len(e) \in Nat /\ Len(w) = Len(q) + Len(e)
      /\ \A i \in 1 .. Len(q) : w[i] = q[i]
      /\ \A i \in 1 .. Len(e) : w[Len(q) + i] = e[i]
      /\ \A i \in Len(q) + 1 .. Len(q) + Len(e) : w[i] = e[i - Len(q)]
  BY JoinedFact
<1> HIDE DEF w
<1>2. ASSUME Covered(e, p) PROVE Covered(w, p)
  <2>1. PICK i \in 1 .. Len(e) :
            /\ e[i].to = p /\ IsQuestion(e[i])
            /\ \A j \in i + 1 .. Len(e) : e[j].to = p => IsQuestion(e[j])
    BY <1>2 DEF Covered
  <2>2. Len(q) + i \in 1 .. Len(w) /\ w[Len(q) + i] = e[i]
    BY <1>1
  <2>3. ASSUME NEW j \in Len(q) + i + 1 .. Len(w), w[j].to = p PROVE IsQuestion(w[j])
    <3>1. w[j] = e[j - Len(q)] /\ j - Len(q) \in i + 1 .. Len(e)
      BY <1>1
    <3> QED
      BY <2>1, <2>3, <3>1
  <2> QED
    BY <2>1, <2>2, <2>3 DEF Covered
<1>3. ASSUME Covered(q, p), Untouched(e, p) PROVE Covered(w, p)
  <2>1. PICK i \in 1 .. Len(q) :
            /\ q[i].to = p /\ IsQuestion(q[i])
            /\ \A j \in i + 1 .. Len(q) : q[j].to = p => IsQuestion(q[j])
    BY <1>3 DEF Covered
  <2>2. i \in 1 .. Len(w) /\ w[i] = q[i]
    BY <1>1
  <2>3. ASSUME NEW j \in i + 1 .. Len(w), w[j].to = p PROVE IsQuestion(w[j])
    <3>1. CASE j <= Len(q)
      BY <1>1, <2>1, <2>3, <3>1
    <3>2. CASE ~(j <= Len(q))
      <4>1. w[j] = e[j - Len(q)] /\ j - Len(q) \in 1 .. Len(e)
        BY <1>1, <3>2
      <4> QED
        BY <1>3, <2>3, <4>1 DEF Untouched
    <3> QED
      BY <3>1, <3>2
  <2> QED
    BY <2>1, <2>2, <2>3 DEF Covered
<1>4. ASSUME Untouched(q, p), Untouched(e, p) PROVE Untouched(w, p)
  <2>1. ASSUME NEW j \in 1 .. Len(w) PROVE w[j].to # p
    <3>1. CASE j <= Len(q)
      BY <1>1, <1>4, <3>1 DEF Untouched
    <3>2. CASE ~(j <= Len(q))
      <4>1. w[j] = e[j - Len(q)] /\ j - Len(q) \in 1 .. Len(e)
        BY <1>1, <3>2
      <4> QED
        BY <1>4, <4>1 DEF Untouched
    <3> QED
      BY <3>1, <3>2
  <2> QED
    BY <2>1 DEF Untouched
<1>5. ASSUME ~Untouched(q, p) PROVE ~Untouched(w, p)
  <2>1. PICK i \in 1 .. Len(q) : q[i].to = p
    BY <1>5 DEF Untouched
  <2>2. i \in 1 .. Len(w) /\ w[i] = q[i]
    BY <1>1
  <2> QED
    BY <2>1, <2>2 DEF Untouched
<1>6. ASSUME ~Untouched(e, p) PROVE ~Untouched(w, p)
  <2>1. PICK i \in 1 .. Len(e) : e[i].to = p
    BY <1>6 DEF Untouched
  <2>2. Len(q) + i \in 1 .. Len(w) /\ w[Len(q) + i] = e[i]
    BY <1>1
  <2> QED
    BY <2>1, <2>2 DEF Untouched
<1> QED
  BY <1>2, <1>3, <1>4, <1>5, <1>6 DEF w

LEMMA BehindOrders ==
    ASSUME NEW q \in Seq(Command), NEW e \in Seq(Command), NEW p, NEW f, NEW v
    PROVE  /\ Final(e, p, f, v) => Final(q \o e, p, f, v)
           /\ Final(q, p, f, v) /\ Unordered(e, p, f) => Final(q \o e, p, f, v)
           /\ Unordered(q, p, f) /\ Unordered(e, p, f) => Unordered(q \o e, p, f)
<1> DEFINE w == q \o e
<1>1. /\ Len(q) \in Nat /\ Len(e) \in Nat /\ Len(w) = Len(q) + Len(e)
      /\ \A i \in 1 .. Len(q) : w[i] = q[i]
      /\ \A i \in 1 .. Len(e) : w[Len(q) + i] = e[i]
      /\ \A i \in Len(q) + 1 .. Len(q) + Len(e) : w[i] = e[i - Len(q)]
  BY JoinedFact
<1> HIDE DEF w
<1>2. ASSUME Final(e, p, f, v) PROVE Final(w, p, f, v)
  <2>1. PICK i \in 1 .. Len(e) :
            /\ e[i].to = p /\ Sets(e[i], f) /\ Field(Outcome(e[i]), f) = v
            /\ \A j \in i + 1 .. Len(e) : ~(e[j].to = p /\ Sets(e[j], f))
    BY <1>2 DEF Final
  <2>2. Len(q) + i \in 1 .. Len(w) /\ w[Len(q) + i] = e[i]
    BY <1>1
  <2>3. ASSUME NEW j \in Len(q) + i + 1 .. Len(w) PROVE ~(w[j].to = p /\ Sets(w[j], f))
    <3>1. w[j] = e[j - Len(q)] /\ j - Len(q) \in i + 1 .. Len(e)
      BY <1>1
    <3> QED
      BY <2>1, <3>1
  <2> QED
    BY <2>1, <2>2, <2>3 DEF Final
<1>3. ASSUME Final(q, p, f, v), Unordered(e, p, f) PROVE Final(w, p, f, v)
  <2>1. PICK i \in 1 .. Len(q) :
            /\ q[i].to = p /\ Sets(q[i], f) /\ Field(Outcome(q[i]), f) = v
            /\ \A j \in i + 1 .. Len(q) : ~(q[j].to = p /\ Sets(q[j], f))
    BY <1>3 DEF Final
  <2>2. i \in 1 .. Len(w) /\ w[i] = q[i]
    BY <1>1
  <2>3. ASSUME NEW j \in i + 1 .. Len(w) PROVE ~(w[j].to = p /\ Sets(w[j], f))
    <3>1. CASE j <= Len(q)
      BY <1>1, <2>1, <3>1
    <3>2. CASE ~(j <= Len(q))
      <4>1. w[j] = e[j - Len(q)] /\ j - Len(q) \in 1 .. Len(e)
        BY <1>1, <3>2
      <4> QED
        BY <1>3, <4>1 DEF Unordered
    <3> QED
      BY <3>1, <3>2
  <2> QED
    BY <2>1, <2>2, <2>3 DEF Final
<1>4. ASSUME Unordered(q, p, f), Unordered(e, p, f) PROVE Unordered(w, p, f)
  <2>1. ASSUME NEW j \in 1 .. Len(w) PROVE ~(w[j].to = p /\ Sets(w[j], f))
    <3>1. CASE j <= Len(q)
      BY <1>1, <1>4, <3>1 DEF Unordered
    <3>2. CASE ~(j <= Len(q))
      <4>1. w[j] = e[j - Len(q)] /\ j - Len(q) \in 1 .. Len(e)
        BY <1>1, <3>2
      <4> QED
        BY <1>4, <4>1 DEF Unordered
    <3> QED
      BY <3>1, <3>2
  <2> QED
    BY <2>1 DEF Unordered
<1> QED
  BY <1>2, <1>3, <1>4 DEF w

\* Without the first command.
LEMMA RestOfCommands ==
    ASSUME NEW q \in Seq(Command), q # <<>>, NEW p
    PROVE  /\ Covered(q, p) =>
                \/ Covered(Tail(q), p)
                \/ Head(q).to = p /\ IsQuestion(Head(q)) /\ Untouched(Tail(q), p)
           /\ Untouched(q, p) => Untouched(Tail(q), p) /\ Head(q).to # p
           /\ ~Untouched(q, p) => ~Untouched(Tail(q), p) \/ Head(q).to = p
<1> DEFINE w == Tail(q)
<1>1. /\ Len(w) = Len(q) - 1 /\ Len(q) \in Nat /\ Len(q) >= 1 /\ Head(q) = q[1]
      /\ \A i \in 1 .. Len(q) - 1 : w[i] = q[i + 1]
      /\ \A i \in 2 .. Len(q) : w[i - 1] = q[i]
  BY LaterFact
<1> HIDE DEF w
<1>2. ASSUME Covered(q, p)
      PROVE  Covered(w, p) \/ (Head(q).to = p /\ IsQuestion(Head(q)) /\ Untouched(w, p))
  <2>1. PICK i \in 1 .. Len(q) :
            /\ q[i].to = p /\ IsQuestion(q[i])
            /\ \A j \in i + 1 .. Len(q) : q[j].to = p => IsQuestion(q[j])
    BY <1>2 DEF Covered
  <2>2. ASSUME NEW k \in 1 .. Len(w), k >= i - 1, w[k].to = p, IsQuestion(w[k])
        PROVE  Covered(w, p)
    <3>1. ASSUME NEW j \in k + 1 .. Len(w), w[j].to = p PROVE IsQuestion(w[j])
      <4>1. w[j] = q[j + 1] /\ j + 1 \in i + 1 .. Len(q)
        BY <1>1, <2>2
      <4> QED
        BY <2>1, <3>1, <4>1
    <3> QED
      BY <2>2, <3>1 DEF Covered
  <2>3. CASE i # 1
    <3>1. i - 1 \in 1 .. Len(w) /\ w[i - 1] = q[i]
      BY <1>1, <2>3
    <3> QED
      BY <2>1, <2>2, <3>1
  <2>4. CASE i = 1
    <3>1. CASE Untouched(w, p)
      BY <1>1, <2>1, <2>4, <3>1
    <3>2. CASE ~Untouched(w, p)
      <4>1. PICK k \in 1 .. Len(w) : w[k].to = p
        BY <3>2 DEF Untouched
      <4>2. w[k] = q[k + 1] /\ k + 1 \in i + 1 .. Len(q)
        BY <1>1, <2>4
      <4>3. IsQuestion(w[k])
        BY <2>1, <4>1, <4>2
      <4> QED
        BY <2>2, <2>4, <4>1, <4>3
    <3> QED
      BY <3>1, <3>2
  <2> QED
    BY <2>3, <2>4
<1>3. ASSUME Untouched(q, p) PROVE Untouched(w, p) /\ Head(q).to # p
  <2>1. ASSUME NEW i \in 1 .. Len(w) PROVE w[i].to # p
    <3>1. w[i] = q[i + 1] /\ i + 1 \in 1 .. Len(q)
      BY <1>1
    <3> QED
      BY <1>3, <3>1 DEF Untouched
  <2>2. 1 \in 1 .. Len(q)
    BY <1>1
  <2> QED
    BY <1>1, <1>3, <2>1, <2>2 DEF Untouched
<1>4. ASSUME ~Untouched(q, p), Head(q).to # p PROVE ~Untouched(w, p)
  <2>1. PICK i \in 1 .. Len(q) : q[i].to = p
    BY <1>4 DEF Untouched
  <2>2. i # 1
    BY <1>1, <1>4, <2>1
  <2>3. i - 1 \in 1 .. Len(w) /\ w[i - 1] = q[i]
    BY <1>1, <2>2
  <2> QED
    BY <2>1, <2>3 DEF Untouched
<1> QED
  BY <1>2, <1>3, <1>4 DEF w

LEMMA RestOfOrders ==
    ASSUME NEW q \in Seq(Command), q # <<>>, NEW p, NEW f, NEW v
    PROVE  /\ Final(q, p, f, v) =>
                \/ Final(Tail(q), p, f, v)
                \/ /\ Head(q).to = p /\ Sets(Head(q), f)
                   /\ Field(Outcome(Head(q)), f) = v
                   /\ Unordered(Tail(q), p, f)
           /\ Unordered(q, p, f) =>
                Unordered(Tail(q), p, f) /\ ~(Head(q).to = p /\ Sets(Head(q), f))
<1> DEFINE w == Tail(q)
<1>1. /\ Len(w) = Len(q) - 1 /\ Len(q) \in Nat /\ Len(q) >= 1 /\ Head(q) = q[1]
      /\ \A i \in 1 .. Len(q) - 1 : w[i] = q[i + 1]
      /\ \A i \in 2 .. Len(q) : w[i - 1] = q[i]
  BY LaterFact
<1> HIDE DEF w
<1>2. ASSUME Final(q, p, f, v)
      PROVE  \/ Final(w, p, f, v)
             \/ /\ Head(q).to = p /\ Sets(Head(q), f) /\ Field(Outcome(Head(q)), f) = v
                /\ Unordered(w, p, f)
  <2>1. PICK i \in 1 .. Len(q) :
            /\ q[i].to = p /\ Sets(q[i], f) /\ Field(Outcome(q[i]), f) = v
            /\ \A j \in i + 1 .. Len(q) : ~(q[j].to = p /\ Sets(q[j], f))
    BY <1>2 DEF Final
  <2>2. ASSUME NEW j \in i .. Len(w) PROVE ~(w[j].to = p /\ Sets(w[j], f))
    <3>1. w[j] = q[j + 1] /\ j + 1 \in i + 1 .. Len(q)
      BY <1>1
    <3> QED
      BY <2>1, <3>1
  <2>3. CASE i # 1
    <3>1. i - 1 \in 1 .. Len(w) /\ w[i - 1] = q[i] /\ (i - 1) + 1 = i
      BY <1>1, <2>3
    <3> QED
      BY <2>1, <2>2, <3>1 DEF Final
  <2>4. CASE i = 1
    BY <1>1, <2>1, <2>2, <2>4 DEF Unordered
  <2> QED
    BY <2>3, <2>4
<1>3. ASSUME Unordered(q, p, f)
      PROVE  Unordered(w, p, f) /\ ~(Head(q).to = p /\ Sets(Head(q), f))
  <2>1. ASSUME NEW i \in 1 .. Len(w) PROVE ~(w[i].to = p /\ Sets(w[i], f))
    <3>1. w[i] = q[i + 1] /\ i + 1 \in 1 .. Len(q)
      BY <1>1
    <3> QED
      BY <1>3, <3>1 DEF Unordered
  <2>2. 1 \in 1 .. Len(q)
    BY <1>1
  <2> QED
    BY <1>1, <1>3, <2>1, <2>2 DEF Unordered
<1> QED
  BY <1>2, <1>3 DEF w

\* One more message of a module.
LEMMA OneMoreTold ==
    ASSUME NEW t \in Seq(Telegram), NEW x \in Telegram, NEW p, NEW v
    PROVE  /\ About(x) = p /\ Shows(x) = parse(p, v) => Ends(Append(t, x), p, v)
           /\ About(x) # p /\ Ends(t, p, v) => Ends(Append(t, x), p, v)
           /\ About(x) # p /\ Untold(t, p) => Untold(Append(t, x), p)
           /\ About(x) = p \/ ~Untold(t, p) => ~Untold(Append(t, x), p)
<1> DEFINE w == Append(t, x)
<1>1. /\ Len(t) \in Nat /\ Len(w) = Len(t) + 1 /\ w[Len(t) + 1] = x
      /\ \A i \in 1 .. Len(t) : w[i] = t[i]
  OBVIOUS
<1> HIDE DEF w
<1>2. \A i \in 1 .. Len(w) : i \in 1 .. Len(t) \/ i = Len(t) + 1
  BY <1>1
<1>3. \A i \in 1 .. Len(t) : i \in 1 .. Len(w)
  BY <1>1
<1>4. Len(t) + 1 \in 1 .. Len(w) /\ Len(t) + 2 .. Len(w) = {}
  BY <1>1
<1>5. ASSUME About(x) = p, Shows(x) = parse(p, v) PROVE Ends(w, p, v)
  <2>1. (Len(t) + 1) + 1 .. Len(w) = {}
    BY <1>1
  <2> QED
    BY <1>1, <1>4, <1>5, <2>1 DEF Ends
<1>6. ASSUME About(x) # p, Ends(t, p, v) PROVE Ends(w, p, v)
  <2>1. PICK i \in 1 .. Len(t) :
            /\ About(t[i]) = p /\ Shows(t[i]) = parse(p, v)
            /\ \A j \in i + 1 .. Len(t) : About(t[j]) # p
    BY <1>6 DEF Ends
  <2>2. \A j \in i + 1 .. Len(w) : j \in i + 1 .. Len(t) \/ j = Len(t) + 1
    BY <1>1
  <2>3. \A j \in i + 1 .. Len(t) : w[j] = t[j]
    BY <1>1
  <2>4. \A j \in i + 1 .. Len(w) : About(w[j]) # p
    BY <1>1, <1>6, <2>1, <2>2, <2>3
  <2> QED
    BY <1>1, <1>3, <2>1, <2>4 DEF Ends
<1>7. ASSUME About(x) # p, Untold(t, p) PROVE Untold(w, p)
  BY <1>1, <1>2, <1>7 DEF Untold
<1>8. ASSUME About(x) = p \/ ~Untold(t, p) PROVE ~Untold(w, p)
  BY <1>1, <1>3, <1>4, <1>8 DEF Untold
<1> QED
  BY <1>5, <1>6, <1>7, <1>8 DEF w

\* Without the first of them.
LEMMA RestOfTold ==
    ASSUME NEW t \in Seq(Telegram), t # <<>>, NEW p, NEW v
    PROVE  /\ Ends(t, p, v) =>
                \/ Ends(Tail(t), p, v)
                \/ /\ About(Head(t)) = p /\ Shows(Head(t)) = parse(p, v)
                   /\ Untold(Tail(t), p)
           /\ Untold(t, p) => Untold(Tail(t), p) /\ About(Head(t)) # p
           /\ ~Untold(t, p) => ~Untold(Tail(t), p) \/ About(Head(t)) = p
<1> DEFINE w == Tail(t)
<1>1. /\ Len(w) = Len(t) - 1 /\ Len(t) \in Nat /\ Len(t) >= 1 /\ Head(t) = t[1]
      /\ \A i \in 1 .. Len(t) - 1 : w[i] = t[i + 1]
      /\ \A i \in 2 .. Len(t) : w[i - 1] = t[i]
  BY LaterFact
<1> HIDE DEF w
<1>2. ASSUME Ends(t, p, v)
      PROVE  \/ Ends(w, p, v)
             \/ About(Head(t)) = p /\ Shows(Head(t)) = parse(p, v) /\ Untold(w, p)
  <2>1. PICK i \in 1 .. Len(t) :
            /\ About(t[i]) = p /\ Shows(t[i]) = parse(p, v)
            /\ \A j \in i + 1 .. Len(t) : About(t[j]) # p
    BY <1>2 DEF Ends
  <2>2. ASSUME NEW j \in i .. Len(w) PROVE About(w[j]) # p
    <3>1. w[j] = t[j + 1] /\ j + 1 \in i + 1 .. Len(t)
      BY <1>1
    <3> QED
      BY <2>1, <3>1
  <2>3. CASE i # 1
    <3>1. i - 1 \in 1 .. Len(w) /\ w[i - 1] = t[i] /\ (i - 1) + 1 = i
      BY <1>1, <2>3
    <3> QED
      BY <2>1, <2>2, <3>1 DEF Ends
  <2>4. CASE i = 1
    BY <1>1, <2>1, <2>2, <2>4 DEF Untold
  <2> QED
    BY <2>3, <2>4
<1>3. ASSUME Untold(t, p) PROVE Untold(w, p) /\ About(Head(t)) # p
  <2>1. ASSUME NEW i \in 1 .. Len(w) PROVE About(w[i]) # p
    <3>1. w[i] = t[i + 1] /\ i + 1 \in 1 .. Len(t)
      BY <1>1
    <3> QED
      BY <1>3, <3>1 DEF Untold
  <2>2. 1 \in 1 .. Len(t)
    BY <1>1
  <2> QED
    BY <1>1, <1>3, <2>1, <2>2 DEF Untold
<1>4. ASSUME ~Untold(t, p), About(Head(t)) # p PROVE ~Untold(w, p)
  <2>1. PICK i \in 1 .. Len(t) : About(t[i]) = p
    BY <1>4 DEF Untold
  <2>2. i # 1
    BY <1>1, <1>4, <2>1
  <2>3. i - 1 \in 1 .. Len(w) /\ w[i - 1] = t[i]
    BY <1>1, <2>2
  <2> QED
    BY <2>1, <2>3 DEF Untold
<1> QED
  BY <1>2, <1>3, <1>4 DEF w
-----------------------------------------------------------------------------
\* An order sets what Sets says, to its outcome, and leaves the other.
LEMMA OrderFact ==
    ASSUME NEW c \in Order, NEW was \in Reading, NEW f \in {"word", "number"}
    PROVE  Field(parse(c.to, Obeyed(c, was)), f) =
              IF Sets(c, f) THEN Field(Outcome(c), f) ELSE Field(parse(c.to, was), f)
<1>0. ~IsQuestion(c) /\ c.to \in {"relay", "blind", "dimmer", "temp_status"}
  BY DEF Order, IsQuestion
<1>1. CASE c.to = "relay"
  BY <1>0, <1>1 DEF Sets, Outcome, Field, parse, Obeyed, SwitchRelay, relayStatus
<1>2. CASE c.to = "blind"
  BY <1>0, <1>2 DEF Sets, Outcome, Field, parse, Obeyed, SwitchBlind, blindStatus
<1>3. CASE c.to = "dimmer"
  BY <1>0, <1>3 DEF Sets, Outcome, Field, parse, Obeyed, SetDimvalue, dimmerStatus
<1>4. CASE c.to = "temp_status"
  <2>1. CASE c.op = 228
    BY <1>0, <1>4, <2>1 DEF Sets, Outcome, Field, parse, Obeyed, SetTemperature,
                            tempSensorStatus
  <2>2. CASE c.op # 228
    BY <1>0, <1>4, <2>2 DEF Sets, Outcome, Field, parse, Obeyed, SwitchToMode,
                            tempSensorStatus
  <2> QED
    BY <2>1, <2>2
<1> QED
  BY <1>0, <1>1, <1>2, <1>3, <1>4

\* What is posted sets what is expected to change.
LEMMA PostSets ==
    ASSUME NEW s \in Setting, NEW f \in {"word", "number"}
    PROVE  /\ post(s).to = s.to
           /\ Sets(post(s), f) <=> Field(Wish(s), f) # None
           /\ Counts(f, Field(Wish(s), f)) =>
                 Field(Outcome(post(s)), f) = Field(Wish(s), f)
<1>0. post(s) \in Order /\ ~IsQuestion(post(s))
  BY PostFact DEF Order, IsQuestion
<1>1. post(s).to = s.to
  BY DEF Setting, RelaySetting, BlindSetting, DimmerSetting, TempSetting, post,
         post_relay, post_blind, post_dimmer, post_temp
<1>2. [code |-> 0, number |-> 0] \in Reading
  BY WideFact DEF Reading, Byte
<1>3. /\ Wish(s).word # None => Outcome(post(s)).word = Wish(s).word
      /\ Wish(s).number # None /\ Wish(s).number \in 0 .. Widest =>
            Outcome(post(s)).number = Wish(s).number
  BY <1>1, <1>2, MeansTheSame DEF After, Outcome
<1>4. Counts(f, Field(Wish(s), f)) =>
         Field(Outcome(post(s)), f) = Field(Wish(s), f)
  BY <1>3 DEF Counts, Field
<1>n. \A n \in Int : n # None
  BY NoneAssumption
<1>w. \A w \in Word : w # None
  BY NoneAssumption
<1>5. Sets(post(s), f) <=> Field(Wish(s), f) # None
  <2>1. CASE s \in RelaySetting
    <3>1. s.to = "relay" /\ s.word \in {"on", "off", "timer"} /\ s.number \in Int
      BY <2>1 DEF RelaySetting
    <3>2. Wish(s).number = s.number /\ Wish(s).word \in Word
      BY <3>1 DEF Wish, Word
    <3> QED
      BY <1>0, <1>1, <1>n, <1>w, <3>1, <3>2 DEF Sets, Field
  <2>2. CASE s \in BlindSetting
    <3>1. s.to = "blind" /\ s.word \in {"up", "down", "stop"}
      BY <2>2 DEF BlindSetting
    <3>2. Wish(s).number = None /\ Wish(s).word \in Word
      BY <3>1 DEF Wish, Word
    <3> QED
      BY <1>0, <1>1, <1>w, <3>1, <3>2 DEF Sets, Field
  <2>3. CASE s \in DimmerSetting
    <3>1. s.to = "dimmer" /\ s.word = "dim"
      BY <2>3 DEF DimmerSetting
    <3>2. Wish(s).number = post(s).number /\ Wish(s).word = None
      BY <3>1 DEF Wish
    <3>3. post(s).number \in Int
      BY <1>0, WideFact DEF Order
    <3> QED
      BY <1>0, <1>1, <1>n, <3>1, <3>2, <3>3 DEF Sets, Field
  <2>4. CASE s \in TempSetting
    <3>1. s.to = "temp_status" /\ s.number \in Int
          /\ s.word \in {"comfort", "day", "night", "safe", "target"}
      BY <2>4 DEF TempSetting
    <3>2. post(s).op = 228 <=> s.word = "target"
      BY <3>1 DEF post, post_temp
    <3>3. CASE s.word = "target"
      <4>1. Wish(s).number = s.number /\ Wish(s).word = None
        BY <3>3 DEF Wish
      <4> QED
        BY <1>0, <1>1, <1>n, <3>1, <3>2, <3>3, <4>1 DEF Sets, Field
    <3>4. CASE s.word # "target"
      <4>1. Wish(s).number = None /\ Wish(s).word \in Word
        BY <3>1, <3>4 DEF Wish, Word
      <4> QED
        BY <1>0, <1>1, <1>w, <3>1, <3>2, <3>4, <4>1 DEF Sets, Field
    <3> QED
      BY <3>3, <3>4
  <2> QED
    BY <2>1, <2>2, <2>3, <2>4 DEF Setting
<1> QED
  BY <1>1, <1>4, <1>5

\* What is pressed or released is what the module would answer.
LEMMA PushedFact ==
    ASSUME NEW pressed \in {0, 1}
    PROVE  pushButtonStatus([code |-> pressed, number |-> 1 - pressed]) =
              parse("input", [code |-> pressed, number |-> 0])
  BY DEF pushButtonStatus, parse, moduleStatus

\* Where the commands of a request go: an order first, if something is posted,
\* and a question to each part that the request needs.
Leads(c, e) ==
    /\ \A i \in 1 .. Len(e) : e[i].to \in c.need
    /\ \A i \in 1 .. Len(e) : ~IsQuestion(e[i]) =>
          i = 1 /\ c.setting # None /\ e[1] = post(c.setting)
    /\ c.setting # None => 1 \in 1 .. Len(e) /\ e[1] = post(c.setting)
    /\ \A p \in c.need : \E i \in 1 .. Len(e) : e[i] = ask(p)

Holds(q, x) == \E i \in 1 .. Len(q) : q[i] = x

LEMMA HoldsFact ==
    ASSUME NEW q \in Seq(Command), NEW e \in Seq(Command), NEW x,
           Holds(q, x) \/ Holds(e, x)
    PROVE  Holds(q \o e, x)
<1>1. ASSUME Holds(q, x) PROVE Holds(q \o e, x)
  BY <1>1, JoinedFact DEF Holds
<1>2. ASSUME Holds(e, x) PROVE Holds(q \o e, x)
  <2>1. PICK i \in 1 .. Len(e) : e[i] = x
    BY <1>2 DEF Holds
  <2>2. Len(q) + i \in 1 .. Len(q \o e) /\ (q \o e)[Len(q) + i] = e[i]
    BY JoinedFact
  <2> QED
    BY <2>1, <2>2 DEF Holds
<1> QED
  BY <1>1, <1>2

LEMMA QuestionsLead ==
    ASSUME NEW c \in Content
    PROVE  /\ Questions(c) \in Seq(Command)
           /\ \A i \in 1 .. Len(Questions(c)) :
                 Questions(c)[i].to \in c.need /\ IsQuestion(Questions(c)[i])
           /\ \A p \in c.need : Holds(Questions(c), ask(p))
<1> DEFINE Q == {ask(p) : p \in c.need}
           piece(p) == IF p \in c.need THEN <<ask(p)>> ELSE <<>>
<1>0. c.need \in SUBSET Part
  BY ContentFact
<1>1. \A p \in Part : piece(p) \in Seq(Q)
  <2>1. ASSUME NEW p \in c.need PROVE <<ask(p)>> \in Seq(Q)
    <3>1. ask(p) \in Q
      OBVIOUS
    <3> HIDE DEF Q
    <3> QED
      BY <3>1
  <2> HIDE DEF Q
  <2> QED
    BY <2>1
<1>2. \A p \in Part : piece(p) \in Seq(Command)
  <2>1. \A p \in Part : ask(p) \in Command
    BY AskFact DEF Command
  <2> QED
    BY <2>1
<1>3. ASSUME NEW p \in c.need PROVE Holds(piece(p), ask(p))
  <2>1. piece(p) = <<ask(p)>>
    OBVIOUS
  <2>2. 1 \in 1 .. Len(<<ask(p)>>) /\ <<ask(p)>>[1] = ask(p)
    OBVIOUS
  <2> HIDE DEF piece
  <2> QED
    BY <2>1, <2>2 DEF Holds
<1>4. \A x \in Q : x.to \in c.need /\ IsQuestion(x)
  BY DEF ask, IsQuestion
<1>5. Questions(c) = piece("relay") \o piece("blind") \o piece("dimmer")
         \o piece("input") \o piece("temp_status") \o piece("temperature")
  BY DEF Questions
<1> HIDE DEF Q, piece
<1> DEFINE q2 == piece("relay") \o piece("blind")
           q3 == q2 \o piece("dimmer")
           q4 == q3 \o piece("input")
           q5 == q4 \o piece("temp_status")
           q6 == q5 \o piece("temperature")
<1>6. q2 \in Seq(Q) /\ q3 \in Seq(Q) /\ q4 \in Seq(Q) /\ q5 \in Seq(Q) /\ q6 \in Seq(Q)
  BY <1>1 DEF Part
<1>7. q2 \in Seq(Command) /\ q3 \in Seq(Command) /\ q4 \in Seq(Command)
      /\ q5 \in Seq(Command) /\ q6 \in Seq(Command)
  BY <1>2 DEF Part
<1>8. Questions(c) = q6
  BY <1>5
<1>9. ASSUME NEW i \in 1 .. Len(Questions(c))
      PROVE  Questions(c)[i].to \in c.need /\ IsQuestion(Questions(c)[i])
  <2> HIDE DEF q2, q3, q4, q5, q6
  <2>1. Questions(c)[i] \in Q
    BY <1>6, <1>8
  <2> QED
    BY <1>4, <2>1
<1>10. ASSUME NEW p \in c.need PROVE Holds(q6, ask(p))
  <2>0. /\ piece("relay") \in Seq(Command) /\ piece("blind") \in Seq(Command)
        /\ piece("dimmer") \in Seq(Command) /\ piece("input") \in Seq(Command)
        /\ piece("temp_status") \in Seq(Command)
        /\ piece("temperature") \in Seq(Command)
    BY <1>2 DEF Part
  <2>1. Holds(piece(p), ask(p))
    BY <1>3
  <2>2. p \in {"relay", "blind"} => Holds(q2, ask(p))
    BY <2>0, <2>1, HoldsFact
  <2>3. p \in {"relay", "blind", "dimmer"} => Holds(q3, ask(p))
    <3> HIDE DEF q2
    <3> QED
      BY <1>7, <2>0, <2>1, <2>2, HoldsFact
  <2>4. p \in {"relay", "blind", "dimmer", "input"} => Holds(q4, ask(p))
    <3> HIDE DEF q3
    <3> QED
      BY <1>7, <2>0, <2>1, <2>3, HoldsFact
  <2>5. p \in {"relay", "blind", "dimmer", "input", "temp_status"} => Holds(q5, ask(p))
    <3> HIDE DEF q4
    <3> QED
      BY <1>7, <2>0, <2>1, <2>4, HoldsFact
  <2>6. p \in Part => Holds(q6, ask(p))
    <3> HIDE DEF q5
    <3> QED
      BY <1>7, <2>0, <2>1, <2>5, HoldsFact DEF Part
  <2> QED
    BY <1>0, <2>6
<1> QED
  BY <1>7, <1>8, <1>9, <1>10

LEMMA CommandsLead ==
    ASSUME NEW c \in Content
    PROVE  Leads(c, Commands(c))
<1> DEFINE q == Questions(c)
<1>1. /\ q \in Seq(Command)
      /\ \A i \in 1 .. Len(q) : q[i].to \in c.need /\ IsQuestion(q[i])
      /\ \A p \in c.need : Holds(q, ask(p))
  BY QuestionsLead
<1> HIDE DEF q
<1>2. CASE c.setting = None
  <2>1. Commands(c) = q
    BY <1>1, <1>2 DEF Commands, Posted, q
  <2> QED
    BY <1>1, <1>2, <2>1 DEF Leads, Holds
<1>3. CASE c.setting # None
  <2> DEFINE w == <<post(c.setting)>> \o q
  <2>1. /\ post(c.setting) \in Command /\ c.setting.to \in c.need
        /\ post(c.setting).to = c.setting.to
    BY <1>3, ContentFact, ContentAssumption, PostFact, PostSets DEF Command
  <2>2. Commands(c) = w
    BY <1>3 DEF Commands, Posted, q
  <2>3. /\ Len(w) = 1 + Len(q) /\ w[1] = post(c.setting)
        /\ \A i \in 2 .. Len(w) : i - 1 \in 1 .. Len(q) /\ w[i] = q[i - 1]
        /\ \A i \in 1 .. Len(q) : i + 1 \in 1 .. Len(w) /\ w[i + 1] = q[i]
        /\ Len(q) \in Nat
    BY <1>1, <2>1
  <2> HIDE DEF w
  <2>4. \A i \in 1 .. Len(w) : i = 1 \/ i \in 2 .. Len(w)
    BY <2>3
  <2>5. 1 \in 1 .. Len(w)
    BY <2>3
  <2>6. \A i \in 1 .. Len(w) : w[i].to \in c.need
    BY <1>1, <2>1, <2>3, <2>4
  <2>7. \A i \in 1 .. Len(w) : ~IsQuestion(w[i]) => i = 1
    BY <1>1, <2>3, <2>4
  <2>8. \A p \in c.need : \E i \in 1 .. Len(w) : w[i] = ask(p)
    BY <1>1, <2>3 DEF Holds
  <2> QED
    BY <1>3, <2>2, <2>3, <2>5, <2>6, <2>7, <2>8 DEF Leads
<1> QED
  BY <1>2, <1>3

\* After them each part that the request needs is asked for, others are not
\* touched, and an order sets what the request sets.
LEMMA CommandsSettle ==
    ASSUME NEW c \in Content, NEW p \in Part, NEW f \in {"word", "number"}
    PROVE  LET e == Commands(c) IN
           /\ p \in c.need => Covered(e, p) /\ ~Untouched(e, p)
           /\ p \notin c.need => Untouched(e, p)
           /\ c.setting = None \/ c.setting.to # p => Unordered(e, p, f)
           /\ c.setting # None /\ c.setting.to = p =>
                IF Field(Wish(c.setting), f) = None THEN Unordered(e, p, f)
                ELSE Counts(f, Field(Wish(c.setting), f)) =>
                        Final(e, p, f, Field(Wish(c.setting), f))
<1> DEFINE e == Commands(c)
<1>1. e \in Seq(Command) /\ Leads(c, e)
  BY CommandsFact, CommandsLead
<1> HIDE DEF e
<1>2. Len(e) \in Nat
  BY <1>1
<1>3. \A i \in 1 .. Len(e) : Sets(e[i], f) =>
          i = 1 /\ c.setting # None /\ e[1] = post(c.setting)
  BY <1>1 DEF Leads, Sets
<1>4. ASSUME p \in c.need PROVE Covered(e, p) /\ ~Untouched(e, p)
  <2>1. PICK i \in 1 .. Len(e) : e[i] = ask(p)
    BY <1>1, <1>4 DEF Leads
  <2>2. e[i].to = p /\ IsQuestion(e[i])
    BY <2>1 DEF ask, IsQuestion
  <2>3. \A j \in i + 1 .. Len(e) : j \in 1 .. Len(e) /\ j # 1
    BY <1>2
  <2>4. \A j \in i + 1 .. Len(e) : IsQuestion(e[j])
    BY <1>1, <2>3 DEF Leads
  <2> QED
    BY <2>2, <2>4 DEF Covered, Untouched
<1>5. ASSUME p \notin c.need PROVE Untouched(e, p)
  BY <1>1, <1>5 DEF Leads, Untouched
<1>6. ASSUME c.setting = None \/ c.setting.to # p PROVE Unordered(e, p, f)
  <2>1. c.setting # None => post(c.setting).to = c.setting.to
    BY ContentFact, PostSets
  <2> QED
    BY <1>3, <1>6, <2>1 DEF Unordered
<1>7. ASSUME c.setting # None, c.setting.to = p
      PROVE  IF Field(Wish(c.setting), f) = None THEN Unordered(e, p, f)
             ELSE Counts(f, Field(Wish(c.setting), f)) =>
                     Final(e, p, f, Field(Wish(c.setting), f))
  <2> DEFINE s == c.setting
  <2>1. /\ post(s).to = p
        /\ Sets(post(s), f) <=> Field(Wish(s), f) # None
        /\ Counts(f, Field(Wish(s), f)) => Field(Outcome(post(s)), f) = Field(Wish(s), f)
    BY <1>7, ContentFact, PostSets
  <2>2. 1 \in 1 .. Len(e) /\ e[1] = post(s)
    BY <1>1, <1>7 DEF Leads
  <2> HIDE DEF s
  <2>3. ASSUME Field(Wish(s), f) = None PROVE Unordered(e, p, f)
    BY <1>3, <2>1, <2>2, <2>3 DEF Unordered
  <2>4. ASSUME Field(Wish(s), f) # None, Counts(f, Field(Wish(s), f))
        PROVE  Final(e, p, f, Field(Wish(s), f))
    <3>1. \A j \in 1 + 1 .. Len(e) : ~Sets(e[j], f)
      <4>1. \A j \in 1 + 1 .. Len(e) : j \in 1 .. Len(e) /\ j # 1
        BY <1>2
      <4> QED
        BY <1>3, <4>1
    <3> QED
      BY <2>1, <2>2, <2>4, <3>1 DEF Final
  <2> QED
    BY <2>3, <2>4 DEF s
<1> QED
  BY <1>4, <1>5, <1>6, <1>7 DEF e

\* Parts that are asked for are touched.
LEMMA CoveredTouched == ASSUME NEW q, NEW p, Covered(q, p) PROVE ~Untouched(q, p)
  BY DEF Covered, Untouched

\* What is expected changes as far as what is posted says.
LEMMA WantsField ==
    ASSUME NEW c \in Content, wanted \in [Part -> Expected], Wants(c),
           NEW p \in Part, NEW f \in {"word", "number"}
    PROVE  /\ c.setting = None \/ c.setting.to # p => wanted'[p] = wanted[p]
           /\ c.setting # None /\ c.setting.to = p =>
                 Field(wanted'[p], f) =
                    Updated(Field(wanted[p], f), Field(Wish(c.setting), f))
<1>1. CASE c.setting = None
  BY <1>1 DEF Wants
<1>2. CASE c.setting # None
  <2> DEFINE to == c.setting.to
             new == [word |-> Updated(wanted[to].word, Wish(c.setting).word),
                     number |-> Updated(wanted[to].number, Wish(c.setting).number)]
  <2>1. to \in Part
    BY <1>2, ContentFact
  <2>2. wanted' = [wanted EXCEPT ![to] = new]
    BY <1>2 DEF Wants
  <2>3. Field(new, f) = Updated(Field(wanted[to], f), Field(Wish(c.setting), f))
    BY DEF Field
  <2> HIDE DEF new
  <2>4. wanted'[p] = IF p = to THEN new ELSE wanted[p]
    BY <2>2
  <2> QED
    BY <1>2, <2>3, <2>4
<1> QED
  BY <1>1, <1>2

\* Sensors and inputs stay unset.
LEMMA SetOnlyStep == IInv /\ SetOnly /\ [Next]_vars => SetOnly'
<1> SUFFICES ASSUME IInv, SetOnly, [Next]_vars PROVE SetOnly'
  OBVIOUS
<1>1. ASSUME NEW r \in Request, NEW c \in Content, reply_to_get(r, c) PROVE SetOnly'
  <2>1. wanted \in [Part -> Expected] /\ Wants(c)
    BY <1>1 DEF IInv, TypeOK, reply_to_get
  <2>2. c.setting # None => c.setting.to \notin {"input", "temperature"}
    BY ContentFact DEF Setting, RelaySetting, BlindSetting, DimmerSetting, TempSetting
  <2> QED
    BY <2>1, <2>2, WantsField DEF SetOnly, Part
<1>2. ASSUME ~(\E r \in Request, c \in Content : reply_to_get(r, c)) PROVE UNCHANGED wanted
  BY <1>2 DEF Next, Refused, timeout, StartupQuery, VelbusMessage, PushButtonStatus,
              Module, ModuleObeys, ModuleAnswers, ModuleReports, Loses, vars
<1> QED
  BY <1>1, <1>2 DEF SetOnly

\* Each message and each step of a module, for one part.
Arrives(p) == Current(p) /\ Known(p) /\ Obedient(p)

LEMMA RequestArrives ==
    ASSUME IInv, NEW p \in Part, Arrives(p),
           NEW r \in Request, NEW c \in Content, reply_to_get(r, c)
    PROVE  Arrives(p)'
<1> DEFINE e == Commands(c)
<1>1. /\ asked' = asked \o e
      /\ UNCHANGED <<told, held, live, startup>>
      /\ Wants(c)
  BY DEF reply_to_get
<1>2. asked \in Seq(Command) /\ e \in Seq(Command) /\ wanted \in [Part -> Expected]
  BY CommandsFact DEF IInv, TypeOK
<1>3. \A f \in {"word", "number"} :
           /\ p \in c.need => Covered(e, p) /\ ~Untouched(e, p)
           /\ p \notin c.need => Untouched(e, p)
           /\ c.setting = None \/ c.setting.to # p => Unordered(e, p, f)
           /\ c.setting # None /\ c.setting.to = p =>
                IF Field(Wish(c.setting), f) = None THEN Unordered(e, p, f)
                ELSE Counts(f, Field(Wish(c.setting), f)) =>
                        Final(e, p, f, Field(Wish(c.setting), f))
  BY CommandsSettle
<1> HIDE DEF e
<1>4. /\ p \in c.need => Covered(e, p) /\ ~Untouched(e, p)
      /\ p \notin c.need => Untouched(e, p)
  BY <1>3
<1>5. /\ Covered(e, p) => Covered(asked', p)
      /\ Covered(asked, p) /\ Untouched(e, p) => Covered(asked', p)
      /\ Untouched(asked, p) /\ Untouched(e, p) => Untouched(asked', p)
      /\ ~Untouched(asked, p) \/ ~Untouched(e, p) => ~Untouched(asked', p)
  BY <1>1, <1>2, BehindCommands
<1>6. Current(p)'
  BY <1>1, <1>4, <1>5 DEF Arrives, Current
<1>7. Known(p)'
  <2>1. CASE p \in c.need
    BY <1>4, <1>5, <2>1 DEF Known
  <2>2. CASE p \notin c.need
    <3>1. c.setting = None \/ c.setting.to # p
      BY <2>2, ContentAssumption
    <3>2. wanted'[p] = wanted[p]
      BY <1>1, <1>2, <3>1, WantsField
    <3> QED
      BY <1>1, <1>5, <3>2 DEF Arrives, Known
  <2> QED
    BY <2>1, <2>2
<1>8. Obedient(p)'
  <2> SUFFICES ASSUME NEW f \in {"word", "number"}, Counts(f, Field(wanted'[p], f))
               PROVE  \/ Final(asked', p, f, Field(wanted'[p], f))
                      \/ /\ Unordered(asked', p, f)
                         /\ Field(parse(p, held[p]), f) = Field(wanted'[p], f)
    BY <1>1 DEF Obedient
  <2> DEFINE v == Field(wanted'[p], f)
  <2>1. /\ Final(e, p, f, v) => Final(asked', p, f, v)
        /\ Final(asked, p, f, v) /\ Unordered(e, p, f) => Final(asked', p, f, v)
        /\ Unordered(asked, p, f) /\ Unordered(e, p, f) => Unordered(asked', p, f)
    BY <1>1, <1>2, BehindOrders
  <2>2. ASSUME v = Field(wanted[p], f), Unordered(e, p, f)
        PROVE  \/ Final(asked', p, f, v)
               \/ Unordered(asked', p, f) /\ Field(parse(p, held[p]), f) = v
    BY <2>1, <2>2 DEF Arrives, Obedient
  <2>3. CASE c.setting = None \/ c.setting.to # p
    <3>1. wanted'[p] = wanted[p]
      BY <1>1, <1>2, <2>3, WantsField
    <3> QED
      BY <1>3, <2>2, <2>3, <3>1
  <2>4. CASE c.setting # None /\ c.setting.to = p
    <3>1. v = Updated(Field(wanted[p], f), Field(Wish(c.setting), f))
      BY <1>1, <1>2, <2>4, WantsField
    <3>2. CASE Field(Wish(c.setting), f) = None
      <4>1. v = Field(wanted[p], f) /\ Unordered(e, p, f)
        BY <1>3, <2>4, <3>1, <3>2 DEF Updated
      <4> QED
        BY <2>2, <4>1
    <3>3. CASE Field(Wish(c.setting), f) # None
      <4>1. v = Field(Wish(c.setting), f)
        BY <3>1, <3>3 DEF Updated
      <4>2. Final(e, p, f, v)
        BY <1>3, <2>4, <3>3, <4>1
      <4> QED
        BY <2>1, <4>2
    <3> QED
      BY <3>2, <3>3
  <2> QED
    BY <2>3, <2>4
<1> QED
  BY <1>6, <1>7, <1>8 DEF Arrives

LEMMA QueryArrives ==
    ASSUME IInv, NEW p \in Part, Arrives(p), NEW q \in Part, StartupQuery(q)
    PROVE  Arrives(p)'
<1> DEFINE e == <<ask(q)>>
<1>1. /\ asked' = asked \o e /\ startup' = startup \ {q}
      /\ UNCHANGED <<told, held, live, wanted>>
  BY DEF StartupQuery, QueryFor
<1>2. ask(q) \in Command /\ ask(q).to = q /\ IsQuestion(ask(q))
  BY AskFact DEF Command, ask, IsQuestion
<1>3. asked \in Seq(Command) /\ e \in Seq(Command)
  BY <1>2 DEF IInv, TypeOK
<1>4. Len(e) = 1 /\ e[1] = ask(q) /\ 1 \in 1 .. 1 /\ 1 + 1 .. 1 = {}
      /\ \A i \in 1 .. 1 : i = 1
  OBVIOUS
<1> HIDE DEF e
<1>5. /\ p = q => Covered(e, p) /\ ~Untouched(e, p)
      /\ p # q => Untouched(e, p)
      /\ \A f : Unordered(e, p, f)
  BY <1>2, <1>4 DEF Covered, Untouched, Unordered, Sets
<1>6. /\ Covered(e, p) => Covered(asked', p)
      /\ Covered(asked, p) /\ Untouched(e, p) => Covered(asked', p)
      /\ Untouched(asked, p) /\ Untouched(e, p) => Untouched(asked', p)
      /\ ~Untouched(asked, p) \/ ~Untouched(e, p) => ~Untouched(asked', p)
  BY <1>1, <1>3, BehindCommands
<1>7. Current(p)'
  BY <1>1, <1>5, <1>6 DEF Arrives, Current
<1>8. Known(p)'
  BY <1>1, <1>5, <1>6 DEF Arrives, Known
<1>9. Obedient(p)'
  <2>1. ASSUME NEW f, NEW v
        PROVE  /\ Final(asked, p, f, v) => Final(asked', p, f, v)
               /\ Unordered(asked, p, f) => Unordered(asked', p, f)
    BY <1>1, <1>3, <1>5, BehindOrders
  <2> QED
    BY <1>1, <2>1 DEF Arrives, Obedient
<1> QED
  BY <1>7, <1>8, <1>9 DEF Arrives

LEMMA OrderArrives ==
    ASSUME IInv, NEW p \in Part, Arrives(p), ModuleObeys
    PROVE  Arrives(p)'
<1> DEFINE h == Head(asked)
           new == Obeyed(h, held[h.to])
<1>1. /\ asked # <<>> /\ ~IsQuestion(h) /\ asked' = Tail(asked)
      /\ held' = [held EXCEPT ![h.to] = new]
      /\ UNCHANGED <<told, live, wanted, startup>>
  BY DEF ModuleObeys
<1>2. /\ asked \in Seq(Command) /\ held \in [Part -> Reading] /\ h \in Command
  BY <1>1, LaterFact DEF IInv, TypeOK
<1>3. h \in Order /\ h.to \in Part
  BY <1>1, <1>2 DEF Command, Question, Order, IsQuestion, Part
<1>4. \A f \in {"word", "number"} :
         Field(parse(h.to, new), f) = IF Sets(h, f) THEN Field(Outcome(h), f)
                                      ELSE Field(parse(h.to, held[h.to]), f)
  BY <1>2, <1>3, OrderFact
<1> HIDE DEF h, new
<1>5. held'[p] = IF p = h.to THEN new ELSE held[p]
  BY <1>1, <1>2
<1>6. /\ Covered(asked, p) => Covered(asked', p)
      /\ Untouched(asked, p) => Untouched(asked', p) /\ h.to # p
      /\ ~Untouched(asked, p) => ~Untouched(asked', p) \/ h.to = p
  BY <1>1, <1>2, RestOfCommands DEF h
<1>7. Current(p)'
  BY <1>1, <1>5, <1>6 DEF Arrives, Current
<1>8. Known(p)'
  <2>1. CASE Untouched(asked, p)
    BY <1>1, <2>1 DEF Arrives, Known
  <2>2. CASE ~Untouched(asked, p)
    <3>1. Covered(asked, p)
      BY <2>2 DEF Arrives, Current
    <3> QED
      BY <1>6, <3>1, CoveredTouched DEF Known
  <2> QED
    BY <2>1, <2>2
<1>9. Obedient(p)'
  <2> SUFFICES ASSUME NEW f \in {"word", "number"}, NEW v,
                      v = Field(wanted[p], f), Counts(f, v)
               PROVE  \/ Final(asked', p, f, v)
                      \/ Unordered(asked', p, f) /\ Field(parse(p, held'[p]), f) = v
    BY <1>1 DEF Obedient
  <2>1. /\ Final(asked, p, f, v) =>
             \/ Final(asked', p, f, v)
             \/ /\ h.to = p /\ Sets(h, f) /\ Field(Outcome(h), f) = v
                /\ Unordered(asked', p, f)
        /\ Unordered(asked, p, f) =>
             Unordered(asked', p, f) /\ ~(h.to = p /\ Sets(h, f))
    BY <1>1, <1>2, RestOfOrders DEF h
  <2>2. CASE Final(asked, p, f, v)
    BY <1>4, <1>5, <2>1, <2>2
  <2>3. CASE Unordered(asked, p, f) /\ Field(parse(p, held[p]), f) = v
    BY <1>4, <1>5, <2>1, <2>3
  <2> QED
    BY <2>2, <2>3 DEF Arrives, Obedient
<1> QED
  BY <1>7, <1>8, <1>9 DEF Arrives

LEMMA AnswerArrives ==
    ASSUME IInv, NEW p \in Part, Arrives(p), ModuleAnswers
    PROVE  Arrives(p)'
<1> DEFINE h == Head(asked)
           x == [part |-> h.to, reading |-> held[h.to]]
<1>1. /\ asked # <<>> /\ IsQuestion(h) /\ asked' = Tail(asked)
      /\ told' = Append(told, x)
      /\ UNCHANGED <<held, live, wanted, startup>>
  BY DEF ModuleAnswers, Tell
<1>2. /\ asked \in Seq(Command) /\ held \in [Part -> Reading] /\ h \in Command
      /\ told \in Seq(Telegram)
  BY <1>1, LaterFact DEF IInv, TypeOK
<1>3. h.to \in Part /\ h.to # "push_button"
  BY <1>2 DEF Command, Question, Order, Part
<1>4. x \in Telegram /\ About(x) = h.to /\ Shows(x) = parse(h.to, held[h.to])
  BY <1>2, <1>3 DEF Telegram, About, Shows
<1> HIDE DEF h, x
<1>5. /\ Covered(asked, p) =>
             Covered(asked', p) \/ (h.to = p /\ Untouched(asked', p))
      /\ Untouched(asked, p) => Untouched(asked', p) /\ h.to # p
      /\ ~Untouched(asked, p) => ~Untouched(asked', p) \/ h.to = p
  BY <1>1, <1>2, RestOfCommands DEF h
<1>6. /\ h.to = p => Ends(told', p, held[p]) /\ ~Untold(told', p)
      /\ h.to # p /\ Ends(told, p, held[p]) => Ends(told', p, held[p])
      /\ h.to # p /\ Untold(told, p) => Untold(told', p)
      /\ ~Untold(told, p) => ~Untold(told', p)
  BY <1>1, <1>2, <1>4, OneMoreTold
<1>7. Current(p)'
  BY <1>1, <1>5, <1>6 DEF Arrives, Current
<1>8. Known(p)'
  BY <1>1, <1>5, <1>6 DEF Arrives, Known
<1>9. Obedient(p)'
  <2>1. ASSUME NEW f, NEW v
        PROVE  /\ Final(asked, p, f, v) => Final(asked', p, f, v)
               /\ Unordered(asked, p, f) => Unordered(asked', p, f)
    <3>1. ~Sets(h, f)
      BY <1>1 DEF Sets
    <3> QED
      BY <1>1, <1>2, <3>1, RestOfOrders DEF h
  <2> QED
    BY <1>1, <2>1 DEF Arrives, Obedient
<1> QED
  BY <1>7, <1>8, <1>9 DEF Arrives

LEMMA ReportArrives ==
    ASSUME IInv, SetOnly, NEW p \in Part, Arrives(p), ModuleReports
    PROVE  Arrives(p)'
<1>1. UNCHANGED <<asked, live, wanted, startup>>
  BY DEF ModuleReports, requests
<1>2. \E x \in Telegram, new \in Reading :
         /\ About(x) \in {"input", "temperature"} /\ Shows(x) = parse(About(x), new)
         /\ told' = Append(told, x) /\ held' = [held EXCEPT ![About(x)] = new]
  <2>1. CASE SensorReports
    <3>1. PICK t \in Measured :
              /\ held' = [held EXCEPT !["temperature"] = [code |-> 0, number |-> t]]
              /\ Tell("temperature", [code |-> 0, number |-> t])
      BY <2>1 DEF SensorReports
    <3> DEFINE new == [code |-> 0, number |-> t]
               x == [part |-> "temperature", reading |-> new]
    <3>2. new \in Reading
      BY MeasuredFact DEF Reading, Byte
    <3>3. x \in Telegram /\ About(x) = "temperature" /\ Shows(x) = parse("temperature", new)
      BY <3>2 DEF Telegram, Part, About, Shows
    <3>4. told' = Append(told, x) /\ held' = [held EXCEPT !["temperature"] = new]
      BY <3>1 DEF Tell
    <3> HIDE DEF x, new
    <3> QED
      BY <3>2, <3>3, <3>4
  <2>2. CASE InputReports
    <3> DEFINE pressed == 1 - held["input"].code
               new == [code |-> pressed, number |-> 0]
               seen == [code |-> pressed, number |-> 1 - pressed]
               x == [part |-> "push_button", reading |-> seen]
    <3>1. pressed \in {0, 1} /\ 1 - pressed \in {0, 1}
      BY DEF IInv, TypeOK
    <3>2. 0 \in Wide /\ 1 \in Wide
      BY WideFact DEF Byte
    <3>3. told' = Append(told, x) /\ held' = [held EXCEPT !["input"] = new]
      BY <2>2 DEF InputReports, Tell
    <3> HIDE DEF pressed
    <3>4. new \in Reading /\ seen \in Reading
      BY <3>1, <3>2 DEF Reading, Byte
    <3>5. x \in Telegram /\ About(x) = "input" /\ Shows(x) = pushButtonStatus(seen)
      BY <3>4 DEF Telegram, About, Shows
    <3>6. pushButtonStatus(seen) = parse("input", new)
      BY <3>1, PushedFact
    <3> HIDE DEF x, new, seen
    <3> QED
      BY <3>3, <3>4, <3>5, <3>6
  <2> QED
    BY <2>1, <2>2 DEF ModuleReports
<1>3. PICK x \in Telegram, new \in Reading :
         /\ About(x) \in {"input", "temperature"} /\ Shows(x) = parse(About(x), new)
         /\ told' = Append(told, x) /\ held' = [held EXCEPT ![About(x)] = new]
  BY <1>2
<1>4. told \in Seq(Telegram) /\ held \in [Part -> Reading]
  BY DEF IInv, TypeOK
<1>5. held'[p] = IF p = About(x) THEN new ELSE held[p]
  BY <1>3, <1>4
<1>6. /\ About(x) = p => Ends(told', p, held'[p]) /\ ~Untold(told', p)
      /\ About(x) # p /\ Ends(told, p, held[p]) => Ends(told', p, held'[p])
      /\ About(x) # p /\ Untold(told, p) => Untold(told', p)
      /\ ~Untold(told, p) => ~Untold(told', p)
  BY <1>3, <1>4, <1>5, OneMoreTold
<1>7. Current(p)'
  BY <1>1, <1>5, <1>6 DEF Arrives, Current
<1>8. Known(p)'
  BY <1>1, <1>6 DEF Arrives, Known
<1>9. Obedient(p)'
  <2>1. CASE About(x) = p
    <3>1. wanted[p] = Unset
      BY <1>3, <2>1 DEF SetOnly
    <3>2. \A f : Field(wanted[p], f) = None
      BY <3>1 DEF Field, Unset
    <3> QED
      BY <1>1, <3>2 DEF Obedient, Counts
  <2>2. CASE About(x) # p
    BY <1>1, <1>5, <2>2 DEF Arrives, Obedient
  <2> QED
    BY <2>1, <2>2
<1> QED
  BY <1>7, <1>8, <1>9 DEF Arrives

LEMMA MessageArrives ==
    ASSUME IInv, NEW p \in Part, Arrives(p), VelbusMessage \/ PushButtonStatus
    PROVE  Arrives(p)'
<1> DEFINE h == Head(told)
<1>1. /\ told # <<>> /\ told' = Tail(told) /\ live' = [live EXCEPT ![About(h)] = Shows(h)]
      /\ UNCHANGED <<asked, held, wanted, startup>>
      /\ h.part \in Part \cup {"push_button"}
  <2>1. CASE VelbusMessage
    <3>1. h.part # "push_button"
      BY <2>1 DEF VelbusMessage, Part
    <3> QED
      BY <2>1, <3>1 DEF VelbusMessage, About, Shows
  <2>2. CASE PushButtonStatus
    BY <2>2 DEF PushButtonStatus, About, Shows
  <2> QED
    BY <2>1, <2>2
<1>2. /\ told \in Seq(Telegram) /\ h \in Telegram
      /\ live \in [Part -> Shown \cup {None}]
  BY <1>1, LaterFact DEF IInv, TypeOK
<1>3. About(h) \in Part
  BY <1>1 DEF About, Part
<1>4. Shows(h) # None
  <2>1. h.reading \in Reading
    BY <1>2 DEF Telegram
  <2>2. Shows(h) \in Shown
    BY <1>1, <2>1, ParseFact, PushButtonFact DEF Shows
  <2> QED
    BY <2>2, NoneAssumption
<1> HIDE DEF h
<1>5. live'[p] = IF p = About(h) THEN Shows(h) ELSE live[p]
  BY <1>1, <1>2
<1>6. /\ Ends(told, p, held[p]) =>
             \/ Ends(told', p, held[p])
             \/ /\ About(h) = p /\ Shows(h) = parse(p, held[p]) /\ Untold(told', p)
      /\ Untold(told, p) => Untold(told', p) /\ About(h) # p
      /\ ~Untold(told, p) => ~Untold(told', p) \/ About(h) = p
  BY <1>1, <1>2, RestOfTold DEF h
<1>7. Current(p)'
  BY <1>1, <1>5, <1>6 DEF Arrives, Current
<1>8. Known(p)'
  BY <1>1, <1>4, <1>5, <1>6 DEF Arrives, Known
<1>9. Obedient(p)'
  BY <1>1 DEF Arrives, Obedient
<1> QED
  BY <1>7, <1>8, <1>9 DEF Arrives

\* What is on its way arrives, at every step, as long as nothing is lost.
LEMMA ArrivalStep ==
    ASSUME IInv, ArrivalInv, [Next]_vars, lost' = 0, NEW p \in Part
    PROVE  Arrives(p)'
<1>1. ~Loses /\ lost = 0
  <2>1. lost \in Nat
    BY DEF IInv, TypeOK
  <2>2. lost' = lost \/ (Loses /\ lost' = lost + 1)
    BY DEF Next, Refused, timeout, reply_to_get, StartupQuery, VelbusMessage,
           PushButtonStatus, Module, ModuleObeys, ModuleAnswers, ModuleReports, Loses,
           counters, vars
  <2>3. Loses => lost' = lost + 1
    BY DEF Loses
  <2> QED
    BY <2>1, <2>2, <2>3
<1>2. Arrives(p) /\ SetOnly
  BY <1>1 DEF ArrivalInv, Arrives
<1>3. ASSUME NEW r \in Request, Refused(r) \/ timeout(r) PROVE Arrives(p)'
  <2>1. UNCHANGED <<asked, told, held, live, wanted, startup>>
    BY <1>3 DEF Refused, timeout, bus
  <2> QED
    BY <1>2, <2>1 DEF Arrives, Current, Known, Obedient
<1>4. CASE UNCHANGED vars
  BY <1>2, <1>4 DEF vars, Arrives, Current, Known, Obedient
<1> QED
  BY <1>1, <1>2, <1>3, <1>4, RequestArrives, QueryArrives, OrderArrives, AnswerArrives,
     ReportArrives, MessageArrives DEF Next, Module

\* Nothing is asked or told at first.
LEMMA ArrivalInit == Init => ArrivalInv
<1> SUFFICES ASSUME Init PROVE ArrivalInv
  OBVIOUS
<1>1. asked = <<>> /\ told = <<>> /\ startup = Configured
      /\ \A p \in Part : live[p] = None /\ wanted[p] = Unset
  BY DEF Init
<1>2. SetOnly
  BY <1>1 DEF SetOnly, Part
<1>3. ASSUME NEW p \in Part PROVE Current(p) /\ Known(p) /\ Obedient(p)
  <2>1. \A f : Field(wanted[p], f) = None
    BY <1>1 DEF Field, Unset
  <2>2. Untouched(asked, p) /\ Untold(told, p)
    BY <1>1 DEF Untouched, Untold
  <2> QED
    BY <1>1, <2>1, <2>2 DEF Current, Known, Obedient, Counts
<1> QED
  BY <1>2, <1>3 DEF ArrivalInv
-----------------------------------------------------------------------------
\* The invariant of what is on its way: while nothing is lost, the status of
\* each part is shown, or told, or will be asked for behind all orders to it.
THEOREM Arrival == Spec => [](IInv /\ ArrivalInv)
<1>1. IInv /\ ArrivalInv /\ [Next]_vars => ArrivalInv'
  <2> SUFFICES ASSUME IInv, ArrivalInv, [Next]_vars PROVE ArrivalInv'
    OBVIOUS
  <2>1. SetOnly'
    BY SetOnlyStep DEF ArrivalInv
  <2> QED
    BY <2>1, ArrivalStep DEF ArrivalInv, Arrives
<1> QED
  BY <1>1, ArrivalInit, Invariant, PTL DEF Spec

\* Nothing is on its way when the bus is quiet.
LEMMA QuietFact ==
    ASSUME Quiet, NEW p
    PROVE  /\ Untouched(asked, p) /\ ~Covered(asked, p) /\ Untold(told, p)
           /\ ~Ends(told, p, held[p]) /\ \A f, v : ~Final(asked, p, f, v)
<1>1. 1 .. Len(asked) = {} /\ 1 .. Len(told) = {}
  BY DEF Quiet
<1> QED
  BY <1>1 DEF Untouched, Covered, Untold, Ends, Final

\* After start-up the status of each configured control is known once the bus
\* is quiet (velbusMessages queries at connect, StartupQuery).
THEOREM KnownOnce == Spec => []KnownAfterStart
<1>1. ArrivalInv => KnownAfterStart
  <2> SUFFICES ASSUME ArrivalInv, Quiet, startup = {}, NEW p \in Configured
               PROVE  live[p] # None
    BY DEF KnownAfterStart
  <2>1. p \in Part /\ Known(p)
    BY ConfiguredAssumption DEF ArrivalInv, Quiet
  <2> QED
    BY <2>1, QuietFact DEF Known
<1> QED
  BY <1>1, Arrival, PTL

\* What was posted last is what the live state shows once the bus is quiet.
THEOREM PostsAreEffective == Spec => []Effective
<1>1. IInv /\ ArrivalInv => Effective
  <2> SUFFICES ASSUME IInv, ArrivalInv, Quiet, NEW p \in Part
               PROVE  /\ wanted[p].word # None =>
                            live[p] # None /\ live[p].word = wanted[p].word
                      /\ wanted[p].number # None /\ wanted[p].number \in 0 .. Widest =>
                            live[p] # None /\ live[p].number = wanted[p].number
    BY DEF Effective
  <2>1. Current(p) /\ Known(p) /\ Obedient(p)
    BY DEF ArrivalInv, Quiet
  <2>2. live[p] \in {None, parse(p, held[p])}
    BY <2>1, QuietFact DEF Current
  <2>3. wanted[p] # Unset => live[p] # None
    BY <2>1, QuietFact DEF Known
  <2>4. wanted[p].word # None \/ wanted[p].number # None => wanted[p] # Unset
    BY DEF Unset
  <2>5. \A f \in {"word", "number"} :
           Counts(f, Field(wanted[p], f)) =>
              Field(parse(p, held[p]), f) = Field(wanted[p], f)
    BY <2>1, QuietFact DEF Obedient
  <2>6. /\ wanted[p].word # None => parse(p, held[p]).word = wanted[p].word
        /\ wanted[p].number # None /\ wanted[p].number \in 0 .. Widest =>
              parse(p, held[p]).number = wanted[p].number
    BY <2>5 DEF Counts, Field
  <2> QED
    BY <2>2, <2>3, <2>4, <2>6
<1> QED
  BY <1>1, Arrival, PTL

\* Whatever order reports, answers and orders come in, the live state is what
\* the module holds once the bus is quiet.
THEOREM ShowsTheModule == Spec => []CurrentAboveZero
<1>1. ArrivalInv => CurrentAboveZero
  <2> SUFFICES ASSUME ArrivalInv, Quiet, NEW p \in Part, live[p] # None
               PROVE  live[p] = parse(p, held[p])
    BY DEF CurrentAboveZero
  <2>1. Current(p)
    BY DEF ArrivalInv, Quiet
  <2> QED
    BY <2>1, QuietFact DEF Current
<1> QED
  BY <1>1, Arrival, PTL
=============================================================================
