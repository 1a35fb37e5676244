---------------------------- MODULE ControlCodec ----------------------------
(***************************************************************************)
(* What velbusweb writes to modules when a value is posted, and what it    *)
(* reads in their messages: www/controls/ and www/velbusMessages/; and     *)
(* what these bytes mean to a module, as bin/velbus-parse.pl reads them.   *)
(*                                                                         *)
(* A status is reduced to its code (relay and blind status, temperature    *)
(* mode, input bit) and its number (timer, per cent, half degrees, or      *)
(* 1/512 degrees); a posted value to a word and a number likewise.         *)
(***************************************************************************)
EXTENDS Integers, Sequences

Byte == 0 .. 255
TwoBytes == 0 .. 65535
Widest == 16777215
Wide == 0 .. Widest

\* Messages that a request may wait for, one channel of each.
Part == {"relay", "blind", "dimmer", "input", "temp_status", "temperature"}

Reading == [code : Byte, number : Wide]
Question == [op : {229, 250}, to : Part, number : {0}]
Order == [op : Byte \ {229, 250}, to : {"relay", "blind", "dimmer", "temp_status"},
          number : Wide]
Command == Question \cup Order
Telegram == [part : Part \cup {"push_button"}, reading : Reading]

Word == {"off", "on", "interval", "stopped", "going_up", "going_down", "false",
         "true", "safe", "night", "day", "comfort", "null", "none"}
Shown == [word : Word, number : Int]

\* What can be posted.
RelaySetting ==
    [to : {"relay"}, word : {"on", "off"}, number : {0}]
        \cup [to : {"relay"}, word : {"timer"}, number : Int]
BlindSetting == [to : {"blind"}, word : {"up", "down", "stop"}, number : {0}]
DimmerSetting == [to : {"dimmer"}, word : {"dim"}, number : Int]
TempSetting ==
    [to : {"temp_status"}, word : {"comfort", "day", "night", "safe"}, number : {0}]
        \cup [to : {"temp_status"}, word : {"target"}, number : -128 .. 127]
Setting == RelaySetting \cup BlindSetting \cup DimmerSetting \cup TempSetting
-----------------------------------------------------------------------------
(* Commands.                                                               *)

\* relay.js: of a time, three bytes are sent.
post_relay(s) ==
    [to |-> "relay", op |-> [on |-> 2, timer |-> 3, off |-> 1][s.word],
     number |-> s.number % (Widest + 1)]

post_blind(s) ==
    [to |-> "blind", op |-> [up |-> 5, down |-> 6, stop |-> 4][s.word], number |-> 0]

\* dimmer.js: clamped to per cent.
post_dimmer(s) ==
    [to |-> "dimmer", op |-> 7,
     number |-> IF s.number < 0 THEN 0 ELSE IF s.number > 100 THEN 100 ELSE s.number]

\* tt &= 0xff
SettingByte(tt) == tt % 256

\* Mutant: day and night exchanged.
MixedModes(s) ==
    [to |-> "temp_status",
     op |-> [comfort |-> 219, day |-> 221, night |-> 220, safe |-> 222,
             target |-> 228][s.word],
     number |-> SettingByte(s.number)]

post_temp(s) ==
    [to |-> "temp_status",
     op |-> [comfort |-> 219, day |-> 220, night |-> 221, safe |-> 222,
             target |-> 228][s.word],
     number |-> SettingByte(s.number)]

post(s) == IF s.to = "relay" THEN post_relay(s)
           ELSE IF s.to = "blind" THEN post_blind(s)
           ELSE IF s.to = "dimmer" THEN post_dimmer(s)
           ELSE post_temp(s)

\* Module status request and sensor temperature request.
ask(p) == [to |-> p, op |-> IF p = "temperature" THEN 229 ELSE 250, number |-> 0]
IsQuestion(c) == c.op \in {229, 250}
-----------------------------------------------------------------------------
(* What a module does at a command, after which its status is a reading.   *)

SwitchRelay(c) ==
    [code |-> IF c.op = 1 THEN 0 ELSE 1, number |-> IF c.op = 3 THEN c.number ELSE 0]
SwitchBlind(c) ==
    [code |-> IF c.op = 4 THEN 0 ELSE IF c.op = 5 THEN 1 ELSE 2, number |-> 0]
SetDimvalue(c) == [code |-> 0, number |-> c.number]
SetTemperature(c, was) == [code |-> was.code, number |-> c.number]
SwitchToMode(c, was) ==
    [code |-> IF c.op = 219 THEN 64 ELSE IF c.op = 220 THEN 32
              ELSE IF c.op = 221 THEN 16 ELSE 0,
     number |-> was.number]

Obeyed(c, was) ==
    IF c.to = "relay" THEN SwitchRelay(c)
    ELSE IF c.to = "blind" THEN SwitchBlind(c)
    ELSE IF c.to = "dimmer" THEN SetDimvalue(c)
    ELSE IF c.op = 228 THEN SetTemperature(c, was)
    ELSE SwitchToMode(c, was)
-----------------------------------------------------------------------------
(* Messages of the modules.                                                *)

Threshold(p) == IF p = "temp_status" THEN 128 ELSE 32768

twosComplement(p, tc) == IF tc < Threshold(p) THEN tc ELSE Threshold(p) - tc

\* msg.data[3] & 0x03
relayStatus(v) ==
    [word |-> <<"off", "on", "null", "interval">>[(v.code % 4) + 1],
     number |-> v.number]

blindStatus(v) ==
    [word |-> <<"stopped", "going_up", "going_down", "null">>[(v.code % 4) + 1],
     number |-> 0]

dimmerStatus(v) == [word |-> "none", number |-> v.number]

TempMode(code) ==
    <<"safe", "night", "day", "null", "comfort", "null", "null", "null">>
        [((code \div 16) % 8) + 1]

tempSensorStatus(v) ==
    [word |-> TempMode(v.code), number |-> twosComplement("temp_status", v.number)]

sensorTemperature(v) ==
    [word |-> "none", number |-> twosComplement("temperature", v.number)]

moduleStatus(v) ==
    [word |-> IF v.code % 2 = 1 THEN "true" ELSE "false", number |-> 0]

\* input.js: first the bits just pressed, then those just released.
pushButtonStatus(v) ==
    [word |-> IF v.number = 1 THEN "false" ELSE "true", number |-> 0]

parse(p, v) ==
    IF p = "relay" THEN relayStatus(v)
    ELSE IF p = "blind" THEN blindStatus(v)
    ELSE IF p = "dimmer" THEN dimmerStatus(v)
    ELSE IF p = "input" THEN moduleStatus(v)
    ELSE IF p = "temp_status" THEN tempSensorStatus(v)
    ELSE sensorTemperature(v)
=============================================================================
