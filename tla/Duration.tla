------------------------------ MODULE Duration ------------------------------
(***************************************************************************)
(* The fields "for" and "until" of a popover (make_duration,               *)
(* www/public/js/controls/common.js 67-284), the button beside them        *)
(* (relay.js 43-55, temp.js 48-72 there), and what the module is told      *)
(* (www/controls/relay.js 64-93, temp.js 145-175).  What the timer of a    *)
(* thermostat means is what bin/velbus-parse.pl 821-829 reads in it.       *)
(*                                                                         *)
(* The field that was typed in or focused last leads: an interval of a     *)
(* second rewrites the other, which is meanwhile out of date.  Only "for"  *)
(* is read by the button.  Times are in seconds; before ten o'clock the    *)
(* hour that is written into "until" has one digit, which parse_datetime   *)
(* does not understand.                                                    *)
(***************************************************************************)
EXTENDS Integers

CONSTANTS
    Durations,  \* durations that the user may type
    Moments,    \* dates and times that the user may type
    Clocks,     \* times of day that the user may type
    Day, Ten,   \* seconds in a day, and until ten o'clock
    Step,       \* seconds between two looks at the clock
    Period,     \* seconds until the interval fires again
    LastTime,   \* bound: the end of the clock
    NextStep,   \* until the next step of a thermostat's programme
    NoTime

Control == {"blind", "dimmer", "relay", "temp"}

ASSUME DayAssumption == Day \in Nat \ {0} /\ Ten \in 0 .. Day
ASSUME StepAssumption == Period \in Nat /\ Step \in 1 .. Period
ASSUME TimesAssumption == NoTime \notin Nat /\ NextStep \notin Nat
ASSUME TypedAssumption ==
    Durations \subseteq Nat /\ Moments \subseteq Nat /\ Clocks \subseteq 0 .. Day - 1

\* What a field holds: a time, with or without its date, a time that was
\* written with a short hour, "<0", or anything else.
Text == [form : {"empty", "time", "daytime", "short", "past", "junk"}, value : Nat]
Mark == {"none", "valid", "invalid"}
Blank == [form |-> "empty", value |-> 0]
Junk == [form |-> "junk", value |-> 0]
Time(t) == [form |-> "time", value |-> t]

VARIABLES
    control,                    \* whose popover it is
    clock,
    for, until,                 \* the texts of the fields
    for_mark, until_mark,       \* their classes
    interval,                   \* who leads, with which duration or moment,
                                \* and when the other field was written
    active,                     \* the relay is on, or the mode overridden
    ends                        \* when that ends, or NoTime

fields == <<for, until, for_mark, until_mark, interval>>
duration_vars == <<control, clock, for, until, for_mark, until_mark, interval,
                   active, ends>>

Stopped == [leader |-> "none", at |-> 0, written |-> 0]

DurationInit ==
    /\ control \in Control
    /\ clock = 0
    /\ for = Blank /\ until = Blank
    /\ for_mark = "none" /\ until_mark = "none"
    /\ interval = Stopped
    /\ active \in BOOLEAN /\ ends = NoTime
-----------------------------------------------------------------------------
(* Reading and writing the fields.                                         *)

parse_duration(text) == IF text.form = "time" THEN text.value ELSE NoTime

\* The same time today, or tomorrow when that is over.
NextTime(t) ==
    LET today == (clock \div Day) * Day + t
    IN IF today > clock THEN today ELSE today + Day

parse_datetime(text) ==
    IF text.form = "time" THEN text.value
    ELSE IF text.form = "daytime" THEN NextTime(text.value) ELSE NoTime

\* Mutant: a duration below zero is printed like any other.
PrintsAny(d) == Time(d)

pretty_print_duration(d) ==
    IF d < 0 THEN [form |-> "past", value |-> 0] ELSE Time(d)

\* getHours() is not padded.
pretty_print_datetime(t) ==
    [form |-> IF t % Day < Ten THEN "short" ELSE "time", value |-> t]

\* Mutant: "until" is written once.
FollowsOnce(lead) ==
    /\ for' = IF lead.leader = "until" THEN pretty_print_duration(lead.at - clock) ELSE for
    /\ UNCHANGED until

\* update_f: the field that follows.
Follows(lead) ==
    /\ for' = IF lead.leader = "until" THEN pretty_print_duration(lead.at - clock) ELSE for
    /\ until' = IF lead.leader = "for" THEN pretty_print_datetime(clock + lead.at) ELSE until
-----------------------------------------------------------------------------
(* The key-up handlers.  Each first stops the interval.                    *)

\* Neither understood nor empty: the other field, and its mark, stay.
InvalidFor(text) ==
    /\ for' = text /\ UNCHANGED until
    /\ interval' = Stopped
    /\ for_mark' = "invalid" /\ UNCHANGED until_mark

KeyupFor(text) ==
    IF parse_duration(text) # NoTime
    THEN LET lead == [leader |-> "for", at |-> parse_duration(text), written |-> clock]
         IN /\ interval' = lead
            /\ for' = text /\ until' = pretty_print_datetime(clock + lead.at)
            /\ for_mark' = "valid" /\ until_mark' = "none"
    ELSE IF text = Blank
    THEN /\ for' = text /\ until' = Blank
         /\ interval' = Stopped
         /\ for_mark' = "none" /\ UNCHANGED until_mark
    ELSE InvalidFor(text)

KeyupUntil(text) ==
    IF parse_datetime(text) # NoTime
    THEN LET lead == [leader |-> "until", at |-> parse_datetime(text), written |-> clock]
         IN /\ interval' = lead
            /\ until' = text /\ for' = pretty_print_duration(lead.at - clock)
            /\ until_mark' = "valid" /\ for_mark' = "none"
    ELSE /\ interval' = Stopped
         /\ until' = text
         /\ IF text = Blank
            THEN for' = Blank /\ until_mark' = "none" /\ UNCHANGED for_mark
            ELSE UNCHANGED for /\ until_mark' = "invalid" /\ UNCHANGED for_mark

TypeFor ==
    /\ \E text \in {Blank, Junk} \cup {Time(d) : d \in Durations} : KeyupFor(text)
    /\ UNCHANGED <<control, clock, active, ends>>

TypeUntil ==
    /\ \E text \in {Blank, Junk} \cup {Time(t) : t \in Moments}
                     \cup {[form |-> "daytime", value |-> c] : c \in Clocks} :
          KeyupUntil(text)
    /\ UNCHANGED <<control, clock, active, ends>>

\* A field that gets the focus reads its text as if it had been typed.
Focus ==
    /\ KeyupFor(for) \/ KeyupUntil(until)
    /\ UNCHANGED <<control, clock, active, ends>>

\* The popover is closed and opened again: new fields.  The interval of the
\* old ones goes on, and writes to fields that are no longer in the page.
Reopen ==
    /\ for' = Blank /\ until' = Blank
    /\ for_mark' = "none" /\ until_mark' = "none"
    /\ interval' = Stopped
    /\ UNCHANGED <<control, clock, active, ends>>
-----------------------------------------------------------------------------
(* The button, or Enter in a field, and the command that velbusweb makes.  *)

\* Mutant: minutes that are rounded up.
RoundedUp(d) == ((d + 59) \div 60) % 65536

\* relay.js: three bytes of seconds.
RelayDelay(d) == d % 16777216

\* temp.js: two bytes of whole minutes.
TempDelay(d) == (d \div 60) % 65536

\* An empty field switches a relay that is on off; else it is on for as long
\* as the field says, or for ever when that is not understood.  What a relay
\* does with a timer of zero is its own setting.
ClickRelay ==
    LET d == parse_duration(for)
    IN /\ active' = ~(for = Blank /\ active)
       /\ ends' \in IF d = NoTime \/ ~active' THEN {NoTime}
                    ELSE IF RelayDelay(d) = 0 THEN {NoTime, clock}
                    ELSE {clock + RelayDelay(d)}

\* Of the minutes, 0 cancels the timer, 0xff00 stands for the next step and
\* 0xffff for ever.
TempEnd(minutes) ==
    IF minutes \in {0, 65535} THEN NoTime
    ELSE IF minutes = 65280 THEN NextStep ELSE clock + 60 * minutes

\* parseInt('') is not a number, and becomes bytes of zero.
ClickTemp ==
    LET d == parse_duration(for)
    IN /\ active' = TRUE
       /\ ends' = TempEnd(IF d = NoTime THEN 0 ELSE TempDelay(d))

Click ==
    /\ (control = "relay" /\ ClickRelay) \/ (control = "temp" /\ ClickTemp)
    /\ UNCHANGED <<control, clock, fields>>

\* The interval fires.
IntervalFires ==
    /\ interval.leader # "none"
    /\ Follows(interval)
    /\ interval' = [interval EXCEPT !.written = clock]
    /\ UNCHANGED <<control, clock, for_mark, until_mark, active, ends>>

\* Time passes, not beyond the moment at which the interval fires; the module
\* ends what is over.
TimePasses ==
    /\ clock + Step <= LastTime
    /\ interval.leader # "none" => clock + Step <= interval.written + Period
    /\ clock' = clock + Step
    /\ LET over == ends \notin {NoTime, NextStep} /\ clock' >= ends
       IN /\ active' = (active /\ ~over)
          /\ ends' = IF over THEN NoTime ELSE ends
    /\ UNCHANGED <<control, fields>>
-----------------------------------------------------------------------------
DurationNext ==
    TypeFor \/ TypeUntil \/ Focus \/ Reopen \/ Click \/ IntervalFires \/ TimePasses

DurationSpec == DurationInit /\ [][DurationNext]_duration_vars
-----------------------------------------------------------------------------
DurationTypeOK ==
    /\ control \in Control
    /\ clock \in Nat
    /\ for \in Text /\ until \in Text
    /\ for.form \notin {"daytime", "short"} /\ until.form # "past"
    /\ for_mark \in Mark /\ until_mark \in Mark
    /\ interval \in [leader : {"none", "for", "until"}, at : Nat, written : Nat]
    /\ active \in BOOLEAN
    /\ ends \in Nat \cup {NoTime, NextStep}

\* The moment that the field "until" stands for.
Until == IF until.form = "daytime" THEN interval.at ELSE until.value

\* The page shows in green that it has understood the fields, and in neither in
\* red that it has not; and there is time left.
Understood ==
    /\ {for_mark, until_mark} = {"none", "valid"}
    /\ for.form = "time" /\ for.value > 0

\* While that is so the two fields agree up to what passes between two firings of
\* the interval, whatever was typed, focused and cleared before, and however long
\* ago (common.js 235-282).
FieldsAgree == Understood => clock + for.value \in Until .. Until + Period

\* One field leads at most; the one that leads is green, and no other is.
OneLeader ==
    /\ interval.leader = "for" => for_mark = "valid" /\ until_mark = "none"
    /\ interval.leader = "until" => until_mark = "valid" /\ for_mark = "none"
    /\ ~(for_mark = "valid" /\ until_mark = "valid")

\* What the bytes of a command can say.
Fits(d) == IF control = "relay" THEN d < 16777216 ELSE d >= 60 /\ d < 60 * 65280

\* Then the button switches until the moment that the page shows, and at most what
\* passes between two firings longer: a relay to the second, an override of a
\* thermostat to the minute below if a minute is left.
ClickIsMeant ==
    [][Click /\ Understood /\ Fits(for.value) =>
          /\ active'
          /\ ends' \in (IF control = "relay" THEN Until ELSE Until - 59)
                           .. Until + Period]_duration_vars
=============================================================================
