---------------------------- MODULE DimmerSlider ----------------------------
(***************************************************************************)
(* The slider of a dimmer (www/public/js/controls/dimmer.js) between the   *)
(* user and the module (www/controls/dimmer.js 43-82).  A slider of jQuery *)
(* UI reports a change when it is released and when a value is written to  *)
(* it, except while it is being dragged.  Posts use connections of their   *)
(* own and may overtake each other.                                        *)
(***************************************************************************)
EXTENDS Integers, Sequences, SequencesExt

CONSTANTS
    Level,      \* values that a slider or the module may have
    MaxSlides,  \* bound: times the user drags the slider
    MaxChanges, \* bound: changes at the module itself
    Unknown

ASSUME LevelAssumption == Level \subseteq 0 .. 100 /\ 0 \in Level
ASSUME SlidesAssumption == MaxSlides \in Nat /\ MaxChanges \in Nat

VARIABLES
    dimvalue,   \* velbus_state[addr].dimvalue
    slider,     \* its value
    sliding,    \* it is being dragged
    posts,      \* POSTs on their way to velbusweb
    commands,   \* commands and questions on their way to the module
    level,      \* of the module
    statuses,   \* on their way to the page
    slides, made, changes

module == <<commands, level>>
counters == <<slides, changes>>
slider_vars == <<dimvalue, slider, sliding, posts, commands, level, statuses, slides,
          made, changes>>

Question == [value |-> Unknown]

SliderInit ==
    /\ dimvalue = Unknown /\ slider = 0 /\ sliding = FALSE
    /\ posts = <<>> /\ commands = <<Question>>
    /\ level \in Level /\ statuses = <<>>
    /\ slides = 0 /\ made = 0 /\ changes = 0
-----------------------------------------------------------------------------
\* The change handler: what the page knows already is not posted.
change(value, known) ==
    IF value = known THEN UNCHANGED <<posts, made>>
    ELSE /\ posts' = Append(posts, value)
         /\ made' = made + 1

Slide(v) ==
    /\ sliding \/ (slides < MaxSlides)
    /\ slides' = IF sliding THEN slides ELSE slides + 1
    /\ sliding' = TRUE /\ slider' = v
    /\ UNCHANGED <<dimvalue, posts, module, statuses, made, changes>>

Release ==
    /\ sliding /\ sliding' = FALSE
    /\ change(slider, dimvalue)
    /\ UNCHANGED <<dimvalue, slider, module, statuses, counters>>

\* slider("value", ...): also under the user's hand.
Written(v) ==
    /\ slider' = v
    /\ IF sliding THEN UNCHANGED <<posts, made>> ELSE change(v, v)

\* The message of the event stream, and Dimmer.update.
update ==
    /\ statuses # <<>> /\ statuses' = Tail(statuses)
    /\ dimvalue' = Head(statuses)
    /\ Written(Head(statuses))
    /\ UNCHANGED <<sliding, module, counters>>

\* Mutant: a command is not followed by a question.
CommandOnly(v) == <<[value |-> v]>>

\* The POST handler falls through to the GET.
Asked(v) == <<[value |-> v], Question>>

Post(i) ==
    /\ i \in 1 .. Len(posts)
    /\ posts' = RemoveAt(posts, i)
    /\ commands' = commands \o Asked(posts[i])
    /\ UNCHANGED <<dimvalue, slider, sliding, level, statuses, made, counters>>

\* The module, and the watcher of dimmer statuses.
Module ==
    /\ commands # <<>> /\ commands' = Tail(commands)
    /\ IF Head(commands) = Question
       THEN statuses' = Append(statuses, level) /\ UNCHANGED level
       ELSE level' = Head(commands).value /\ UNCHANGED statuses
    /\ UNCHANGED <<dimvalue, slider, sliding, posts, made, counters>>

\* Someone uses a button on the wall.
Button(v) ==
    /\ changes < MaxChanges /\ changes' = changes + 1
    /\ level' = v /\ statuses' = Append(statuses, v)
    /\ UNCHANGED <<dimvalue, slider, sliding, posts, commands, slides, made>>
-----------------------------------------------------------------------------
SliderNext ==
    \/ Release \/ update \/ Module
    \/ \E v \in Level : Slide(v) \/ Button(v)
    \/ \E i \in 1 .. Len(posts) : Post(i)

SliderSpec == SliderInit /\ [][SliderNext]_slider_vars
-----------------------------------------------------------------------------
SliderTypeOK ==
    /\ dimvalue \in Level \cup {Unknown} /\ slider \in Level /\ sliding \in BOOLEAN
    /\ posts \in Seq(Level)
    /\ commands \in Seq([value : Level \cup {Unknown}])
    /\ level \in Level /\ statuses \in Seq(Level)
    /\ slides \in Nat /\ made \in Nat /\ changes \in Nat

\* At rest the slider stands where the lamp is, in whatever order posts,
\* statuses, buttons and the user's hand came; and although what the module
\* reports moves the slider, and a slider that moves posts, nothing is ever
\* posted but what the user did (dimmer.js 35-37 of the page).
SliderShowsLamp ==
    /\ posts = <<>> /\ commands = <<>> /\ statuses = <<>> /\ ~sliding =>
          slider = level
    /\ made <= slides
=============================================================================
