--------------------------- MODULE BlindPosition ---------------------------
(***************************************************************************)
(* The position of a blind, which no module reports: blindStatus.js of     *)
(* www/velbusMessages adds up how long the blind has moved between its     *)
(* status messages, and the page (www/public/js/controls/blind.js)         *)
(* extends the last sum by the time since then.  The watcher of            *)
(* www/controls/blind.js assigns status and position one after the other,  *)
(* so that the page gets two updates, and shows what it has after each.    *)
(* All are modelled with the blind they follow, whose messages may come    *)
(* late or not at all.                                                     *)
(*                                                                         *)
(* One tick is the time the blind takes for one unit of its Travel, which  *)
(* config.controls[id].time gives; rounding of fractions and differences   *)
(* between the clocks of page and server are left out.  The page has had   *)
(* the first status of the blind: before, its popover has no content       *)
(* (see Floorplan).                                                        *)
(***************************************************************************)
EXTENDS Integers, Sequences

CONSTANTS
    Travel,     \* units from closed (0) to open
    Undefined,  \* no time
    MaxUpdates, \* bound: updates on their way to the page
    MaxTime     \* bound: ticks

ASSUME TravelAssumption == Travel \in Nat \ {0}
ASSUME UndefinedAssumption == Undefined \notin Nat
ASSUME BoundAssumption == MaxUpdates \in Nat /\ MaxTime \in Nat

Motion == {"stopped", "going_up", "going_down"}

VARIABLES
    now,
    position,   \* blindStatus[id].public.position
    since,      \* blindStatus[id].since
    last_move,  \* blindStatus[id].public['last move']
    updates,    \* on their way to the page
    status,     \* state of the page: status
    base,       \* state of the page: position.value
    ref,        \* state of the page: position.ref
    real,       \* the blind: its position
    motion,     \* the blind: what it does
    run         \* history: ticks this motion has lasted and was reported

decoder == <<position, since, last_move>>
state == <<status, base, ref>>
blind == <<real, motion>>
vars == <<now, position, since, last_move, updates, status, base, ref, real,
          motion, run>>

\* Update last move AFTER it has been copied into msg
Direction(s) ==
    IF s = "going_up" THEN "up" ELSE IF s = "going_down" THEN "down" ELSE last_move

\* Mutant: a blind that stops is still counted as moving.
CountsOn(s) == now

Since(s) == IF s = "stopped" THEN Undefined ELSE now

\* The decoder after its first message, which the page has.
Init ==
    /\ now = 0
    /\ real \in 0 .. Travel /\ motion \in Motion
    /\ position = Travel \div 2
    /\ since = IF motion = "stopped" THEN Undefined ELSE 0
    /\ last_move = IF motion = "going_up" THEN "up"
                   ELSE IF motion = "going_down" THEN "down" ELSE "undefined"
    /\ updates = <<>>
    /\ status = motion /\ base = position /\ ref = 0
    /\ run = 0
-----------------------------------------------------------------------------
\* Math.min(1, Math.max(0, p))
Clamped(p) == IF p < 0 THEN 0 ELSE IF p > Travel THEN Travel ELSE p

\* Have we been moving since the last time we checked?
Moved ==
    IF since = Undefined THEN position
    ELSE Clamped(IF last_move = "up" THEN position + (now - since)
                 ELSE position - (now - since))

\* The watcher: state.set of status, then of position.
Updates ==
    <<[key |-> "status", value |-> motion],
      [key |-> "position", value |-> Moved, ref |-> now]>>

\* A status message: the decoder, and the watcher in the same event.
BlindStatus ==
    /\ Len(updates) + 2 <= MaxUpdates
    /\ position' = Moved
    /\ since' = Since(motion)
    /\ last_move' = Direction(motion)
    /\ updates' = updates \o Updates
    /\ UNCHANGED <<now, state, blind, run>>

\* One update reaches the page, which then shows what it has.
Update ==
    /\ updates # <<>>
    /\ updates' = Tail(updates)
    /\ LET m == Head(updates)
       IN IF m.key = "status"
          THEN status' = m.value /\ UNCHANGED <<base, ref>>
          ELSE base' = m.value /\ ref' = m.ref /\ UNCHANGED status
    /\ UNCHANGED <<now, decoder, blind, run>>

\* Mutant: the page starts from its own clock.
ShowsReportOnly == base

\* update_state of the page, called by update() and by its interval.
Shown ==
    IF status = "going_up" THEN Clamped(base + (now - ref))
    ELSE IF status = "going_down" THEN Clamped(base - (now - ref))
    ELSE base

\* The blind is told to move, or its module's own timer stops it.
BlindMoves ==
    /\ motion' \in Motion \ {motion}
    /\ run' = 0
    /\ UNCHANGED <<now, decoder, updates, state, real>>

\* What the decoder was told last.
Reported ==
    IF since = Undefined THEN "stopped"
    ELSE IF last_move = "up" THEN "going_up" ELSE "going_down"

\* At its ends the blind stands still although its motor may be on.
Tick ==
    /\ now < MaxTime
    /\ now' = now + 1
    /\ real' = IF motion = "going_up" /\ real < Travel THEN real + 1
               ELSE IF motion = "going_down" /\ real > 0 THEN real - 1
               ELSE real
    /\ run' = IF Reported = motion /\ motion # "stopped" THEN run + 1 ELSE 0
    /\ UNCHANGED <<decoder, updates, state, motion>>

Next == BlindStatus \/ Update \/ BlindMoves \/ Tick

Spec == Init /\ [][Next]_vars
-----------------------------------------------------------------------------
Message ==
    [key : {"status"}, value : Motion]
        \cup [key : {"position"}, value : 0 .. Travel, ref : Nat]

TypeOK ==
    /\ now \in Nat
    /\ position \in 0 .. Travel
    /\ since \in 0 .. now \cup {Undefined}
    /\ last_move \in {"undefined", "up", "down"}
    /\ updates \in Seq(Message)
    /\ status \in Motion /\ base \in 0 .. Travel /\ ref \in Nat
    /\ real \in 0 .. Travel /\ motion \in Motion
    /\ run \in Nat

\* Of the position that the page goes by, or will: it is that of the decoder,
\* and if the blind moves it is as old (blindStatus.js 57-70).
GoesBy(value, at) ==
    /\ value = position
    /\ since # Undefined => at = since

\* The last two updates, on their way or in the state of the page, are what the
\* decoder goes by; and it knows the direction of a blind that moves.
Agree ==
    LET n == Len(updates)
    IN /\ IF n >= 2 THEN updates[n - 1] = [key |-> "status", value |-> Reported]
          ELSE status = Reported
       /\ IF n >= 1 THEN updates[n].key = "position"
                        /\ GoesBy(updates[n].value, updates[n].ref)
          ELSE GoesBy(base, ref)
       /\ since # Undefined => last_move \in {"up", "down"}

\* What makes ExactAtEnd inductive: a reported motion has carried the decoder's
\* sum and the blind as far as it has lasted.
Carried ==
    /\ run > 0 => Reported = motion /\ motion # "stopped"
    /\ motion = "going_up" /\ run > 0 =>
          /\ real >= run \/ real = Travel
          /\ Moved >= run \/ Moved = Travel
    /\ motion = "going_down" /\ run > 0 =>
          /\ real <= Travel - run \/ real = 0
          /\ Moved <= Travel - run \/ Moved = 0

IInv == TypeOK /\ Agree /\ Carried

\* After one full run whose start was reported, a page that has all updates is
\* exact, whatever was reported late or lost before.
ExactAtEnd == run >= Travel /\ updates = <<>> => Shown = real

\* A page that has all updates shows, at every moment, what the decoder would
\* add up then: they go by different data (blind.js 70-76, blindStatus.js 57-83)
\* and the page gets its own in parts.
SameEstimate == updates = <<>> => Shown = Moved

\* No report makes the decoder's sum jump.
NoJump == [][now' = now => Moved' = Moved]_vars

\* How far the decoder is off.
Error == IF Moved > real THEN Moved - real ELSE real - Moved

\* While the last report says what the blind does, the error of the sum does not
\* grow, over every number of reports.
NeverWorse == [][Reported = motion => Error' <= Error]_vars
=============================================================================
