---------------------------- MODULE PopoverProofs ----------------------------
(***************************************************************************)
(* The parts of a popover, each for every value of its constants, and then *)
(* all of them together in one popover.                                    *)
(***************************************************************************)
EXTENDS Popover, SequenceTheorems, TLAPS

-----------------------------------------------------------------------------
(***************************************************************************)
(* The blind.  The estimate of its position is right for every travel      *)
(* time: decoder and page agree when all updates have come, a report does  *)
(* not change the sum, its error does not grow while the last report is    *)
(* true, and it is gone after one full run.                                *)
(***************************************************************************)
\* Clamping gives a position and keeps positions.
LEMMA ClampedFacts ==
    ASSUME NEW p \in Int
    PROVE  /\ Clamped(p) \in 0 .. Travel
           /\ p \in 0 .. Travel => Clamped(p) = p
  BY TravelAssumption DEF Clamped

\* A time is not Undefined.
LEMMA KnownTime ==
    ASSUME NEW t \in Nat
    PROVE  /\ t # Undefined
           /\ \A s \in 0 .. t : s # Undefined
  BY UndefinedAssumption

\* The decoder's sum and what the page shows are positions.
LEMMA SumFacts ==
    ASSUME TypeOK
    PROVE  /\ Moved \in 0 .. Travel
           /\ Shown \in 0 .. Travel
<1>1. /\ position \in 0 .. Travel /\ base \in 0 .. Travel
      /\ now \in Nat /\ ref \in Nat /\ since \in 0 .. now \cup {Undefined}
  BY DEF TypeOK
<1>2. Shown \in 0 .. Travel
  <2>1. base + (now - ref) \in Int /\ base - (now - ref) \in Int
    BY <1>1, TravelAssumption
  <2> QED
    BY <1>1, <2>1, ClampedFacts DEF Shown
<1>3. Moved \in 0 .. Travel
  <2>1. CASE since = Undefined
    BY <1>1, <2>1 DEF Moved
  <2>2. CASE since \in 0 .. now
    <3>1. position + (now - since) \in Int /\ position - (now - since) \in Int
      BY <1>1, <2>2, TravelAssumption
    <3> QED
      BY <1>1, <2>2, <3>1, ClampedFacts, KnownTime DEF Moved
  <2> QED
    BY <1>1, <2>1, <2>2
<1> QED
  BY <1>2, <1>3

\* A report leaves the decoder's sum as it was, and is known.
LEMMA ReportKeepsSum ==
    ASSUME TypeOK, BlindStatus
    PROVE  Moved' = Moved /\ Reported' = motion
<1>1. /\ position' = Moved /\ now' = now /\ motion \in Motion
      /\ since' = (IF motion = "stopped" THEN Undefined ELSE now)
      /\ last_move' = IF motion = "going_up" THEN "up"
                      ELSE IF motion = "going_down" THEN "down" ELSE last_move
  BY DEF BlindStatus, Since, Direction, TypeOK
<1>2. Moved \in 0 .. Travel /\ now \in Nat /\ now # Undefined
  BY SumFacts, KnownTime DEF TypeOK
<1>3. CASE motion = "stopped"
  BY <1>1, <1>3 DEF Moved, Reported
<1>4. CASE motion # "stopped"
  <2>1. since' = now /\ motion \in {"going_up", "going_down"}
    BY <1>1, <1>4 DEF Motion
  <2>2. Moved + (now - now) = Moved /\ Moved - (now - now) = Moved
    BY <1>2
  <2>3. Clamped(Moved) = Moved
    BY <1>2, ClampedFacts
  <2>4. Moved' = Clamped(IF last_move' = "up" THEN Moved + (now - now)
                         ELSE Moved - (now - now))
    BY <1>1, <1>2, <2>1 DEF Moved, Clamped
  <2>5. Moved' = Moved
    BY <2>2, <2>3, <2>4
  <2>6. Reported' = motion
    BY <1>1, <1>2, <2>1 DEF Reported
  <2> QED
    BY <2>5, <2>6
<1> QED
  BY <1>3, <1>4

\* One tick of a reported motion: the sum is one unit more or less, and stays
\* where it is at the ends.
LEMMA TickMovesSum ==
    ASSUME TypeOK, Tick
    PROVE  /\ Reported' = Reported
           /\ Reported = "going_up" =>
                Moved' = IF Moved < Travel THEN Moved + 1 ELSE Moved
           /\ Reported = "going_down" =>
                Moved' = IF Moved > 0 THEN Moved - 1 ELSE Moved
           /\ Reported = "stopped" => Moved' = Moved
<1> DEFINE d == now - since
<1>1. /\ now' = now + 1 /\ position' = position /\ since' = since
      /\ last_move' = last_move
      /\ now \in Nat /\ since \in 0 .. now \cup {Undefined} /\ position \in 0 .. Travel
  BY DEF Tick, TypeOK, decoder
<1>2. Reported' = Reported
  BY <1>1 DEF Reported
<1>3. CASE Reported = "stopped"
  <2>1. since = Undefined
    BY <1>3 DEF Reported
  <2> QED
    BY <1>1, <1>2, <1>3, <2>1 DEF Moved
<1>4. CASE Reported = "going_up"
  <2>1. since # Undefined /\ last_move = "up" /\ since \in 0 .. now
    BY <1>1, <1>4 DEF Reported
  <2>2. d \in Nat /\ now' - since' = d + 1
    BY <1>1, <2>1
  <2>3. Moved = Clamped(position + d) /\ Moved' = Clamped(position + (d + 1))
    BY <1>1, <2>1, <2>2 DEF Moved, Clamped
  <2>4. Clamped(position + (d + 1)) = IF Clamped(position + d) < Travel
                                      THEN Clamped(position + d) + 1
                                      ELSE Clamped(position + d)
    <3> HIDE DEF d
    <3> QED
      BY <1>1, <2>2, TravelAssumption DEF Clamped
  <2> QED
    BY <1>2, <1>4, <2>3, <2>4
<1>5. CASE Reported = "going_down"
  <2>1. since # Undefined /\ last_move # "up" /\ since \in 0 .. now
    BY <1>1, <1>5 DEF Reported
  <2>2. d \in Nat /\ now' - since' = d + 1
    BY <1>1, <2>1
  <2>3. Moved = Clamped(position - d) /\ Moved' = Clamped(position - (d + 1))
    BY <1>1, <2>1, <2>2 DEF Moved, Clamped
  <2>4. Clamped(position - (d + 1)) = IF Clamped(position - d) > 0
                                      THEN Clamped(position - d) - 1
                                      ELSE Clamped(position - d)
    <3> HIDE DEF d
    <3> QED
      BY <1>1, <2>2, TravelAssumption DEF Clamped
  <2> QED
    BY <1>2, <1>5, <2>3, <2>4
<1> QED
  BY <1>2, <1>3, <1>4, <1>5 DEF Reported
-----------------------------------------------------------------------------
(* The inductive invariant.                                                *)

LEMMA InitInv == Init => IInv
<1> SUFFICES ASSUME Init PROVE IInv
  OBVIOUS
<1>1. Travel \div 2 \in 0 .. Travel
  BY TravelAssumption
<1>2. 0 # Undefined
  BY KnownTime
<1>3. Len(updates) = 0 /\ updates \in Seq(Message)
  BY DEF Init
<1>4. TypeOK
  BY <1>1, <1>3 DEF Init, TypeOK, Motion
<1>5. Reported = motion
  BY <1>2 DEF Init, Reported, Motion
<1>6. Agree
  BY <1>3, <1>5 DEF Init, Agree, GoesBy, Motion
<1> QED
  BY <1>4, <1>6 DEF Init, IInv, Carried

\* A report keeps the invariant: its two updates are the last ones now.
LEMMA ReportInv == ASSUME IInv, BlindStatus PROVE IInv'
<1> DEFINE n == Len(updates)
           s == [key |-> "status", value |-> motion]
           p == [key |-> "position", value |-> Moved, ref |-> now]
<1>1. /\ TypeOK /\ Agree /\ Carried /\ Moved \in 0 .. Travel /\ Moved' = Moved
      /\ Reported' = motion /\ now \in Nat /\ motion \in Motion
      /\ updates \in Seq(Message)
  BY SumFacts, ReportKeepsSum DEF IInv, TypeOK
<1>2. /\ UNCHANGED <<now, status, base, ref, real, motion, run>>
      /\ position' = Moved /\ updates' = updates \o <<s, p>>
      /\ since' = (IF motion = "stopped" THEN Undefined ELSE now)
      /\ last_move' = IF motion = "going_up" THEN "up"
                      ELSE IF motion = "going_down" THEN "down" ELSE last_move
  BY DEF BlindStatus, Since, Direction, Updates, blind, state
<1>3. /\ updates' \in Seq(Message) /\ n \in Nat /\ Len(updates') = n + 2
      /\ updates'[n + 1] = s /\ updates'[n + 2] = p
  <2>1. s \in Message /\ p \in Message
    BY <1>1 DEF Message
  <2> HIDE DEF s, p
  <2> QED
    BY <1>1, <1>2, <2>1
<1>4. TypeOK'
  BY <1>1, <1>2, <1>3 DEF TypeOK
<1>5. Agree'
  <2>1. since' # Undefined => last_move' \in {"up", "down"} /\ since' = now
    BY <1>1, <1>2 DEF Motion
  <2>2. updates'[n + 1] = [key |-> "status", value |-> Reported']
    BY <1>1, <1>3
  <2>3. /\ updates'[n + 2].key = "position"
        /\ updates'[n + 2].value = position'
        /\ since' # Undefined => updates'[n + 2].ref = since'
    BY <1>2, <1>3, <2>1
  <2>4. (n + 2) - 1 = n + 1 /\ n + 2 >= 2 /\ n + 2 >= 1
    BY <1>3
  <2> HIDE DEF n
  <2> QED
    BY <1>3, <2>1, <2>2, <2>3, <2>4 DEF Agree, GoesBy
<1>6. Carried'
  BY <1>1, <1>2 DEF Carried
<1> QED
  BY <1>4, <1>5, <1>6 DEF IInv

\* An update that reaches the page keeps it: the last two are now two others,
\* or have come.
LEMMA UpdateInv == ASSUME IInv, Update PROVE IInv'
<1> DEFINE n == Len(updates)
           m == Head(updates)
<1>1. /\ TypeOK /\ Agree /\ Carried /\ updates \in Seq(Message) /\ updates # <<>>
      /\ UNCHANGED <<now, position, since, last_move, real, motion, run>>
      /\ updates' = Tail(updates)
  BY DEF IInv, TypeOK, Update, decoder, blind
<1>2. /\ n \in Nat /\ n >= 1 /\ Len(updates') = n - 1 /\ updates' \in Seq(Message)
      /\ m = updates[1] /\ m \in Message
      /\ \A i \in 1 .. n - 1 : updates'[i] = updates[i + 1]
  BY <1>1
<1>3. \/ m.key = "status" /\ status' = m.value /\ UNCHANGED <<base, ref>>
      \/ m.key = "position" /\ base' = m.value /\ ref' = m.ref /\ UNCHANGED status
  BY <1>2 DEF Update, Message
<1>4. TypeOK'
  <2>1. status' \in Motion /\ base' \in 0 .. Travel /\ ref' \in Nat
    BY <1>1, <1>2, <1>3 DEF Message, TypeOK
  <2> QED
    BY <1>1, <1>2, <2>1 DEF TypeOK
<1>5. Reported' = Reported /\ Moved' = Moved
  BY <1>1 DEF Reported, Moved, Clamped
<1>6. Agree'
  <2>1. /\ IF n >= 2 THEN updates[n - 1] = [key |-> "status", value |-> Reported]
           ELSE status = Reported
        /\ updates[n].key = "position" /\ GoesBy(updates[n].value, updates[n].ref)
        /\ since # Undefined => last_move \in {"up", "down"}
    BY <1>1, <1>2 DEF Agree
  <2> HIDE DEF n, m
  <2>2. CASE n = 1
    <3>1. m.key = "position" /\ status' = Reported /\ GoesBy(m.value, m.ref)
      BY <1>2, <1>3, <2>1, <2>2
    <3>2. GoesBy(base, ref)'
      BY <1>1, <1>3, <3>1 DEF GoesBy
    <3> QED
      BY <1>1, <1>2, <1>5, <2>1, <2>2, <3>1, <3>2 DEF Agree
  <2>3. CASE n = 2
    <3>1. status' = Reported
      BY <1>2, <1>3, <2>1, <2>3
    <3>2. updates'[1] = updates[2]
      BY <1>2, <2>3
    <3> QED
      BY <1>1, <1>2, <1>5, <2>1, <2>3, <3>1, <3>2 DEF Agree, GoesBy
  <2>4. CASE n >= 3
    <3>1. updates'[n - 1] = updates[n] /\ updates'[(n - 1) - 1] = updates[n - 1]
      <4>1. /\ n - 1 \in 1 .. n - 1 /\ (n - 1) - 1 \in 1 .. n - 1
            /\ (n - 1) + 1 = n /\ ((n - 1) - 1) + 1 = n - 1
        BY <1>2, <2>4
      <4> QED
        BY <1>2, <4>1
    <3> QED
      BY <1>1, <1>2, <1>5, <2>1, <2>4, <3>1 DEF Agree, GoesBy
  <2> QED
    BY <1>2, <2>2, <2>3, <2>4
<1>7. Carried'
  BY <1>1, <1>5 DEF Carried
<1> QED
  BY <1>4, <1>6, <1>7 DEF IInv

\* A step that leaves decoder, updates and page alone keeps them in agreement.
LEMMA Untouched ==
    ASSUME Agree, UNCHANGED <<decoder, updates, state>>
    PROVE  Agree' /\ Reported' = Reported
  BY DEF decoder, state, Agree, GoesBy, Reported

\* A change of the motion keeps it: what is reported starts anew.
LEMMA MoveInv == ASSUME IInv, BlindMoves PROVE IInv'
<1>1. /\ UNCHANGED <<now, position, since, last_move, updates, status, base, ref, real>>
      /\ run' = 0 /\ motion' \in Motion
  BY DEF BlindMoves, decoder, state
<1>2. TypeOK'
  BY <1>1 DEF IInv, TypeOK
<1>3. Agree'
  BY Untouched DEF IInv, BlindMoves
<1>4. Carried'
  <2>1. ~(run' > 0)
    BY <1>1
  <2> QED
    BY <2>1 DEF Carried
<1> QED
  BY <1>2, <1>3, <1>4 DEF IInv

\* A tick keeps it: sum and blind are carried one unit further, or stand at
\* the end.
LEMMA TickInv == ASSUME IInv, Tick PROVE IInv'
<1>1. /\ TypeOK /\ Agree /\ Carried /\ Moved \in 0 .. Travel
      /\ now \in Nat /\ real \in 0 .. Travel /\ run \in Nat
  BY SumFacts DEF IInv, TypeOK
<1>2. /\ UNCHANGED <<position, since, last_move, updates, status, base, ref, motion>>
      /\ now' = now + 1
      /\ real' = IF motion = "going_up" /\ real < Travel THEN real + 1
                 ELSE IF motion = "going_down" /\ real > 0 THEN real - 1
                 ELSE real
      /\ run' = IF Reported = motion /\ motion # "stopped" THEN run + 1 ELSE 0
  BY DEF Tick, decoder, state
<1>3. real' \in 0 .. Travel /\ run' \in Nat /\ now' \in Nat
  BY <1>1, <1>2, TravelAssumption
<1>4. TypeOK'
  <2>1. since' \in 0 .. now' \cup {Undefined}
    BY <1>1, <1>2 DEF TypeOK
  <2> QED
    BY <1>1, <1>2, <1>3, <2>1 DEF TypeOK
<1>5. Agree' /\ Reported' = Reported
  BY Untouched DEF IInv, Tick
<1>6. Carried'
  <2>1. CASE run' > 0 /\ motion = "going_up"
    <3>1. Reported = "going_up" /\ run' = run + 1
      BY <1>1, <1>2, <2>1
    <3>2. Moved' = IF Moved < Travel THEN Moved + 1 ELSE Moved
      BY <1>1, <3>1, TickMovesSum
    <3>3. /\ run > 0 => real >= run \/ real = Travel
          /\ run > 0 => Moved >= run \/ Moved = Travel
      BY <1>1, <2>1 DEF Carried
    <3>4. /\ real' >= run' \/ real' = Travel
          /\ Moved' >= run' \/ Moved' = Travel
      BY <1>1, <1>2, <2>1, <3>1, <3>2, <3>3, TravelAssumption
    <3> QED
      BY <1>2, <1>5, <2>1, <3>1, <3>4 DEF Carried
  <2>2. CASE run' > 0 /\ motion = "going_down"
    <3>1. Reported = "going_down" /\ run' = run + 1
      BY <1>1, <1>2, <2>2
    <3>2. Moved' = IF Moved > 0 THEN Moved - 1 ELSE Moved
      BY <1>1, <3>1, TickMovesSum
    <3>3. /\ run > 0 => real <= Travel - run \/ real = 0
          /\ run > 0 => Moved <= Travel - run \/ Moved = 0
      BY <1>1, <2>2 DEF Carried
    <3>4. /\ real' <= Travel - run' \/ real' = 0
          /\ Moved' <= Travel - run' \/ Moved' = 0
      BY <1>1, <1>2, <2>2, <3>1, <3>2, <3>3, TravelAssumption
    <3> QED
      BY <1>2, <1>5, <2>2, <3>1, <3>4 DEF Carried
  <2>3. CASE ~(run' > 0)
    BY <2>3 DEF Carried
  <2> QED
    BY <1>1, <1>2, <2>1, <2>2, <2>3 DEF TypeOK, Motion
<1> QED
  BY <1>4, <1>5, <1>6 DEF IInv

LEMMA BlindStep ==
    ASSUME IInv, [Next]_vars
    PROVE  IInv'
<1>1. CASE UNCHANGED vars
  BY <1>1 DEF IInv, TypeOK, Agree, GoesBy, Reported, Carried, Moved, Clamped, vars
<1> QED
  BY <1>1, ReportInv, UpdateInv, MoveInv, TickInv DEF Next

\* The inductive invariant of BlindPosition holds in every state.
THEOREM Invariant == Spec => []IInv
  BY BlindStep, InitInv, PTL DEF Spec

\* The types of decoder, page and blind: positions never leave their range
\* (Math.min and Math.max of blindStatus.js 62).
THEOREM TypeCorrect == Spec => []TypeOK
<1>1. IInv => TypeOK
  BY DEF IInv
<1> QED
  BY <1>1, Invariant, PTL

LEMMA BlindSame == IInv => SameEstimate
<1> SUFFICES ASSUME IInv, updates = <<>> PROVE Shown = Moved
  BY DEF SameEstimate
<1>1. Agree /\ Len(updates) = 0
  BY DEF IInv
<1>2. /\ status = Reported /\ base = position
      /\ since # Undefined => ref = since /\ last_move \in {"up", "down"}
  BY <1>1 DEF Agree, GoesBy
<1>3. CASE since = Undefined
  BY <1>2, <1>3 DEF Reported, Shown, Moved
<1>4. CASE since # Undefined
  BY <1>2, <1>4 DEF Reported, Shown, Moved
<1> QED
  BY <1>3, <1>4

\* A page that has got all updates shows what the decoder adds up, at every
\* moment and for every travel time.
THEOREM SameAlways == Spec => []SameEstimate
  BY BlindSame, Invariant, PTL

LEMMA BlindExact == IInv => ExactAtEnd
<1> SUFFICES ASSUME IInv, run >= Travel, updates = <<>> PROVE Shown = real
  BY DEF ExactAtEnd
<1>1. /\ Shown = Moved /\ Moved \in 0 .. Travel /\ real \in 0 .. Travel
      /\ run \in Nat /\ run > 0
  <2>1. Moved \in 0 .. Travel /\ real \in 0 .. Travel /\ run \in Nat
    BY SumFacts DEF IInv, TypeOK
  <2> QED
    BY <2>1, BlindSame, TravelAssumption DEF SameEstimate
<1>2. motion \in {"going_up", "going_down"}
  BY <1>1 DEF IInv, TypeOK, Carried, Motion
<1>3. CASE motion = "going_up"
  BY <1>1, <1>3, TravelAssumption DEF IInv, Carried
<1>4. CASE motion = "going_down"
  BY <1>1, <1>4, TravelAssumption DEF IInv, Carried
<1> QED
  BY <1>2, <1>3, <1>4

\* After one full run whose start was reported a page that has got all updates
\* is exact, for every travel time and whatever was late or lost before.
THEOREM Exact == Spec => []ExactAtEnd
  BY BlindExact, Invariant, PTL

\* No report makes the decoder's sum jump; so the percentage of a page that has
\* got both updates is the one it showed before the first.
THEOREM Continuous == Spec => NoJump
<1>1. IInv /\ [Next]_vars => [now' = now => Moved' = Moved]_vars
  <2> SUFFICES ASSUME IInv, Next, now' = now PROVE Moved' = Moved
    OBVIOUS
  <2>1. CASE BlindStatus
    BY <2>1, ReportKeepsSum DEF IInv
  <2>2. CASE Update
    BY <2>2 DEF Update, decoder, Moved, Clamped
  <2>3. CASE BlindMoves
    BY <2>3 DEF BlindMoves, decoder, Moved, Clamped
  <2>4. CASE Tick
    BY <2>4 DEF Tick, IInv, TypeOK
  <2> QED
    BY <2>1, <2>2, <2>3, <2>4 DEF Next
<1> QED
  BY <1>1, Invariant, PTL DEF Spec, NoJump

\* While the last report is true, the error of the sum does not grow.
THEOREM Improving == Spec => NeverWorse
<1>1. IInv /\ [Next]_vars => [Reported = motion => Error' <= Error]_vars
  <2> SUFFICES ASSUME IInv, Next, Reported = motion PROVE Error' <= Error
    OBVIOUS
  <2>1. Moved \in 0 .. Travel /\ real \in 0 .. Travel
    BY SumFacts DEF IInv, TypeOK
  <2>2. CASE BlindStatus
    <3>1. Moved' = Moved /\ real' = real
      BY <2>2, ReportKeepsSum DEF IInv, BlindStatus, blind
    <3> QED
      BY <2>1, <3>1, TravelAssumption DEF Error
  <2>3. CASE Update \/ BlindMoves
    <3>1. Moved' = Moved /\ real' = real
      BY <2>3 DEF Update, BlindMoves, decoder, blind, Moved, Clamped
    <3> QED
      BY <2>1, <3>1, TravelAssumption DEF Error
  <2>4. CASE Tick
    <3>1. \/ motion = "stopped" /\ Moved' = Moved /\ real' = real
          \/ /\ motion = "going_up"
             /\ Moved' = IF Moved < Travel THEN Moved + 1 ELSE Moved
             /\ real' = IF real < Travel THEN real + 1 ELSE real
          \/ /\ motion = "going_down"
             /\ Moved' = IF Moved > 0 THEN Moved - 1 ELSE Moved
             /\ real' = IF real > 0 THEN real - 1 ELSE real
      BY <2>4, TickMovesSum DEF Tick, IInv, TypeOK, Motion
    <3> QED
      BY <2>1, <3>1, TravelAssumption DEF Error
  <2> QED
    BY <2>2, <2>3, <2>4 DEF Next
<1> QED
  BY <1>1, Invariant, PTL DEF Spec, NeverWorse
-----------------------------------------------------------------------------
(***************************************************************************)
(* The timers.  The fields agree, and the button means what they say, for  *)
(* every set of durations, moments and times of day that a user may type,  *)
(* and however long the popover stays open.                                *)
(***************************************************************************)
\* What the interval has last written into the field that follows.
Follower ==
    /\ interval.leader = "for" =>
          /\ for = Time(interval.at)
          /\ until = pretty_print_datetime(interval.written + interval.at)
    /\ interval.leader = "until" =>
          /\ for = pretty_print_duration(interval.at - interval.written)
          /\ until = Time(interval.at) \/ until.form = "daytime"

\* The interval has not missed its time.
OnTime ==
    interval.leader # "none" => clock \in interval.written .. interval.written + Period

\* Where no field leads, one is red or the duration is empty.
Idle ==
    interval.leader = "none" =>
        for = Blank \/ for_mark = "invalid" \/ until_mark = "invalid"

\* The inductive invariant.
DurationInv == DurationTypeOK /\ OneLeader /\ Follower /\ OnTime /\ Idle
-----------------------------------------------------------------------------
(* Lemmas about reading and writing a field.                               *)

\* A time of day stands for a moment of the clock.
LEMMA NextTimeType ==
    ASSUME NEW t \in Nat, clock \in Nat
    PROVE  NextTime(t) \in Nat
<1> DEFINE q == clock \div Day
<1>1. Day \in Nat /\ Day > 0 BY DayAssumption
<1>2. q \in Nat BY <1>1
<1>3. q * Day \in Nat BY <1>1, <1>2
<1> HIDE DEF q
<1>4. q * Day + t \in Nat BY <1>3
<1> QED BY <1>1, <1>4 DEF NextTime, q

\* What a parser makes of a text is a number or NoTime.
LEMMA Parsed ==
    ASSUME NEW text \in Text, clock \in Nat
    PROVE  /\ parse_duration(text) \in Nat \cup {NoTime}
           /\ parse_datetime(text) \in Nat \cup {NoTime}
           /\ parse_duration(text) # NoTime => text = Time(parse_duration(text))
           /\ parse_datetime(text) # NoTime =>
                 text = Time(parse_datetime(text)) \/ text.form = "daytime"
           /\ text.form = "time" =>
                 parse_duration(text) = text.value /\ parse_duration(text) # NoTime
<1>1. text.value \in Nat BY DEF Text
<1>2. NextTime(text.value) \in Nat BY <1>1, NextTimeType
<1>3. text = [form |-> text.form, value |-> text.value] BY DEF Text
<1> QED
  BY <1>1, <1>2, <1>3, TimesAssumption DEF parse_duration, parse_datetime, Time

\* What is printed is a text.
LEMMA Printed ==
    /\ \A d \in Int : /\ pretty_print_duration(d) \in Text
                      /\ pretty_print_duration(d).form \in {"time", "past"}
                      /\ pretty_print_duration(d).form = "time" =>
                            d >= 0 /\ pretty_print_duration(d).value = d
    /\ \A t \in Nat : /\ pretty_print_datetime(t) \in Text
                      /\ pretty_print_datetime(t).form \in {"time", "short"}
                      /\ pretty_print_datetime(t).value = t
  BY DEF pretty_print_duration, pretty_print_datetime, Text, Time

\* A delay is a number, and is kept when the bytes can say it.
LEMMA RelayDelayType == \A d \in Nat : RelayDelay(d) \in Nat
  BY SMT DEF RelayDelay

LEMMA TempDelayType == \A d \in Nat : TempDelay(d) \in Nat
  BY SMT DEF TempDelay

LEMMA RelayDelayFits ==
    ASSUME NEW d \in Nat, control = "relay", Fits(d)
    PROVE  RelayDelay(d) = d
  BY SMT DEF RelayDelay, Fits

LEMMA TempDelayFits ==
    ASSUME NEW d \in Nat, control = "temp", Fits(d)
    PROVE  /\ TempDelay(d) \in Nat /\ TempDelay(d) \notin {0, 65280, 65535}
           /\ 60 * TempDelay(d) \in d - 59 .. d
  BY SMT DEF TempDelay, Fits

\* Other minutes stand for themselves.
LEMMA TempEndAfter ==
    ASSUME NEW n \in Nat, n \notin {0, 65280, 65535}
    PROVE  TempEnd(n) = clock + 60 * n
  BY SMT DEF TempEnd

LEMMA Constants ==
    /\ \A t \in Nat : Time(t) \in Text /\ Time(t).form = "time" /\ Time(t).value = t
    /\ \A t \in Nat : Time(t) # Blank
    /\ Blank \in Text /\ Blank.form = "empty"
    /\ Junk \in Text /\ Junk.form = "junk" /\ Junk # Blank
  BY DEF Time, Blank, Junk, Text
-----------------------------------------------------------------------------
(* The steps.                                                              *)

\* A key in "for", or the focus.
LEMMA ForKeeps ==
    ASSUME DurationInv, NEW text \in Text, text.form \notin {"daytime", "short"},
           KeyupFor(text), UNCHANGED <<control, clock, active, ends>>
    PROVE  DurationInv'
<1> USE DEF DurationInv, DurationTypeOK
<1> DEFINE d == parse_duration(text)
<1>1. CASE d # NoTime
  <2>1. d \in Nat /\ text = Time(d) BY <1>1, Parsed
  <2> HIDE DEF d
  <2>2. /\ interval' = [leader |-> "for", at |-> d, written |-> clock]
        /\ for' = text /\ until' = pretty_print_datetime(clock + d)
        /\ for_mark' = "valid" /\ until_mark' = "none"
    BY <1>1 DEF KeyupFor, d
  <2>3. clock + d \in Nat BY <2>1
  <2>4. DurationTypeOK' BY <2>1, <2>2, <2>3, Printed DEF Mark
  <2>5. OneLeader' /\ Idle' BY <2>2 DEF OneLeader, Idle
  <2>6. Follower' /\ OnTime'
    BY <2>1, <2>2, StepAssumption DEF Follower, OnTime, pretty_print_datetime
  <2> QED BY <2>4, <2>5, <2>6
<1>2. CASE d = NoTime /\ text = Blank
  <2>1. /\ interval' = Stopped /\ for' = Blank /\ until' = Blank
        /\ for_mark' = "none" /\ UNCHANGED until_mark
    BY <1>2 DEF KeyupFor
  <2>2. DurationTypeOK' BY <2>1, Constants DEF Mark, Stopped
  <2>3. OneLeader' /\ Follower' /\ OnTime' /\ Idle'
    BY <2>1 DEF OneLeader, Follower, OnTime, Idle, Stopped
  <2> QED BY <2>2, <2>3
<1>3. CASE d = NoTime /\ text # Blank
  <2>1. /\ interval' = Stopped /\ for' = text /\ UNCHANGED until
        /\ for_mark' = "invalid" /\ UNCHANGED until_mark
    BY <1>3 DEF KeyupFor, InvalidFor
  <2>2. DurationTypeOK' BY <2>1 DEF Mark, Stopped
  <2>3. OneLeader' /\ Follower' /\ OnTime' /\ Idle'
    BY <2>1 DEF OneLeader, Follower, OnTime, Idle, Stopped
  <2> QED BY <2>2, <2>3
<1> QED BY <1>1, <1>2, <1>3

\* A key in "until", or the focus.
LEMMA UntilKeeps ==
    ASSUME DurationInv, NEW text \in Text, text.form # "past",
           KeyupUntil(text), UNCHANGED <<control, clock, active, ends>>
    PROVE  DurationInv'
<1> USE DEF DurationInv, DurationTypeOK
<1> DEFINE m == parse_datetime(text)
<1>1. CASE m # NoTime
  <2>1. m \in Nat /\ (text = Time(m) \/ text.form = "daytime")
    BY <1>1, Parsed
  <2> HIDE DEF m
  <2>2. /\ interval' = [leader |-> "until", at |-> m, written |-> clock]
        /\ until' = text /\ for' = pretty_print_duration(m - clock)
        /\ until_mark' = "valid" /\ for_mark' = "none"
    BY <1>1 DEF KeyupUntil, m
  <2>3. m - clock \in Int BY <2>1
  <2>4. DurationTypeOK' BY <2>1, <2>2, <2>3, Printed DEF Mark
  <2>5. OneLeader' /\ Idle' BY <2>2 DEF OneLeader, Idle
  <2>6. Follower' /\ OnTime'
    BY <2>1, <2>2, StepAssumption DEF Follower, OnTime, pretty_print_duration
  <2> QED BY <2>4, <2>5, <2>6
<1>2. CASE m = NoTime /\ text = Blank
  <2>1. /\ interval' = Stopped /\ for' = Blank /\ until' = Blank
        /\ until_mark' = "none" /\ UNCHANGED for_mark
    BY <1>2 DEF KeyupUntil
  <2>2. DurationTypeOK' BY <2>1, Constants DEF Mark, Stopped
  <2>3. OneLeader' /\ Follower' /\ OnTime' /\ Idle'
    BY <2>1 DEF OneLeader, Follower, OnTime, Idle, Stopped
  <2> QED BY <2>2, <2>3
<1>3. CASE m = NoTime /\ text # Blank
  <2>1. /\ interval' = Stopped /\ until' = text /\ UNCHANGED for
        /\ until_mark' = "invalid" /\ UNCHANGED for_mark
    BY <1>3 DEF KeyupUntil
  <2>2. DurationTypeOK' BY <2>1 DEF Mark, Stopped
  <2>3. OneLeader' /\ Follower' /\ OnTime' /\ Idle'
    BY <2>1 DEF OneLeader, Follower, OnTime, Idle, Stopped
  <2> QED BY <2>2, <2>3
<1> QED BY <1>1, <1>2, <1>3

\* The module's timer, after a click.
LEMMA ClickKeeps ==
    ASSUME DurationInv, Click
    PROVE  DurationInv'
<1> USE DEF DurationInv, DurationTypeOK
<1> DEFINE d == parse_duration(for)
<1>1. UNCHANGED <<control, clock, fields>> BY DEF Click
<1>2. UNCHANGED <<for, until, for_mark, until_mark, interval>> BY <1>1 DEF fields
<1>3. d \in Nat \cup {NoTime} BY Parsed
<1>4. active' \in BOOLEAN BY DEF Click, ClickRelay, ClickTemp
<1>5. ends' \in Nat \cup {NoTime, NextStep}
  <2>1. CASE ClickRelay
    <3>1. d # NoTime => clock + RelayDelay(d) \in Nat
      <4> HIDE DEF d
      <4> SUFFICES ASSUME d \in Nat PROVE clock + RelayDelay(d) \in Nat BY <1>3
      <4> QED BY RelayDelayType
    <3> HIDE DEF d
    <3> QED BY <2>1, <3>1 DEF ClickRelay, d
  <2>2. CASE ClickTemp
    <3>1. d # NoTime => TempDelay(d) \in Nat BY <1>3, TempDelayType
    <3>2. ends' = TempEnd(IF d = NoTime THEN 0 ELSE TempDelay(d))
      BY <2>2 DEF ClickTemp
    <3> HIDE DEF d
    <3>3. \A n \in Nat : TempEnd(n) \in Nat \cup {NoTime, NextStep} BY DEF TempEnd
    <3> QED BY <3>1, <3>2, <3>3
  <2> QED BY <2>1, <2>2 DEF Click
<1>6. DurationTypeOK' BY <1>1, <1>2, <1>4, <1>5
<1>7. OneLeader' /\ Idle' BY <1>2 DEF OneLeader, Idle
<1>8. Follower' /\ OnTime'
  BY <1>1, <1>2 DEF Follower, OnTime, pretty_print_duration, pretty_print_datetime
<1> QED BY <1>6, <1>7, <1>8

\* The interval writes the field that follows.
LEMMA FireKeeps ==
    ASSUME DurationInv, IntervalFires
    PROVE  DurationInv'
<1> USE DEF DurationInv, DurationTypeOK
<1>1. /\ UNCHANGED <<control, clock, for_mark, until_mark, active, ends>>
      /\ interval' = [interval EXCEPT !.written = clock]
      /\ Follows(interval)
  BY DEF IntervalFires
<1>2. interval.at - clock \in Int /\ clock + interval.at \in Nat OBVIOUS
<1>3. /\ interval'.leader = interval.leader /\ interval'.at = interval.at
      /\ interval'.written = clock /\ clock \in Nat
      /\ interval' \in [leader : {"none", "for", "until"}, at : Nat, written : Nat]
  BY <1>1
<1>4. DurationTypeOK'
  <2>1. for' \in Text /\ for'.form \notin {"daytime", "short"}
    BY <1>1, <1>2, Printed DEF Follows
  <2>2. until' \in Text /\ until'.form # "past"
    BY <1>1, <1>2, Printed DEF Follows
  <2> QED BY <1>1, <1>3, <2>1, <2>2
<1>5. OneLeader' BY <1>1, <1>3 DEF OneLeader
<1>6. Idle' BY <1>1, <1>3 DEF Idle, Follows
<1>7. Follower'
  BY <1>1, <1>3 DEF Follower, Follows, pretty_print_duration, pretty_print_datetime
<1>8. OnTime' BY <1>1, <1>3, StepAssumption DEF OnTime
<1> QED BY <1>4, <1>5, <1>6, <1>7, <1>8

\* Time passes, and the fields stay.
LEMMA TimeKeeps ==
    ASSUME DurationInv, TimePasses
    PROVE  DurationInv'
<1> USE DEF DurationInv, DurationTypeOK
<1>1. clock' = clock + Step /\ clock' \in Nat BY StepAssumption DEF TimePasses
<1>2. UNCHANGED <<control, for, until, for_mark, until_mark, interval>>
  BY DEF TimePasses, fields
<1>3. active' \in BOOLEAN /\ ends' \in Nat \cup {NoTime, NextStep}
  BY DEF TimePasses
<1>4. DurationTypeOK' BY <1>1, <1>2, <1>3
<1>5. OneLeader' /\ Idle' BY <1>2 DEF OneLeader, Idle
<1>6. Follower'
  BY <1>2 DEF Follower, pretty_print_duration, pretty_print_datetime
<1>7. OnTime' BY <1>1, <1>2, StepAssumption DEF OnTime, TimePasses
<1> QED BY <1>4, <1>5, <1>6, <1>7
-----------------------------------------------------------------------------
LEMMA InvInit == DurationInit => DurationInv
  BY Constants DEF DurationInit, DurationInv, DurationTypeOK, OneLeader, Follower,
                   OnTime, Idle, Stopped, Mark

LEMMA InvNext == DurationInv /\ [DurationNext]_duration_vars => DurationInv'
<1> SUFFICES ASSUME DurationInv, [DurationNext]_duration_vars PROVE DurationInv'
  OBVIOUS
<1>1. CASE TypeFor
  <2>1. PICK text \in {Blank, Junk} \cup {Time(d) : d \in Durations} : KeyupFor(text)
    BY <1>1 DEF TypeFor
  <2>2. text \in Text /\ text.form \notin {"daytime", "short"}
    BY TypedAssumption, Constants
  <2> QED BY <1>1, <2>1, <2>2, ForKeeps DEF TypeFor
<1>2. CASE TypeUntil
  <2>1. PICK text \in {Blank, Junk} \cup {Time(t) : t \in Moments}
                        \cup {[form |-> "daytime", value |-> c] : c \in Clocks} :
           KeyupUntil(text)
    BY <1>2 DEF TypeUntil
  <2>2. \A c \in Clocks : c \in Nat BY TypedAssumption, DayAssumption
  <2>3. text \in Text /\ text.form # "past"
    BY <2>2, TypedAssumption, Constants DEF Text
  <2> QED BY <1>2, <2>1, <2>3, UntilKeeps DEF TypeUntil
<1>3. CASE Focus
  <2>1. for \in Text /\ until \in Text /\ until.form # "past"
        /\ for.form \notin {"daytime", "short"}
    BY DEF DurationInv, DurationTypeOK
  <2> QED BY <1>3, <2>1, ForKeeps, UntilKeeps DEF Focus
<1>4. CASE Reopen
  BY <1>4, Constants DEF Reopen, DurationInv, DurationTypeOK, OneLeader, Follower,
                         OnTime, Idle, Stopped, Mark
<1>5. CASE Click BY <1>5, ClickKeeps
<1>6. CASE IntervalFires BY <1>6, FireKeeps
<1>7. CASE TimePasses BY <1>7, TimeKeeps
<1>8. CASE UNCHANGED duration_vars
  BY <1>8 DEF duration_vars, DurationInv, DurationTypeOK, OneLeader, Follower, OnTime,
              Idle, pretty_print_duration, pretty_print_datetime
<1> QED BY <1>1, <1>2, <1>3, <1>4, <1>5, <1>6, <1>7, <1>8 DEF DurationNext

LEMMA Inductive == DurationSpec => []DurationInv
  BY InvInit, InvNext, PTL DEF DurationSpec

\* What a popover's timer holds is a text, a mark, a time
\* (common.js 67-284).
THEOREM DurationTypeCorrect == DurationSpec => []DurationTypeOK
  BY Inductive, PTL DEF DurationInv

\* One field leads at most, and shows it (common.js 235-282).
THEOREM OneFieldLeads == DurationSpec => []OneLeader
  BY Inductive, PTL DEF DurationInv

LEMMA InvAgrees == DurationInv => FieldsAgree
<1> SUFFICES ASSUME DurationInv, Understood
             PROVE  clock + for.value \in Until .. Until + Period
  BY DEF FieldsAgree
<1> DEFINE w == interval.written
<1> USE DEF DurationInv, DurationTypeOK
<1>1. for.form = "time" /\ for_mark # "invalid" /\ until_mark # "invalid"
  BY DEF Understood
<1>2. /\ interval.leader \in {"for", "until"}
      /\ interval.at \in Nat /\ clock \in Nat /\ w \in Nat
      /\ clock \in w .. w + Period
  BY <1>1, Constants DEF Idle, OnTime
<1>3. CASE interval.leader = "for"
  <2>1. for.value = interval.at BY <1>3, Constants DEF Follower
  <2>2. w + interval.at \in Nat BY <1>2
  <2>3. until.value = w + interval.at /\ until.form # "daytime"
    BY <1>3, <2>2, Printed DEF Follower
  <2>4. Until = w + interval.at BY <2>3 DEF Until
  <2> HIDE DEF DurationInv, DurationTypeOK, w
  <2> QED BY <1>2, <2>1, <2>4, StepAssumption
<1>4. CASE interval.leader = "until"
  <2>1. for = pretty_print_duration(interval.at - w)
    BY <1>4 DEF Follower
  <2>2. interval.at - w \in Int BY <1>2
  <2>3. for.value = interval.at - w BY <1>1, <2>1, <2>2, Printed
  <2>4. until = Time(interval.at) \/ until.form = "daytime"
    BY <1>4 DEF Follower
  <2>5. Until = interval.at BY <1>2, <2>4, Constants DEF Until
  <2> HIDE DEF DurationInv, DurationTypeOK, w
  <2> QED BY <1>2, <2>3, <2>5, StepAssumption
<1> QED BY <1>2, <1>3, <1>4

\* While the page shows that it has understood the fields, they agree
\* (common.js 235-282).
THEOREM FieldsAlwaysAgree == DurationSpec => []FieldsAgree
  BY Inductive, InvAgrees, PTL

LEMMA MeantStep ==
    ASSUME DurationInv, Click, Understood, Fits(for.value)
    PROVE  /\ active'
           /\ ends' \in (IF control = "relay" THEN Until ELSE Until - 59)
                            .. Until + Period
<1> DEFINE d == for.value
<1> USE DEF DurationInv, DurationTypeOK
<1>1. for.form = "time" /\ d \in Nat /\ d > 0 BY DEF Understood, Text
<1>2. parse_duration(for) = d /\ d # NoTime BY <1>1, Parsed
<1>3. for # Blank BY <1>1, Constants
<1>4. /\ clock + d \in Until .. Until + Period
      /\ Until \in Nat /\ clock \in Nat /\ Period \in Nat
  BY InvAgrees, StepAssumption DEF FieldsAgree, Until, Text
<1>5. CASE control = "relay" /\ ClickRelay
  <2>2. RelayDelay(d) = d /\ d # 0 BY <1>1, <1>5, RelayDelayFits
  <2>3. active' BY <1>3, <1>5 DEF ClickRelay
  <2>4. ends' = clock + d BY <1>2, <1>5, <2>2, <2>3 DEF ClickRelay
  <2> QED BY <1>4, <1>5, <2>3, <2>4
<1>6. CASE control = "temp" /\ ClickTemp
  <2>2. /\ TempDelay(d) \in Nat /\ TempDelay(d) \notin {0, 65280, 65535}
        /\ 60 * TempDelay(d) \in d - 59 .. d
    BY <1>1, <1>6, TempDelayFits
  <2>3. ends' = clock + 60 * TempDelay(d) /\ active'
    <3>1. ends' = TempEnd(TempDelay(d)) /\ active' BY <1>2, <1>6 DEF ClickTemp
    <3> HIDE DEF d
    <3>2. TempEnd(TempDelay(d)) = clock + 60 * TempDelay(d) BY <2>2, TempEndAfter
    <3> QED BY <3>1, <3>2
  <2> HIDE DEF d, DurationInv, DurationTypeOK
  <2> QED BY <1>1, <1>4, <1>6, <2>2, <2>3
<1> QED BY <1>5, <1>6 DEF Click

\* The button switches until the moment that the page shows (relay.js 43-55,
\* temp.js 48-72).
THEOREM ButtonMeansIt == DurationSpec => ClickIsMeant
<1>1. DurationInv /\ [DurationNext]_duration_vars =>
         [Click /\ Understood /\ Fits(for.value) =>
             /\ active'
             /\ ends' \in (IF control = "relay" THEN Until ELSE Until - 59)
                              .. Until + Period]_duration_vars
  BY MeantStep
<1> QED BY <1>1, Inductive, PTL DEF DurationSpec, ClickIsMeant
-----------------------------------------------------------------------------
(***************************************************************************)
(* The slider of a dimmer.  At rest it stands where the lamp is, and       *)
(* nothing is posted but what the user did, for any values, any number of  *)
(* slides and of buttons pressed, and whatever order posts arrive in.      *)
(***************************************************************************)

\* A question is always the last of what is on its way to the module: so what
\* the page hears last is what the module did last; and only a change that is
\* still on its way, in one direction or the other, can set the slider apart
\* from what the page knows.
Queued ==
    /\ commands # <<>> => commands[Len(commands)] = Question
    /\ commands = <<>> =>
          IF statuses = <<>> THEN dimvalue = level
          ELSE statuses[Len(statuses)] = level
    /\ ~sliding =>
          slider = dimvalue \/ posts # <<>> \/ commands # <<>> \/ statuses # <<>>
    /\ made + (IF sliding THEN 1 ELSE 0) <= slides

SliderInv == SliderTypeOK /\ Queued

\* A post that is taken out of the middle leaves posts.
LEMMA TakenOut ==
    ASSUME NEW S, NEW q \in Seq(S), NEW i \in 1 .. Len(q)
    PROVE  RemoveAt(q, i) \in Seq(S)
<1>1. /\ i \in Nat /\ Len(q) \in Nat /\ 1 <= i /\ i <= Len(q)
      /\ \A j \in 1 .. Len(q) : q[j] \in S
  BY LenProperties, ElementOfSeq
<1>2. SubSeq(q, 1, i - 1) \in Seq(S) /\ SubSeq(q, i + 1, Len(q)) \in Seq(S)
  BY <1>1, SubSeqProperties
<1> QED
  BY <1>2, ConcatProperties DEF RemoveAt

\* What is last stays last when the first of several goes.
LEMMA LastStays ==
    ASSUME NEW S, NEW q \in Seq(S), q # <<>>
    PROVE  /\ Head(q) \in S /\ Tail(q) \in Seq(S) /\ Head(q) = q[1]
           /\ Tail(q) = <<>> <=> Len(q) = 1
           /\ Tail(q) # <<>> => Tail(q)[Len(Tail(q))] = q[Len(q)]
<1> DEFINE t == Tail(q)
<1>1. /\ Head(q) \in S /\ Head(q) = q[1]
      /\ t \in Seq(S) /\ Len(t) = Len(q) - 1 /\ Len(q) \in Nat
      /\ \A i \in 1 .. Len(t) : t[i] = q[i + 1]
  <2>1. Head(q) \in S /\ t \in Seq(S) /\ Len(t) = Len(q) - 1
    BY HeadTailProperties
  <2>2. /\ Len(q) \in Nat /\ Head(q) = q[1]
        /\ \A i \in 1 .. Len(t) : t[i] = q[i + 1]
    BY LenProperties
  <2> QED
    BY <2>1, <2>2
<1> HIDE DEF t
<1>2. t = <<>> <=> Len(t) = 0
  BY <1>1, EmptySeq
<1>3. ASSUME t # <<>>
      PROVE  t[Len(t)] = q[Len(q)]
  <2>1. Len(t) \in 1 .. Len(t) /\ Len(t) + 1 = Len(q)
    BY <1>1, <1>2, <1>3, LenProperties
  <2> QED
    BY <1>1, <2>1
<1>4. t = <<>> <=> Len(q) = 1
  BY <1>1, <1>2
<1> QED
  BY <1>1, <1>3, <1>4 DEF t

LEMMA LastAppended ==
    ASSUME NEW S, NEW q \in Seq(S), NEW e \in S
    PROVE  /\ Append(q, e) \in Seq(S) /\ Append(q, e) # <<>>
           /\ Append(q, e)[Len(Append(q, e))] = e
  OBVIOUS

LEMMA CommandsType ==
    /\ Question \in [value : Level \cup {Unknown}]
    /\ \A v \in Level : [value |-> v] \in [value : Level \cup {Unknown}]
    /\ \A c \in [value : Level \cup {Unknown}] : c # Question => c.value \in Level
BY DEF Question

LEMMA SliderStart ==
    ASSUME SliderInit
    PROVE  SliderInv
<1>1. /\ commands = <<Question>> /\ <<Question>> # <<>>
      /\ Len(<<Question>>) = 1 /\ <<Question>>[1] = Question
  BY DEF SliderInit
<1>2. commands \in Seq([value : Level \cup {Unknown}])
  BY <1>1, CommandsType
<1>3. SliderTypeOK
  <2>1. <<>> \in Seq(Level)
    BY EmptySeq
  <2> QED
    BY <1>2, <2>1, LevelAssumption DEF SliderInit, SliderTypeOK
<1>4. Queued
  BY <1>1 DEF SliderInit, Queued
<1> QED
  BY <1>3, <1>4 DEF SliderInv

LEMMA SliderStep ==
    ASSUME SliderInv, [SliderNext]_slider_vars
    PROVE  SliderInv'
<1> USE DEF SliderInv, SliderTypeOK, Queued
<1>1. CASE UNCHANGED slider_vars
  BY <1>1 DEF slider_vars
<1>2. ASSUME NEW v \in Level, Slide(v)
      PROVE  SliderInv'
  <2>1. /\ sliding' = TRUE /\ slider' = v
        /\ slides' = IF sliding THEN slides ELSE slides + 1
        /\ UNCHANGED <<dimvalue, posts, commands, level, statuses, made, changes>>
    BY <1>2 DEF Slide, module
  <2>2. slides' \in Nat /\ made' + (IF sliding' THEN 1 ELSE 0) <= slides'
    <3>1. CASE sliding
      BY <2>1, <3>1
    <3>2. CASE ~sliding
      BY <2>1, <3>2
    <3> QED
      BY <3>1, <3>2
  <2> QED
    BY <2>1, <2>2
<1>3. CASE Release
  <2>1. CASE slider = dimvalue
    <3>1. /\ sliding' = FALSE /\ sliding
          /\ UNCHANGED <<posts, made, dimvalue, slider, commands, level, statuses, slides,
                         changes>>
      BY <1>3, <2>1 DEF Release, change, module, counters
    <3>2. made' + (IF sliding' THEN 1 ELSE 0) <= slides'
      BY <3>1
    <3> QED
      BY <2>1, <3>1, <3>2
  <2>2. CASE slider # dimvalue
    <3>1. /\ posts' = Append(posts, slider) /\ made' = made + 1 /\ sliding' = FALSE
          /\ sliding
          /\ UNCHANGED <<dimvalue, slider, commands, level, statuses, slides, changes>>
      BY <1>3, <2>2 DEF Release, change, module, counters
    <3>2. posts' \in Seq(Level) /\ posts' # <<>>
      BY <3>1, LastAppended
    <3>3. made' \in Nat /\ made' + (IF sliding' THEN 1 ELSE 0) <= slides'
      BY <3>1
    <3>4. SliderTypeOK'
      BY <3>1, <3>2, <3>3
    <3>5. /\ commands' # <<>> => commands'[Len(commands')] = Question
          /\ commands' = <<>> =>
                IF statuses' = <<>> THEN dimvalue' = level'
                ELSE statuses'[Len(statuses')] = level'
      BY <3>1
    <3> QED
      BY <3>2, <3>3, <3>4, <3>5
  <2> QED
    BY <2>1, <2>2
<1>4. CASE update
  <2>1. /\ statuses # <<>> /\ statuses' = Tail(statuses)
        /\ dimvalue' = Head(statuses) /\ slider' = Head(statuses)
        /\ UNCHANGED <<posts, made, sliding, commands, level, slides, changes>>
    BY <1>4 DEF update, Written, change, module, counters
  <2>2. /\ Head(statuses) \in Level /\ Tail(statuses) \in Seq(Level)
        /\ Head(statuses) = statuses[1]
        /\ Tail(statuses) = <<>> <=> Len(statuses) = 1
        /\ Tail(statuses) # <<>> =>
              Tail(statuses)[Len(Tail(statuses))] = statuses[Len(statuses)]
    BY <2>1, LastStays
  <2>3. ASSUME commands' = <<>>
        PROVE  IF statuses' = <<>> THEN dimvalue' = level'
               ELSE statuses'[Len(statuses')] = level'
    BY <2>1, <2>2, <2>3
  <2> QED
    BY <2>1, <2>2, <2>3
<1>5. CASE Module
  <2>1. /\ commands # <<>> /\ commands' = Tail(commands)
        /\ UNCHANGED <<dimvalue, slider, sliding, posts, made, slides, changes>>
    BY <1>5 DEF Module, counters
  <2>2. /\ Head(commands) \in [value : Level \cup {Unknown}]
        /\ Tail(commands) \in Seq([value : Level \cup {Unknown}])
        /\ Head(commands) = commands[1]
        /\ Tail(commands) = <<>> <=> Len(commands) = 1
        /\ Tail(commands) # <<>> =>
              Tail(commands)[Len(Tail(commands))] = commands[Len(commands)]
    BY <2>1, LastStays
  <2>3. CASE Head(commands) = Question
    <3>1. statuses' = Append(statuses, level) /\ UNCHANGED level
      BY <1>5, <2>3 DEF Module
    <3>2. statuses' \in Seq(Level) /\ statuses' # <<>> /\ statuses'[Len(statuses')] = level
      BY <3>1, LastAppended
    <3> QED
      BY <2>1, <2>2, <3>1, <3>2
  <2>4. CASE Head(commands) # Question
    <3>1. level' = Head(commands).value /\ UNCHANGED statuses
      BY <1>5, <2>4 DEF Module
    <3>2. level' \in Level
      BY <2>2, <2>4, <3>1, CommandsType
    <3>3. commands' # <<>>
      BY <2>1, <2>2, <2>4
    <3> QED
      BY <2>1, <2>2, <3>1, <3>2, <3>3
  <2> QED
    BY <2>3, <2>4
<1>6. ASSUME NEW v \in Level, Button(v)
      PROVE  SliderInv'
  <2>1. /\ level' = v /\ statuses' = Append(statuses, v) /\ changes' = changes + 1
        /\ UNCHANGED <<dimvalue, slider, sliding, posts, commands, slides, made>>
    BY <1>6 DEF Button
  <2>2. statuses' \in Seq(Level) /\ statuses' # <<>> /\ statuses'[Len(statuses')] = v
    BY <2>1, LastAppended
  <2> QED
    BY <2>1, <2>2
<1>7. ASSUME NEW i \in 1 .. Len(posts), Post(i)
      PROVE  SliderInv'
  <2> DEFINE both == Asked(posts[i])
  <2>1. /\ posts' = RemoveAt(posts, i) /\ commands' = commands \o both
        /\ UNCHANGED <<dimvalue, slider, sliding, level, statuses, made, slides, changes>>
    BY <1>7 DEF Post, counters
  <2>2. posts' \in Seq(Level)
    BY <2>1, TakenOut
  <2>3. /\ both \in Seq([value : Level \cup {Unknown}])
        /\ Len(both) = 2 /\ both[2] = Question
    <3>1. posts[i] \in Level
      BY ElementOfSeq
    <3> QED
      BY <3>1, CommandsType DEF Asked
  <2> HIDE DEF both
  <2>4. /\ commands' \in Seq([value : Level \cup {Unknown}])
        /\ Len(commands') = Len(commands) + 2
        /\ commands'[Len(commands) + 2] = both[2]
    <3> DEFINE T == [value : Level \cup {Unknown}]
    <3>0. commands \in Seq(T) /\ both \in Seq(T) /\ Len(commands) \in Nat /\ Len(both) = 2
      BY <2>3, LenProperties
    <3> HIDE DEF T
    <3>1. /\ commands \o both \in Seq(T)
          /\ Len(commands \o both) = Len(commands) + Len(both)
          /\ \A j \in 1 .. Len(commands) + Len(both) :
                (commands \o both)[j] = IF j <= Len(commands) THEN commands[j]
                                         ELSE both[j - Len(commands)]
      BY <3>0, ConcatProperties
    <3>2. /\ Len(commands) + 2 \in 1 .. Len(commands) + Len(both)
          /\ ~(Len(commands) + 2 <= Len(commands)) /\ (Len(commands) + 2) - Len(commands) = 2
      BY <3>0
    <3>3. (commands \o both)[Len(commands) + 2] = both[2]
      BY <3>1, <3>2
    <3> QED
      BY <2>1, <3>0, <3>1, <3>3 DEF T
  <2>5. commands'[Len(commands')] = Question /\ commands' # <<>>
    <3>1. Len(commands) \in Nat
      BY LenProperties
    <3>2. Len(commands') # 0
      BY <2>4, <3>1
    <3> QED
      BY <2>3, <2>4, <3>2, EmptySeq
  <2> QED
    BY <2>1, <2>2, <2>4, <2>5
<1> QED
  BY <1>1, <1>2, <1>3, <1>4, <1>5, <1>6, <1>7 DEF SliderNext

\* At rest nothing is on its way.
LEMMA SliderRests ==
    ASSUME SliderInv
    PROVE  SliderShowsLamp
BY DEF SliderInv, SliderTypeOK, Queued, SliderShowsLamp

\* The slider alone: no question is missing, and no status is the last one that
\* does not say what the lamp does (dimmer.js 43-82 of the control, 24-40 of
\* the page).
THEOREM SliderKept == SliderSpec => []SliderInv
<1>1. SliderInv /\ [SliderNext]_slider_vars => SliderInv'
  BY SliderStep
<1> QED
  BY <1>1, SliderStart, PTL DEF SliderSpec
-----------------------------------------------------------------------------
(***************************************************************************)
(* One popover, with all of them.                                          *)
(***************************************************************************)

PopoverInv == IInv /\ SliderInv /\ DurationInv

\* Whatever control the popover is of, what holds of its parts holds of it: a
\* step of one leaves the others alone.
THEOREM PopoverKept == PopoverSpec => []PopoverInv
<1>1. PopoverInit => PopoverInv
  BY InitInv, SliderStart, InvInit DEF PopoverInit, PopoverInv
<1>2. PopoverInv /\ [PopoverNext]_popover_vars => PopoverInv'
  <2> SUFFICES ASSUME PopoverInv, [PopoverNext]_popover_vars PROVE PopoverInv'
    OBVIOUS
  <2>1. [Next]_vars /\ [SliderNext]_slider_vars /\ [DurationNext]_duration_vars
    BY DEF PopoverNext, popover_vars
  <2> QED
    BY <2>1, BlindStep, SliderStep, InvNext DEF PopoverInv
<1> QED
  BY <1>1, <1>2, PTL DEF PopoverSpec

\* Every part of a popover keeps its types.
THEOREM PopoverTypes == PopoverSpec => []PopoverTypeOK
<1>1. PopoverInv => PopoverTypeOK
  BY DEF PopoverInv, PopoverTypeOK, IInv, SliderInv, DurationInv
<1> QED
  BY <1>1, PopoverKept, PTL

\* At rest the slider stands where the lamp is, and what the module reports is
\* never posted back.
THEOREM SliderAtRest == PopoverSpec => []SliderShowsLamp
<1>1. PopoverInv => SliderShowsLamp
  BY SliderRests DEF PopoverInv
<1> QED
  BY <1>1, PopoverKept, PTL

\* The percentage of a blind and the fields of a timer are right in a popover
\* as they are alone.
THEOREM PopoverRight == PopoverSpec => [](ExactAtEnd /\ SameEstimate /\ FieldsAgree)
<1>1. PopoverInv => ExactAtEnd /\ SameEstimate /\ FieldsAgree
  BY InvAgrees, BlindSame, BlindExact DEF PopoverInv
<1> QED
  BY <1>1, PopoverKept, PTL

\* A button means there, too, what the fields say.
THEOREM PopoverMeansIt == PopoverSpec => ClickIsMeant
<1>1. PopoverInv /\ [PopoverNext]_popover_vars =>
         [Click /\ Understood /\ Fits(for.value) =>
             /\ active'
             /\ ends' \in (IF control = "relay" THEN Until ELSE Until - 59)
                              .. Until + Period]_duration_vars
  BY MeantStep DEF PopoverInv
<1> QED
  BY <1>1, PopoverKept, PTL DEF PopoverSpec, ClickIsMeant
=============================================================================
