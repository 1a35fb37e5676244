-------------------------------- MODULE Hub --------------------------------
(***************************************************************************)
(* What the relay of src/src/velbusd.cpp promises, without its event loop, *)
(* buffers and flow control: every message that is accepted takes a place  *)
(* in one log, and each member sees the log of the others from the moment  *)
(* it joined, without a gap, or it is no longer a member.                  *)
(***************************************************************************)
EXTENDS Integers, Sequences, FiniteSets

CONSTANTS
    Member,     \* those who may receive
    Author,     \* those who may be the origin of a message
    Message


VARIABLES
    members,    \* who is connected
    log,        \* every message in the order it was accepted
    view        \* view[c]: what member c was given

hubVars == <<members, log, view>>

Init ==
    /\ members = {}
    /\ log = <<>>
    /\ view = [c \in Member |-> <<>>]

\* A member joins once: its view starts here.
Join(c) ==
    /\ c \notin members /\ view[c] = <<>>
    /\ members' = members \cup {c}
    /\ UNCHANGED <<log, view>>

Leave(L) ==
    /\ L # {}
    /\ members' = members \ L
    /\ UNCHANGED <<log, view>>

\* A message of a is accepted and given to the others among those who stay.
Post(a, m, stay) ==
    /\ log' = Append(log, [id |-> a, msg |-> m])
    /\ view' = [c \in Member |-> IF c \in stay \ {a} THEN Append(view[c], m)
                                 ELSE view[c]]

Next ==
    \/ \E c \in Member : Join(c)
    \/ \E L \in SUBSET members : Leave(L)
    \/ \E stay \in SUBSET members :
          /\ members' = stay
          /\ \E a \in Author, m \in Message : Post(a, m, stay)

Spec == Init /\ [][Next]_hubVars
-----------------------------------------------------------------------------
\* The entries from a to b of the log that c did not write itself.
Others(c, a, b) == {i \in a .. b : log[i].id # c}

\* Agreement: the view of a member is a stretch of the log up to its end,
\* less what the member wrote, so any two members agree on content and order.
Agreement ==
    \A c \in members : \E a \in 1 .. Len(log) + 1 :
        /\ Len(view[c]) = Cardinality(Others(c, a, Len(log)))
        /\ \A i \in Others(c, a, Len(log)) :
              view[c][Cardinality(Others(c, a, i))] = log[i].msg
=============================================================================
