------------------------------ MODULE PageProofs ------------------------------
(***************************************************************************)
(* The bundle of control scripts is whole, for every directory; and the    *)
(* page gets the beginning of one session, from one object at a time, for  *)
(* every browser, number of messages and number of failures.               *)
(***************************************************************************)
EXTENDS Page, Induction, FiniteSetTheorems, SequenceTheorems
-----------------------------------------------------------------------------
(* The bundle.                                                             *)

\* A list of distinct names is as long as the set of its names.
LEMMA ListingCounts ==
    ASSUME NEW d, IsListing(d)
    PROVE  IsFiniteSet(Names(d)) /\ Cardinality(Names(d)) = Len(d)
<1> DEFINE at == [i \in 1 .. Len(d) |-> d[i]]
<1>1. Len(d) \in Nat BY DEF IsListing
<1>2. at \in Bijection(1 .. Len(d), Names(d))
  BY DEF IsListing, Names, Bijection, Injection, Surjection, IsInjective
<1>3. ExistsBijection(1 .. Len(d), Names(d)) BY <1>2 DEF ExistsBijection
<1>4. IsFiniteSet(1 .. Len(d)) /\ Cardinality(1 .. Len(d)) = Len(d)
  BY <1>1, FS_Interval
<1> QED BY <1>3, <1>4, FS_Bijection

\* Taking one of a finite set's elements away.
LEMMA OneLess ==
    ASSUME NEW S, IsFiniteSet(S), NEW e \in S
    PROVE  /\ IsFiniteSet(S \ {e})
           /\ Cardinality(S) \in Nat /\ Cardinality(S) >= 1
           /\ Cardinality(S \ {e}) = Cardinality(S) - 1
           /\ Cardinality(S) = 1 => S \ {e} = {}
<1>1. IsFiniteSet(S \ {e}) /\ Cardinality(S \ {e}) = Cardinality(S) - 1
  BY FS_RemoveElement
<1>2. Cardinality(S) \in Nat /\ Cardinality(S \ {e}) \in Nat
  BY <1>1, FS_CardinalityType
<1>3. Cardinality(S \ {e}) = 0 <=> S \ {e} = {} BY <1>1, FS_EmptySet
<1> QED BY <1>1, <1>2, <1>3

\* The list loses one name with each callback.
LEMMA SplicedLen ==
    ASSUME NEW S, NEW todo \in Seq(S), Len(todo) >= 1
    PROVE  /\ Spliced(todo) \in Seq(S)
           /\ Len(Spliced(todo)) = Len(todo) - 1
           /\ Spliced(todo) = <<>> <=> Len(todo) = 1
<1> DEFINE n == Len(todo) - 1
<1>1. Len(todo) \in Nat OBVIOUS
<1>2. n \in Nat /\ n < Len(todo) /\ \A i \in 1 .. n : todo[i] \in S BY <1>1
<1>3. Spliced(todo) = SubSeq(todo, 1, n) BY DEF Spliced
<1>4. Spliced(todo) \in Seq(S) /\ Len(Spliced(todo)) = n
  <2> HIDE DEF n
  <2>1. /\ SubSeq(todo, 1, n) \in Seq(S)
        /\ Len(SubSeq(todo, 1, n)) = IF 1 <= n THEN n - 1 + 1 ELSE 0
    BY <1>2, SubSeqProperties
  <2>2. CASE 1 <= n BY <1>2, <1>3, <2>1, <2>2
  <2>3. CASE ~(1 <= n) BY <1>2, <1>3, <2>1, <2>3
  <2> QED BY <2>2, <2>3
<1>5. Len(todo) = n + 1 BY <1>1
<1>6. Spliced(todo) = <<>> <=> Len(Spliced(todo)) = 0 BY <1>4
<1> QED BY <1>1, <1>4, <1>5, <1>6

LEMMA BundleStarts == BundleInit => BundleInv
<1> SUFFICES ASSUME BundleInit PROVE BundleInv OBVIOUS
<1>1. IsFiniteSet({}) /\ Cardinality({}) = 0 BY FS_EmptySet
<1>2. unread \cup ticks = {} BY DEF BundleInit
<1>3. Names(body) = {} /\ ToRead(directory) = {} BY DEF BundleInit, Names, ToRead
<1>4. BundleTypeOK
  <2>1. <<>> \in Seq(File) /\ <<>> \in Seq(Script)
        /\ <<>> \in Seq(Answer) OBVIOUS
  <2> QED BY <2>1 DEF BundleInit, BundleTypeOK
<1>5. Counted BY <1>1, <1>2 DEF BundleInit, Counted
<1>6. Collected
  <2>1. Len(body) = 0 BY DEF BundleInit
  <2>2. \A i \in 1 .. Len(body) : FALSE BY <2>1
  <2> QED BY <1>3, <2>2 DEF BundleInit, Collected
<1> QED BY <1>1, <1>3, <1>4, <1>5, <1>6 DEF BundleInit, BundleInv

LEMMA ReaddirKeeps ==
    ASSUME BundleInv, NEW d \in Directory, readdir(d)
    PROVE  BundleInv'
<1> USE DEF readdir
<1>1. IsListing(d) BY DirectoryAssumption
<1>2. IsFiniteSet(Names(d)) /\ Cardinality(Names(d)) = Len(d)
  BY <1>1, ListingCounts
<1>3. unread' \cup ticks' = Names(d) BY DEF ToRead
<1>4. IsFiniteSet(unread') /\ IsFiniteSet(ticks')
  <2>1. unread' \subseteq Names(d) /\ ticks' \subseteq Names(d) BY <1>3
  <2> QED BY <1>2, <2>1, FS_Subset
<1>5. Counted' BY <1>2, <1>3 DEF Counted
<1>6. body = <<>> /\ answers = <<>> BY DEF BundleInv
<1>7. BundleTypeOK'
  <2>1. Names(d) \subseteq File BY <1>1 DEF IsListing, Names
  <2>2. files' \in Seq(File) BY <1>1 DEF IsListing
  <2>3. ticks' \subseteq File \ Script /\ unread' \subseteq Script
    BY <2>1 DEF ToRead
  <2> QED BY <2>2, <2>3 DEF BundleInv, BundleTypeOK
<1>8. Collected'
  <2>1. Names(body') = {} BY <1>6 DEF Names
  <2>2. ToRead(directory') \ unread' = {} OBVIOUS
  <2> QED BY <1>6, <2>1, <2>2 DEF Collected
<1> QED BY <1>4, <1>5, <1>6, <1>7, <1>8 DEF BundleInv

LEMMA SkipKeeps ==
    ASSUME BundleInv, NEW f \in File, Skip(f)
    PROVE  BundleInv'
<1> USE DEF Skip
<1> DEFINE S == unread \cup ticks
<1>1. IsFiniteSet(S) BY FS_Union DEF BundleInv
<1>2. f \in S OBVIOUS
<1>3. unread' \cup ticks' = S \ {f} BY DEF BundleInv, BundleTypeOK
<1>4. /\ Len(files) = Cardinality(S) /\ files \in Seq(File)
      BY DEF BundleInv, Counted, BundleTypeOK
<1>5. /\ Cardinality(S) >= 1
      /\ Cardinality(S \ {f}) = Cardinality(S) - 1
  BY <1>1, <1>2, OneLess
<1>6. files' \in Seq(File) /\ Len(files') = Len(files) - 1
  BY <1>4, <1>5, SplicedLen
<1>7. Counted' BY <1>3, <1>4, <1>5, <1>6 DEF Counted
<1>8. IsFiniteSet(ticks') BY FS_Subset DEF BundleInv
<1>9. BundleTypeOK' BY <1>6 DEF BundleInv, BundleTypeOK
<1>10. Collected => Collected' BY DEF Collected
<1> QED BY <1>7, <1>8, <1>9, <1>10 DEF BundleInv

\* A callback of readFile: what both of its outcomes share.
LEMMA CallbackCounts ==
    ASSUME BundleInv, NEW f \in unread, ticks = {}, ticks' = ticks,
           unread' = unread \ {f}, files' = Spliced(files)
    PROVE  /\ files' \in Seq(File) /\ IsFiniteSet(unread')
           /\ Counted'
           /\ LastOne(files') <=> unread' = {}
<1>1. IsFiniteSet(unread) BY DEF BundleInv
<1>2. unread \cup ticks = unread /\ unread' \cup ticks' = unread \ {f} OBVIOUS
<1>3. Len(files) = Cardinality(unread) /\ files \in Seq(File)
  BY <1>2 DEF BundleInv, Counted, BundleTypeOK
<1>4. /\ IsFiniteSet(unread \ {f})
      /\ Cardinality(unread) \in Nat /\ Cardinality(unread) >= 1
      /\ Cardinality(unread \ {f}) = Cardinality(unread) - 1
      /\ Cardinality(unread) = 1 => unread \ {f} = {}
  BY <1>1, OneLess
<1>5. /\ files' \in Seq(File) /\ Len(files') = Len(files) - 1
      /\ files' = <<>> <=> Len(files) = 1
  BY <1>3, <1>4, SplicedLen
<1>6. Counted' BY <1>2, <1>3, <1>4, <1>5 DEF Counted
<1>7. unread' = {} => Cardinality(unread') = 0 BY FS_EmptySet
<1> QED BY <1>3, <1>4, <1>5, <1>6, <1>7 DEF LastOne

LEMMA ReadKeeps ==
    ASSUME BundleInv, NEW f \in File, ReadFile(f)
    PROVE  BundleInv'
<1> USE DEF ReadFile
<1>1. /\ files' \in Seq(File) /\ IsFiniteSet(unread')
      /\ Counted'
      /\ LastOne(files') <=> unread' = {}
  BY CallbackCounts
<1>2. answers' \in Seq(Answer) BY DEF BundleInv, BundleTypeOK, AnsweredWith, Answer
<1>3. f \in Script /\ body' \in Seq(Script) BY DEF BundleInv, BundleTypeOK
<1>4. BundleTypeOK' BY <1>1, <1>2, <1>3 DEF BundleInv, BundleTypeOK
<1>5. started BY DEF BundleInv, ToRead, Names
<1>6. ASSUME errors = 0 PROVE Collected'
  <2>1. Collected /\ body \in Seq(Script) BY <1>6 DEF BundleInv, BundleTypeOK
  <2>2. f \notin Names(body) BY <2>1 DEF Collected
  <2>3. Names(body') = Names(body) \cup {f}
    <3>1. Len(body') = Len(body) + 1 /\ body'[Len(body) + 1] = f BY <2>1
    <3>2. \A i \in 1 .. Len(body) : body'[i] = body[i] BY <2>1
    <3>3. \A i \in 1 .. Len(body') : i \in 1 .. Len(body) \/ i = Len(body) + 1
      BY <2>1, <3>1
    <3>4. Len(body) + 1 \in 1 .. Len(body')
          /\ \A i \in 1 .. Len(body) : i \in 1 .. Len(body') BY <2>1, <3>1
    <3> QED BY <3>1, <3>2, <3>3, <3>4 DEF Names
  <2>4. f \in ToRead(directory) BY DEF BundleInv
  <2>5. Names(body') = ToRead(directory') \ unread'
    BY <2>1, <2>3, <2>4 DEF Collected
  <2>6. ASSUME NEW i \in 1 .. Len(body'), NEW j \in 1 .. Len(body'),
               body'[i] = body'[j]
        PROVE  i = j
    <3>1. Len(body') = Len(body) + 1 /\ body'[Len(body) + 1] = f BY <2>1
    <3>2. \A k \in 1 .. Len(body) : body'[k] = body[k] /\ body[k] # f
      BY <2>1, <2>2 DEF Names
    <3>3. CASE i = Len(body) + 1 /\ j = Len(body) + 1 BY <3>3
    <3>4. CASE i \in 1 .. Len(body) /\ j = Len(body) + 1
      BY <2>6, <3>1, <3>2, <3>4
    <3>5. CASE j \in 1 .. Len(body) /\ i = Len(body) + 1
      BY <2>6, <3>1, <3>2, <3>5
    <3>6. CASE i \in 1 .. Len(body) /\ j \in 1 .. Len(body)
      BY <2>1, <2>6, <3>2, <3>6 DEF Collected
    <3> QED BY <2>1, <3>1, <3>3, <3>4, <3>5, <3>6
  <2> QED BY <2>5, <2>6 DEF Collected
<1>7. ASSUME errors = 0
      PROVE  answers' # <<>> => unread' = {} /\ Len(answers') <= 1
  <2>1. answers = <<>> BY <1>7 DEF BundleInv
  <2>2. answers' = IF LastOne(files') THEN <<"bundle">> ELSE <<>>
    BY <2>1 DEF AnsweredWith
  <2> QED BY <1>1, <2>2
<1>8. errors = 0 => Len(answers') <= 1
  <2>1. answers' = <<>> => Len(answers') = 0 OBVIOUS
  <2> QED BY <1>7, <2>1
<1>9. unread' \subseteq ToRead(directory') BY DEF BundleInv
<1> QED BY <1>1, <1>4, <1>5, <1>6, <1>7, <1>8, <1>9 DEF BundleInv

LEMMA ReadFailsKeeps ==
    ASSUME BundleInv, NEW f \in File, ReadFileFails(f)
    PROVE  BundleInv'
<1> USE DEF ReadFileFails
<1>1. /\ files' \in Seq(File) /\ IsFiniteSet(unread')
      /\ Counted'
  BY CallbackCounts
<1>2. answers' \in Seq(Answer) BY DEF BundleInv, BundleTypeOK, AnsweredWith, Answer
<1>3. errors' \in Nat /\ errors' # 0 BY DEF BundleInv, BundleTypeOK
<1>4. BundleTypeOK' BY <1>1, <1>2, <1>3 DEF BundleInv, BundleTypeOK
<1>5. started BY DEF BundleInv, ToRead, Names
<1> QED BY <1>1, <1>3, <1>4, <1>5 DEF BundleInv

LEMMA ProcessEndsKeeps ==
    ASSUME BundleInv, ProcessEnds
    PROVE  BundleInv'
<1> USE DEF ProcessEnds
<1>1. IsFiniteSet({}) /\ Cardinality({}) = 0 BY FS_EmptySet
<1>2. unread' \cup ticks' = {} /\ Len(files') = 0 OBVIOUS
<1>3. errors' \in Nat /\ errors' # 0 BY DEF BundleInv, BundleTypeOK
<1>4. answers' \in Seq(Answer)
  <2>1. answers \in Seq(Answer) BY DEF BundleInv, BundleTypeOK
  <2>2. <<"cut">> \in Seq(Answer) BY DEF Answer
  <2> QED BY <2>1, <2>2
<1>5. BundleTypeOK'
  <2>1. files' \in Seq(File) /\ unread' \in SUBSET Script
        /\ ticks' \in SUBSET (File \ Script) OBVIOUS
  <2> QED BY <1>3, <1>4, <2>1 DEF BundleInv, BundleTypeOK
<1>6. Counted' BY <1>1, <1>2 DEF Counted
<1> QED BY <1>1, <1>3, <1>5, <1>6 DEF BundleInv

LEMMA BundleKeeps == BundleInv /\ [BundleNext]_bundle_vars => BundleInv'
<1> SUFFICES ASSUME BundleInv, [BundleNext]_bundle_vars PROVE BundleInv' OBVIOUS
<1>1. ASSUME NEW d \in Directory, readdir(d) PROVE BundleInv'
  BY <1>1, ReaddirKeeps
<1>2. CASE readdirFails
  <2>1. errors' \in Nat /\ errors' # 0
    BY <1>2 DEF readdirFails, BundleInv, BundleTypeOK
  <2>2. answers' \in Seq(Answer)
    BY <1>2 DEF readdirFails, BundleInv, BundleTypeOK, Answer
  <2> QED BY <1>2, <2>1, <2>2 DEF readdirFails, BundleInv, BundleTypeOK, Counted
<1>3. ASSUME NEW f \in File, Skip(f) PROVE BundleInv' BY <1>3, SkipKeeps
<1>4. ASSUME NEW f \in File, ReadFile(f) PROVE BundleInv' BY <1>4, ReadKeeps
<1>5. ASSUME NEW f \in File, ReadFileFails(f) PROVE BundleInv'
  BY <1>5, ReadFailsKeeps
<1>6. CASE ProcessEnds BY <1>6, ProcessEndsKeeps
<1>7. CASE UNCHANGED bundle_vars
  BY <1>7 DEF bundle_vars, BundleInv, BundleTypeOK, Counted, Collected
<1> QED BY <1>1, <1>2, <1>3, <1>4, <1>5, <1>6, <1>7 DEF BundleNext, Serves

LEMMA BundleAlways == BundleSpec => []BundleInv
<1> QED BY BundleStarts, BundleKeeps, PTL DEF BundleSpec

\* The bundle of GET /js/controls.js has every script of the directory, once,
\* for every directory and every order of the callbacks (velbusweb.js 122-136).
THEOREM BundleIsWhole == BundleSpec => []BundleWhole
<1>1. BundleInv => BundleWhole
  <2>1. Sent("bundle") => answers # <<>>
    <3>1. answers = <<>> => \A i \in 1 .. Len(answers) : FALSE OBVIOUS
    <3> QED BY <3>1 DEF Sent
  <2> QED BY <2>1 DEF BundleInv, BundleWhole, Collected
<1> QED BY <1>1, BundleAlways, PTL

\* It is sent once at most while the files can be read, so that the process
\* survives the request.
THEOREM BundleOnce == BundleSpec => []BundleAnsweredOnce
<1>1. BundleInv => BundleAnsweredOnce BY DEF BundleInv, BundleAnsweredOnce
<1> QED BY <1>1, BundleAlways, PTL
-----------------------------------------------------------------------------
(* The event stream.                                                       *)

ObjectType ==
    [readyState : {"connecting", "open", "closed"}, ir : BOOLEAN,
     protocols : Seq(Protocol), protocol : Protocol \cup {"none", "waiting-for-load"},
     tref : BOOLEAN, transport : Transport \cup {0}, heard : SUBSET Transport,
     dials : Transport \cup {0}, got : Seq(Message), raised : BOOLEAN]

\* An object never hears a transport that it has given up, and one that is
\* closed hears none.
Sound(s) ==
    /\ ~s.raised
    /\ s.heard = IF s.transport = 0 THEN {} ELSE {s.transport}
    /\ s.transport <= s.dials
    /\ s.ir => s.readyState = "connecting" /\ s.transport = 0
    /\ s.readyState = "closed" => s.transport = 0
    /\ s.protocol = "waiting-for-load" =>
          /\ s.readyState = "connecting" /\ s.transport = 0 /\ ~s.ir
          /\ s.protocols # <<>>

\* Its "close" event, or the timer for the next one.
Closed ==
    /\ ~(closing /\ retry)
    /\ (sockjs.readyState = "closed") <=> (closing \/ retry)

\* The frames of a session: the greeting, then messages.
Line(j) == IF j = 0 THEN O ELSE A(<<j>>)
Numbered(b, w) == Len(b) <= w + 1 /\ \A i \in 1 .. Len(b) : b[i] = Line(w - Len(b) + i)
Boxes ==
    \A t \in Transport :
        /\ session[t] # "open" => box[t] = <<>>
        /\ Numbered(box[t], written[t])

Upcoming(t) == written[t] - Len(box[t]) + 1

\* What the page has got when line p is the next.
Growing(got) == \A i, j \in 1 .. Len(got) : i < j => got[i] < got[j]
Exact(got) == \A i \in 1 .. Len(got) : got[i] = i
Tells(s, th) ==
    /\ s.readyState = "connecting" => s.got = <<>>
    /\ Growing(s.got)
    /\ th = 0 => Exact(s.got)
UpTo(s, p, th) ==
    s.readyState = "open" /\ p # 0 =>
        /\ \A i \in 1 .. Len(s.got) : s.got[i] < p
        /\ th = 0 => Len(s.got) = p - 1
Told ==
    /\ Tells(sockjs, throws)
    /\ \A t \in sockjs.heard : session[t] = "open" => UpTo(sockjs, Upcoming(t), throws)

\* Nothing has happened to a transport that was not yet tried.
Unused ==
    \A t \in Transport :
        t > sockjs.dials => request[t].now = "none" /\ session[t] = "none"
Begun ==
    sockjs.readyState = "open" =>
        sockjs.transport # 0 /\ session[sockjs.transport] # "none"

\* Transports are tried again only after failures.
Damaged(t) ==
    \/ request[t].now = "cut"
    \/ session[t] = "gone"
    \/ sockjs.readyState = "open" /\ session[t] = "open" /\ Upcoming(t) = 0
Owed ==
    \/ sockjs.ir \/ closing \/ retry \/ sockjs.protocol = "waiting-for-load"
    \/ \E t \in sockjs.heard : Damaged(t)
Budget == sockjs.dials <= failures + 1 /\ (Owed => sockjs.dials <= failures)

SockJSInv ==
    /\ TypeOK
    /\ sockjs \in ObjectType
    /\ Sound(sockjs) /\ Closed
    /\ Boxes /\ Told
    /\ Unused /\ Begun /\ Budget

LEMMA TransportFact ==
    /\ MaxFailures \in Nat /\ MaxMessages \in Nat /\ MaxMessages >= 1
    /\ Transport \subseteq Nat /\ 0 \notin Transport
    /\ \A d \in Nat : d <= MaxFailures => d + 1 \in Transport
  BY BoundAssumption DEF Transport

LEMMA DialsAreNumbers ==
    ASSUME NEW d \in Transport \cup {0}
    PROVE  d \in Nat
  BY TransportFact

\* The next protocol, if there is one that can be tried: what changes.
Tried(s, r) ==
    /\ r \in ObjectType
    /\ r.readyState = s.readyState /\ r.ir = s.ir
    /\ r.got = s.got /\ r.raised = s.raised
    /\ \/ /\ r.protocol \in {"none", "waiting-for-load"}
          /\ r.transport = s.transport /\ r.heard = s.heard
          /\ r.dials = s.dials
       \/ /\ r.protocol \in Protocol
          /\ r.dials = s.dials + 1 /\ r.transport = r.dials
          /\ r.heard = s.heard \cup {r.dials}
    /\ r.protocol = "waiting-for-load" => r.protocols # <<>>

LEMMA TryFact ==
    ASSUME NEW s \in ObjectType, s.dials + 1 \in Transport, NEW complete
    PROVE  LET r == try_next_protocol(s, complete)
           IN /\ Tried(s, r)
              /\ complete /\ s.protocols # <<>> => r.protocol \in Protocol
<1> DEFINE r == try_next_protocol(s, complete)
           fact == Tried(s, r) /\ (complete /\ s.protocols # <<>> => r.protocol \in Protocol)
<1> SUFFICES fact
  OBVIOUS
<1>1. CASE s.protocols = <<>>
  <2>1. r = [s EXCEPT !.protocol = "none", !.tref = FALSE]
    BY <1>1 DEF try_next_protocol
  <2> HIDE DEF r
  <2> QED
    BY <1>1, <2>1 DEF ObjectType, Tried
<1>2. CASE s.protocols # <<>>
  <2>1. /\ s.protocols \in Seq(Protocol)
        /\ Head(s.protocols) \in Protocol /\ Tail(s.protocols) \in Seq(Protocol)
    BY <1>2, HeadTailProperties DEF ObjectType
  <2>2. CASE need_body(Head(s.protocols)) /\ ~complete
    <3>1. r = [s EXCEPT !.protocol = "waiting-for-load", !.tref = FALSE]
      BY <1>2, <2>2 DEF try_next_protocol
    <3> HIDE DEF r
    <3> QED
      BY <1>2, <2>2, <3>1 DEF ObjectType, Tried
  <2>3. CASE ~(need_body(Head(s.protocols)) /\ ~complete)
    <3> DEFINE p == Head(s.protocols)
               ps == Tail(s.protocols)
               d == s.dials + 1
               h == s.heard \cup {d}
    <3>1. r = StartTransport(s)
      BY <1>2, <2>3 DEF try_next_protocol
    <3>2. r = [s EXCEPT !.protocol = p, !.protocols = ps, !.tref = TRUE,
                        !.dials = d, !.transport = d, !.heard = h]
      BY <3>1 DEF StartTransport, ObjectType
    <3>3. p \in Protocol /\ ps \in Seq(Protocol) /\ d \in Transport
          /\ h \in SUBSET Transport
      BY <1>1, <2>1 DEF ObjectType, Tried
    <3> HIDE DEF r, p, ps, h, d
    <3>4. /\ r \in ObjectType
          /\ r.readyState = s.readyState /\ r.ir = s.ir
          /\ r.got = s.got /\ r.raised = s.raised
          /\ r.protocol = p /\ r.dials = d /\ r.transport = d /\ r.heard = h
      BY <3>2, <3>3 DEF ObjectType
    <3> QED
      BY <3>3, <3>4 DEF d, h, Tried, Protocol
  <2> QED
    BY <2>2, <2>3
<1> QED
  BY <1>1, <1>2

Silent(s, r) ==
    /\ r \in ObjectType
    /\ r.readyState = s.readyState /\ ~r.ir
    /\ r.protocol = s.protocol /\ r.dials = s.dials
    /\ r.transport = 0 /\ r.heard = {}
    /\ r.got = s.got /\ r.raised = s.raised

LEMMA CleanedFact ==
    ASSUME NEW s \in ObjectType, Sound(s)
    PROVE  Silent(s, Cleaned(s))
<1> DEFINE r == Cleaned(s)
           h == s.heard \ {s.transport}
<1> SUFFICES Silent(s, r)
  OBVIOUS
<1>1. r = [s EXCEPT !.ir = FALSE, !.transport = 0, !.heard = h]
  BY DEF Cleaned, ObjectType
<1>2. h = {}
  BY DEF Sound
<1>3. h \in SUBSET Transport
  BY <1>2
<1> HIDE DEF r, h
<1> QED
  BY <1>1, <1>2, <1>3 DEF ObjectType, Silent

\* The end of an object or of an attempt of it (sockjs-0.3.js 985-1022): the
\* object is closed, waits for the document, or tries the next transport.
Ended(s, r) == r.readyState = "closed" /\ r.dials = s.dials
Waits(s, r) ==
    /\ s.readyState = "connecting" /\ r.readyState = "connecting"
    /\ r.protocol = "waiting-for-load" /\ r.dials = s.dials
Tries(s, r) ==
    /\ s.readyState = "connecting" /\ r.readyState = "connecting"
    /\ r.dials = s.dials + 1 /\ r.transport = r.dials /\ r.protocol \in Protocol

Finished(s, r) ==
    /\ r \in ObjectType /\ Sound(r) /\ ~r.ir /\ r.got = s.got
    /\ Ended(s, r) \/ Waits(s, r) \/ Tries(s, r)

LEMMA DidCloseFact ==
    ASSUME NEW s \in ObjectType, Sound(s), s.readyState # "closed", NEW force \in BOOLEAN,
           s.dials + 1 \in Transport \/ force \/ s.readyState = "open",
           force => s.protocol # "waiting-for-load"
    PROVE  LET r == didClose(s, force)
           IN Finished(s, r) /\ (force => Ended(s, r))
<1> DEFINE r == didClose(s, force)
           c == Cleaned(s)
           n == try_next_protocol(c, loaded)
           fact == Finished(s, r) /\ (force => Ended(s, r))
<1> SUFFICES fact
  OBVIOUS
<1>1. /\ c \in ObjectType
      /\ c.readyState = s.readyState /\ ~c.ir
      /\ c.protocol = s.protocol /\ c.dials = s.dials
      /\ c.transport = 0 /\ c.heard = {}
      /\ c.got = s.got /\ c.raised = s.raised
  BY CleanedFact DEF Silent
<1>2. ~s.raised /\ s.dials \in Nat
  BY DialsAreNumbers DEF Sound, ObjectType
<1>3. CASE s.readyState = "connecting" /\ ~force
  <2>1. r = IF n.protocol # "none" THEN n ELSE [n EXCEPT !.readyState = "closed"]
    BY <1>3 DEF didClose
  <2>2. /\ n \in ObjectType
        /\ n.readyState = c.readyState /\ n.ir = c.ir
        /\ n.got = c.got /\ n.raised = c.raised
        /\ \/ /\ n.protocol \in {"none", "waiting-for-load"}
              /\ n.transport = c.transport /\ n.heard = c.heard
              /\ n.dials = c.dials
           \/ /\ n.protocol \in Protocol
              /\ n.dials = c.dials + 1 /\ n.transport = n.dials
              /\ n.heard = c.heard \cup {n.dials}
        /\ n.protocol = "waiting-for-load" => n.protocols # <<>>
    <3>1. c.dials + 1 \in Transport
      BY <1>1, <1>3
    <3>2. Tried(c, n)
      <4> HIDE DEF c
      <4> QED
        BY <1>1, <3>1, TryFact
    <3> HIDE DEF c
    <3> QED
      BY <1>1, <3>2 DEF Tried
  <2> HIDE DEF r, c, n
  <2>3. CASE n.protocol = "none"
    <3>1. r = [n EXCEPT !.readyState = "closed"]
      BY <2>1, <2>3
    <3>2. /\ r \in ObjectType /\ r.readyState = "closed" /\ ~r.ir /\ r.got = s.got
          /\ ~r.raised /\ r.protocol = "none"
          /\ r.transport = n.transport /\ r.heard = n.heard /\ r.dials = n.dials
      BY <1>1, <1>2, <2>2, <2>3, <3>1 DEF ObjectType
    <3>3. r.transport = 0 /\ r.heard = {} /\ r.dials = s.dials
      BY <1>1, <2>2, <2>3, <3>2 DEF Protocol
    <3> QED
      BY <1>2, <3>2, <3>3 DEF Sound, Ended, Finished
  <2>4. CASE n.protocol = "waiting-for-load"
    <3>1. r = n /\ n.transport = 0 /\ n.heard = {} /\ n.dials = s.dials
      BY <1>1, <2>1, <2>2, <2>4 DEF Protocol
    <3> QED
      BY <1>1, <1>2, <1>3, <2>2, <2>4, <3>1 DEF Sound, Waits, Finished
  <2>5. CASE n.protocol \notin {"none", "waiting-for-load"}
    <3>1. /\ r = n /\ n.protocol \in Protocol
          /\ n.dials = s.dials + 1 /\ n.transport = n.dials /\ n.heard = {n.dials}
      BY <1>1, <2>1, <2>2, <2>5
    <3>2. n.dials # 0
      BY <1>2, <3>1
    <3> QED
      BY <1>1, <1>2, <1>3, <2>2, <2>5, <3>1, <3>2 DEF Sound, Tries, Finished
  <2> QED
    BY <2>3, <2>4, <2>5
<1>4. CASE ~(s.readyState = "connecting" /\ ~force)
  <2>1. r = [c EXCEPT !.readyState = "closed"]
    BY <1>4 DEF didClose
  <2>2. s.protocol # "waiting-for-load"
    BY <1>4 DEF Sound
  <2> HIDE DEF r, c
  <2>3. /\ r \in ObjectType /\ r.readyState = "closed" /\ ~r.ir /\ r.got = s.got
        /\ ~r.raised /\ r.protocol = s.protocol
        /\ r.transport = 0 /\ r.heard = {} /\ r.dials = s.dials
    BY <1>1, <1>2, <2>1 DEF ObjectType
  <2> QED
    BY <1>2, <2>2, <2>3 DEF Sound, Ended, Finished
<1> QED
  BY <1>3, <1>4

\* The recursion of Hears, line by line: by induction over the lines.
LEMMA HearsFact ==
    ASSUME NEW t, NEW lines \in Seq(Frame)
    PROVE  \E f : /\ f[0] = sockjs /\ f[Len(lines)] = Hears(t, lines)
                  /\ \A i \in 1 .. Len(lines) : f[i] = Hear(t, f[i - 1], lines[i])
<1> DEFINE n == Len(lines)
           Is(g, k) == g = [i \in 0 .. k |-> IF i = 0 THEN sockjs
                                             ELSE Hear(t, g[i - 1], lines[i])]
           Upto == {k \in Nat : \E g : Is(g, k)}
           f == CHOOSE g : Is(g, n)
<1>1. n \in Nat
  BY LenProperties
<1>2. 0 \in Upto
  <2>1. Is([i \in 0 .. 0 |-> sockjs], 0)
    OBVIOUS
  <2> QED
    BY <2>1
<1>3. \A k \in Upto \cap Nat : k + 1 \in Upto
  <2> TAKE k \in Upto \cap Nat
  <2>1. PICK g : Is(g, k)
    OBVIOUS
  <2> DEFINE next == Hear(t, g[k], lines[k + 1])
             h == [i \in 0 .. k + 1 |-> IF i <= k THEN g[i] ELSE next]
  <2>2. \A i \in 0 .. k : h[i] = g[i]
    OBVIOUS
  <2>3. \A i \in 0 .. k + 1 :
           h[i] = IF i = 0 THEN sockjs ELSE Hear(t, h[i - 1], lines[i])
    <3> TAKE i \in 0 .. k + 1
    <3>1. CASE i <= k
      <4>1. i \in 0 .. k /\ (i # 0 => i - 1 \in 0 .. k)
        BY <3>1
      <4>2. g[i] = IF i = 0 THEN sockjs ELSE Hear(t, g[i - 1], lines[i])
        BY <2>1, <4>1
      <4> HIDE DEF h
      <4> QED
        BY <2>2, <4>1, <4>2
    <3>2. CASE ~(i <= k)
      <4>1. i = k + 1 /\ i # 0 /\ i - 1 = k /\ k \in 0 .. k
        BY <3>2
      <4>2. h[i] = next /\ h[i - 1] = g[k]
        BY <2>2, <4>1
      <4> HIDE DEF h
      <4> QED
        BY <4>1, <4>2
    <3> QED
      BY <3>1, <3>2
  <2>4. Is(h, k + 1)
    <3>1. h = [i \in 0 .. k + 1 |-> h[i]]
      OBVIOUS
    <3> HIDE DEF h
    <3> QED
      BY <2>3, <3>1
  <2>5. \E e : Is(e, k + 1)
    <3> HIDE DEF h, Is
    <3> QED
      BY <2>4
  <2> HIDE DEF Is
  <2> QED
    BY <2>5
<1>4. Is(f, n)
  <2>1. n \in Upto
    <3> HIDE DEF Upto, n
    <3> QED
      BY <1>1, <1>2, <1>3, SetInduction
  <2> QED
    BY <2>1
<1>5. Hears(t, lines) = f[n]
  BY DEF Hears
<1> HIDE DEF f
<1>6. \A i \in 0 .. n : f[i] = IF i = 0 THEN sockjs ELSE Hear(t, f[i - 1], lines[i])
  BY <1>4
<1> HIDE DEF n
<1>7. 0 \in 0 .. n /\ \A i \in 1 .. n : i \in 0 .. n /\ i # 0
  BY <1>1
<1>8. f[0] = sockjs
  BY <1>6, <1>7
<1>9. \A i \in 1 .. n : f[i] = Hear(t, f[i - 1], lines[i])
  BY <1>6, <1>7
<1>10. \A i \in 1 .. Len(lines) : f[i] = Hear(t, f[i - 1], lines[i])
  BY <1>9 DEF n
<1>11. f[Len(lines)] = Hears(t, lines)
  BY <1>5 DEF n
<1> QED
  BY <1>8, <1>10, <1>11

\* What one line brings when line p is the next, and that q is the next then:
\* the greeting, or messages from p on.  Only an exception loses some of them.
Carries(line, p, q, th) ==
    /\ p \in Nat /\ q \in Nat
    /\ \/ p = 0 /\ q = 1 /\ line = O
       \/ /\ p # 0 /\ q > p
          /\ line = A(line.messages) /\ line.messages \in Seq(Message)
          /\ Len(line.messages) <= q - p
          /\ th = 0 => Len(line.messages) = q - p
          /\ \A i \in 1 .. Len(line.messages) : line.messages[i] = p - 1 + i

\* What transport t has made of object s0 when line p is the next, while it
\* hears those from p0 on.
Hearing(t, s0, s, p0, p, th) ==
    /\ s \in ObjectType /\ Sound(s) /\ ~s.ir /\ s.dials = s0.dials
    /\ p0 \in Nat /\ p \in Nat /\ p >= p0 /\ (p = p0 => s = s0)
    /\ Tells(s, th) /\ UpTo(s, p, th)
    /\ \/ s.readyState # "closed" /\ s.transport = t
       \/ s.readyState = "closed" /\ s0.readyState = "open" /\ p0 = 0

\* Messages from p on are heard behind those before p.
Got(got, p, th) ==
    /\ got \in Seq(Message) /\ Growing(got)
    /\ \A i \in 1 .. Len(got) : got[i] < p
    /\ th = 0 => Exact(got) /\ Len(got) = p - 1
Brought(ms, p, q, th) ==
    /\ ms \in Seq(Message) /\ p \in Nat /\ q \in Nat /\ p # 0
    /\ Len(ms) <= q - p
    /\ th = 0 => Len(ms) = q - p
    /\ \A i \in 1 .. Len(ms) : ms[i] = p - 1 + i

LEMMA GrowsBy ==
    ASSUME NEW got, NEW ms, NEW p, NEW q, NEW th,
           Got(got, p, th), Brought(ms, p, q, th)
    PROVE  Got(got \o ms, q, th)
<1> DEFINE n == Len(got)
           m == Len(ms)
           g == got \o ms
<1>0. /\ got \in Seq(Message) /\ ms \in Seq(Message)
      /\ p \in Nat /\ q \in Nat /\ p # 0
      /\ Growing(got) /\ (th = 0 => Exact(got) /\ Len(got) = p - 1)
      /\ \A i \in 1 .. Len(got) : got[i] < p
      /\ Len(ms) <= q - p /\ (th = 0 => Len(ms) = q - p)
      /\ \A i \in 1 .. Len(ms) : ms[i] = p - 1 + i
  BY DEF Got, Brought
<1>1. n \in Nat /\ m \in Nat
  BY <1>0, LenProperties
<1>2. /\ g \in Seq(Message) /\ Len(g) = n + m
      /\ \A i \in 1 .. n + m : g[i] = IF i <= n THEN got[i] ELSE ms[i - n]
  BY <1>0, ConcatProperties
<1>3. \A i \in 1 .. n : got[i] \in Nat
  BY <1>0, ElementOfSeq, TransportFact DEF Message
<1>4. \A i \in 1 .. n : i \in 1 .. n + m /\ g[i] = got[i] /\ g[i] < p
  BY <1>0, <1>1, <1>2
<1>5. \A i \in n + 1 .. n + m :
         i - n \in 1 .. m /\ i \in 1 .. n + m /\ g[i] = p - 1 + (i - n)
  BY <1>0, <1>1, <1>2
<1> HIDE DEF g
<1>6. Growing(g)
  <2> SUFFICES ASSUME NEW i \in 1 .. n + m, NEW j \in 1 .. n + m, i < j
               PROVE  g[i] < g[j]
    BY <1>0, <1>2 DEF Growing
  <2>1. CASE j <= n
    <3>1. i \in 1 .. n /\ j \in 1 .. n
      BY <1>0, <1>1, <2>1
    <3> QED
      BY <1>0, <1>4, <3>1 DEF Growing
  <2>2. CASE ~(j <= n) /\ i <= n
    <3>1. i \in 1 .. n /\ j \in n + 1 .. n + m
      BY <1>0, <1>1, <2>2
    <3>2. g[i] = got[i] /\ got[i] < p /\ got[i] \in Nat /\ g[j] = p - 1 + (j - n)
      BY <1>0, <1>3, <1>4, <1>5, <3>1
    <3> HIDE DEF n, m
    <3> QED
      BY <1>0, <1>1, <3>1, <3>2
  <2>3. CASE ~(i <= n)
    <3>1. i \in n + 1 .. n + m /\ j \in n + 1 .. n + m
      BY <1>0, <1>1, <2>3
    <3>2. g[i] = p - 1 + (i - n) /\ g[j] = p - 1 + (j - n)
      BY <1>0, <1>5, <3>1
    <3> HIDE DEF n, m
    <3> QED
      BY <1>0, <1>1, <3>1, <3>2
  <2> QED
    BY <1>0, <1>1, <2>1, <2>2, <2>3
<1>7. ASSUME NEW i \in 1 .. n + m PROVE g[i] < q
  <2>1. CASE i <= n
    <3>1. i \in 1 .. n
      BY <1>0, <1>1, <2>1
    <3>2. g[i] = got[i] /\ got[i] \in Nat /\ got[i] < p /\ p <= q
      BY <1>0, <1>1, <1>3, <1>4, <3>1
    <3> QED
      BY <1>0, <3>2
  <2>2. CASE ~(i <= n)
    <3>1. i \in n + 1 .. n + m
      BY <1>0, <1>1, <2>2
    <3>2. g[i] = p - 1 + (i - n) /\ m <= q - p
      BY <1>0, <1>5, <3>1
    <3> HIDE DEF n, m
    <3> QED
      BY <1>0, <1>1, <3>1, <3>2
  <2> QED
    BY <1>0, <2>1, <2>2
<1>8. ASSUME th = 0 PROVE Exact(g) /\ Len(g) = q - 1
  <2>1. n = p - 1 /\ m = q - p /\ Exact(got)
    BY <1>0, <1>8
  <2>2. ASSUME NEW i \in 1 .. n + m PROVE g[i] = i
    <3>1. CASE i <= n
      <4>1. i \in 1 .. n
        BY <1>0, <1>1, <3>1
      <4> QED
        BY <1>0, <1>4, <2>1, <4>1 DEF Exact
    <3>2. CASE ~(i <= n)
      <4>1. i \in n + 1 .. n + m
        BY <1>0, <1>1, <3>2
      <4>2. g[i] = p - 1 + (i - n)
        BY <1>0, <1>5, <4>1
      <4> HIDE DEF n, m
      <4> QED
        BY <1>0, <1>1, <2>1, <4>2
    <3> QED
      BY <1>0, <3>1, <3>2
  <2>3. Exact(g)
    BY <1>0, <1>2, <2>2 DEF Exact
  <2>4. Len(g) = q - 1
    <3> HIDE DEF n, m
    <3> QED
      BY <1>0, <1>1, <1>2, <2>1
  <2> QED
    BY <1>0, <2>3, <2>4
<1>9. \A i \in 1 .. Len(g) : g[i] < q
  BY <1>0, <1>2, <1>7
<1> QED
  BY <1>2, <1>6, <1>8, <1>9 DEF g, Got

LEMMA LineStep ==
    ASSUME NEW t \in Transport, NEW s0, NEW s, NEW p0, NEW p, NEW q, NEW th, NEW line,
           Hearing(t, s0, s, p0, p, th), Carries(line, p, q, th)
    PROVE  Hearing(t, s0, Hear(t, s, line), p0, q, th)
<1> DEFINE r == Hear(t, s, line)
<1> SUFFICES Hearing(t, s0, r, p0, q, th)
  OBVIOUS
<1>1. /\ s \in ObjectType /\ Sound(s) /\ ~s.ir /\ s.dials = s0.dials
      /\ p0 \in Nat /\ p \in Nat /\ p >= p0 /\ (p = p0 => s = s0)
      /\ Tells(s, th) /\ UpTo(s, p, th)
      /\ \/ s.readyState # "closed" /\ s.transport = t
         \/ s.readyState = "closed" /\ s0.readyState = "open" /\ p0 = 0
  BY DEF Hearing
<1>2. q \in Nat /\ q > p /\ q # p0 /\ q >= p0 /\ t # 0 /\ q # 0
  BY <1>1, TransportFact DEF Carries
<1>3. CASE s.readyState = "closed"
  <2>1. t \notin s.heard
    BY <1>1, <1>3 DEF Sound
  <2>2. r = s
    BY <2>1 DEF Hear
  <2>3. UpTo(s, q, th)
    BY <1>3 DEF UpTo
  <2> HIDE DEF r
  <2> QED
    BY <1>1, <1>2, <1>3, <2>2, <2>3 DEF Hearing
<1>4. CASE s.readyState # "closed"
  <2>1. t \in s.heard /\ s.transport = t
    BY <1>1, <1>2, <1>4 DEF Sound
  <2>2. r = didMessage(s, line)
    BY <2>1 DEF Hear
  <2>3. s.readyState \in {"connecting", "open"} /\ s.got \in Seq(Message) /\ ~s.raised
    BY <1>1, <1>4 DEF ObjectType, Sound
  <2>4. CASE p = 0 /\ q = 1 /\ line = O
    <3>1. r = dispatchOpen(s)
      BY <2>2, <2>4 DEF didMessage, O
    <3>2. CASE s.readyState = "connecting"
      <4>1. r = [s EXCEPT !.readyState = "open", !.tref = FALSE]
        BY <3>1, <3>2 DEF dispatchOpen
      <4>2. s.got = <<>> /\ Len(s.got) = 0
        BY <1>1, <3>2, EmptySeq DEF Tells
      <4> HIDE DEF r
      <4>3. /\ r \in ObjectType /\ r.readyState = "open" /\ ~r.ir /\ r.dials = s.dials
            /\ r.transport = t /\ r.heard = s.heard /\ r.got = <<>> /\ ~r.raised
            /\ r.protocol = s.protocol
        BY <1>1, <2>1, <2>3, <4>1, <4>2 DEF ObjectType
      <4>4. Sound(r)
        BY <1>1, <1>2, <2>1, <4>3 DEF Sound
      <4>5. Tells(r, th) /\ UpTo(r, q, th)
        BY <2>4, <4>2, <4>3 DEF Tells, UpTo, Growing, Exact
      <4> QED
        BY <1>1, <1>2, <4>3, <4>4, <4>5 DEF Hearing
    <3>3. CASE s.readyState = "open"
      <4>1. r = didClose(s, FALSE)
        BY <3>1, <3>3 DEF dispatchOpen
      <4>2. Finished(s, r)
        BY <1>1, <3>3, <4>1, DidCloseFact
      <4> HIDE DEF r
      <4>3. /\ r \in ObjectType /\ Sound(r) /\ ~r.ir /\ r.got = s.got
            /\ r.readyState = "closed" /\ r.dials = s.dials
        BY <3>3, <4>2 DEF Finished, Ended, Waits, Tries
      <4>4. p0 = 0 /\ s = s0
        BY <1>1, <2>4
      <4>5. Tells(r, th) /\ UpTo(r, q, th)
        BY <1>1, <4>3 DEF Tells, UpTo
      <4> QED
        BY <1>1, <1>2, <3>3, <4>3, <4>4, <4>5 DEF Hearing
    <3> QED
      BY <2>3, <3>2, <3>3
  <2>5. CASE /\ p # 0 /\ q > p
             /\ line = A(line.messages) /\ line.messages \in Seq(Message)
             /\ Len(line.messages) <= q - p
             /\ th = 0 => Len(line.messages) = q - p
             /\ \A i \in 1 .. Len(line.messages) : line.messages[i] = p - 1 + i
    <3> DEFINE ms == line.messages
               g == s.got \o ms
    <3>1. line.type = "a"
      <4>1. A(ms).type = "a"
        BY DEF A
      <4> QED
        BY <2>5, <4>1
    <3>2. r = IF s.readyState = "open" THEN [s EXCEPT !.got = g] ELSE s
      BY <2>2, <3>1 DEF didMessage
    <3>3. CASE s.readyState = "connecting"
      <4>1. r = s
        BY <3>2, <3>3
      <4>2. UpTo(s, q, th)
        BY <3>3 DEF UpTo
      <4> HIDE DEF r
      <4> QED
        BY <1>1, <1>2, <3>3, <4>1, <4>2 DEF Hearing
    <3>4. CASE s.readyState = "open"
      <4>1. r = [s EXCEPT !.got = g]
        BY <3>2, <3>4
      <4>2. /\ Growing(s.got)
            /\ th = 0 => Exact(s.got) /\ Len(s.got) = p - 1
            /\ \A i \in 1 .. Len(s.got) : s.got[i] < p
        BY <1>1, <2>5, <3>4 DEF Tells, UpTo
      <4>3. /\ g \in Seq(Message)
            /\ Growing(g)
            /\ \A i \in 1 .. Len(g) : g[i] < q
            /\ th = 0 => Exact(g) /\ Len(g) = q - 1
        <5>1. Got(s.got, p, th)
          BY <2>3, <4>2 DEF Got
        <5>2. Brought(ms, p, q, th)
          BY <1>1, <1>2, <2>5 DEF Brought
        <5> HIDE DEF ms
        <5>3. Got(s.got \o ms, q, th)
          BY <5>1, <5>2, GrowsBy
        <5> QED
          BY <5>3 DEF Got
      <4> HIDE DEF r, g
      <4>4. /\ r \in ObjectType /\ r.readyState = "open" /\ ~r.ir /\ r.dials = s.dials
            /\ r.transport = t /\ r.heard = s.heard /\ r.got = g /\ ~r.raised
            /\ r.protocol = s.protocol
        BY <1>1, <2>1, <2>3, <3>4, <4>1, <4>3 DEF ObjectType
      <4>5. Sound(r)
        BY <1>1, <1>2, <2>1, <4>4 DEF Sound
      <4>6. Tells(r, th) /\ UpTo(r, q, th)
        BY <4>3, <4>4 DEF Tells, UpTo
      <4> QED
        BY <1>1, <1>2, <4>4, <4>5, <4>6 DEF Hearing
    <3> QED
      BY <2>3, <3>3, <3>4
  <2> QED
    BY <2>4, <2>5 DEF Carries
<1> QED
  BY <1>3, <1>4

\* An event brings any number of lines; pos[i] is the next line after i of them.
LEMMA HearsLines ==
    ASSUME NEW t \in Transport, NEW lines \in Seq(Frame), NEW pos, NEW th,
           Hearing(t, sockjs, sockjs, pos[0], pos[0], th),
           \A i \in 1 .. Len(lines) : Carries(lines[i], pos[i - 1], pos[i], th)
    PROVE  Hearing(t, sockjs, Hears(t, lines), pos[0], pos[Len(lines)], th)
<1> DEFINE n == Len(lines)
<1>1. PICK f : /\ f[0] = sockjs /\ f[n] = Hears(t, lines)
               /\ \A i \in 1 .. n : f[i] = Hear(t, f[i - 1], lines[i])
  BY HearsFact
<1> DEFINE Good == {k \in Nat : k <= n => Hearing(t, sockjs, f[k], pos[0], pos[k], th)}
<1>2. n \in Nat
  BY LenProperties
<1>3. 0 \in Good
  BY <1>1
<1>4. ASSUME NEW k \in Good \cap Nat PROVE k + 1 \in Good
  <2> SUFFICES ASSUME k + 1 <= n
               PROVE  Hearing(t, sockjs, f[k + 1], pos[0], pos[k + 1], th)
    OBVIOUS
  <2>1. k + 1 \in 1 .. n /\ k <= n /\ (k + 1) - 1 = k
    BY <1>2
  <2>2. Hearing(t, sockjs, f[k], pos[0], pos[k], th)
    BY <2>1
  <2>3. Carries(lines[k + 1], pos[k], pos[k + 1], th)
    BY <2>1
  <2>4. f[k + 1] = Hear(t, f[k], lines[k + 1])
    BY <1>1, <2>1
  <2>5. Hearing(t, sockjs, Hear(t, f[k], lines[k + 1]), pos[0], pos[k + 1], th)
    BY <2>2, <2>3, LineStep
  <2> QED
    BY <2>4, <2>5
<1>5. n \in Good
  <2> HIDE DEF Good, n
  <2> QED
    BY <1>2, <1>3, <1>4, SetInduction
<1> QED
  BY <1>1, <1>2, <1>5

Requests == [Transport -> [protocol : Protocol \cup {"none"},
                           now : {"none", "asked", "ended", "cut", "dead"}]]

LEMMA InvFacts ==
    ASSUME SockJSInv
    PROVE  /\ sockjs \in ObjectType /\ Sound(sockjs)
           /\ sockjs.dials \in Nat /\ failures \in Nat /\ failures <= MaxFailures
           /\ request \in Requests
           /\ session \in [Transport -> {"none", "open", "gone"}]
           /\ written \in [Transport -> Message \cup {0}]
           /\ box \in [Transport -> Seq(Frame)]
           /\ throws \in Nat
           /\ ~(closing /\ retry)
           /\ (sockjs.readyState = "closed") <=> (closing \/ retry)
<1>1. sockjs \in ObjectType /\ TypeOK
  BY DEF SockJSInv
<1>2. sockjs.dials \in Nat
  BY <1>1, DialsAreNumbers DEF ObjectType
<1> QED
  BY <1>1, <1>2, TransportFact DEF SockJSInv, TypeOK, Closed, Requests

\* The end of an object or of an attempt keeps the invariant, when a failure
\* allows for the next one.
LEMMA NextAttempt ==
    ASSUME SockJSInv, NEW x, NEW r, NEW rq \in Requests,
           sockjs.readyState # "closed",
           x.readyState = sockjs.readyState, x.dials = sockjs.dials, x.got = sockjs.got,
           Finished(x, r),
           sockjs' = r, closing' = (closing \/ r.readyState = "closed"),
           wait' = wait, loaded' \in BOOLEAN,
           request' = Asks(r, rq),
           \A t \in Transport : request[t].now = "none" => rq[t].now = "none",
           sockjs.dials <= failures', failures' \in 0 .. MaxFailures,
           UNCHANGED <<enabled, retry, server, box, throws>>
    PROVE  SockJSInv'
<1> USE DEF server
<1>1. /\ sockjs \in ObjectType /\ Sound(sockjs) /\ sockjs.dials \in Nat
      /\ session \in [Transport -> {"none", "open", "gone"}]
      /\ ~closing /\ ~retry
  BY InvFacts
<1>2. /\ r \in ObjectType /\ Sound(r) /\ ~r.ir /\ r.got = sockjs.got
      /\ \/ r.readyState = "closed" /\ r.dials = sockjs.dials
         \/ /\ sockjs.readyState = "connecting" /\ r.readyState = "connecting"
            /\ r.protocol = "waiting-for-load" /\ r.dials = sockjs.dials
         \/ /\ sockjs.readyState = "connecting" /\ r.readyState = "connecting"
            /\ r.dials = sockjs.dials + 1 /\ r.transport = r.dials
            /\ r.protocol \in Protocol
  BY DEF Finished, Ended, Waits, Tries
<1>3. r.dials \in Nat /\ r.dials >= sockjs.dials /\ r.readyState # "open"
      /\ failures' \in Nat
  BY <1>1, <1>2, TransportFact
<1>4. /\ request' \in Requests
      /\ \A t \in Transport : t > r.dials /\ rq[t].now = "none" => request'[t].now = "none"
      /\ r.dials = sockjs.dials + 1 => r.dials \in Transport /\ request'[r.dials].now = "asked"
  <2>1. CASE r.dials = sockjs.dials
    BY <1>1, <2>1 DEF Asks
  <2>2. CASE r.dials # sockjs.dials
    <3>1. /\ r.dials = sockjs.dials + 1 /\ r.protocol \in Protocol
          /\ r.dials \in Transport
      BY <1>1, <1>2, <2>2 DEF ObjectType
    <3>2. request' = [rq EXCEPT ![r.dials] = [protocol |-> r.protocol, now |-> "asked"]]
      BY <2>2 DEF Asks
    <3>3. \A t \in Transport : t > r.dials => t # r.dials
      BY <1>3
    <3> QED
      BY <3>1, <3>2, <3>3 DEF Requests
  <2> QED
    BY <2>1, <2>2
<1>5. TypeOK'
  BY <1>2, <1>4 DEF SockJSInv, TypeOK, ObjectType, Requests
<1>6. Closed'
  BY <1>1, <1>2 DEF Closed
<1>7. Boxes'
  BY DEF SockJSInv, Boxes
<1>8. Told'
  <2>1. Tells(sockjs, throws)
    BY DEF SockJSInv, Told
  <2>2. Tells(r, throws)
    BY <1>2, <2>1 DEF Tells
  <2>3. \A p : UpTo(r, p, throws)
    BY <1>3 DEF UpTo
  <2> QED
    BY <2>2, <2>3 DEF Told
<1>9. Unused'
  <2> SUFFICES ASSUME NEW t \in Transport, t > r.dials
               PROVE  request'[t].now = "none" /\ session[t] = "none"
    BY DEF Unused
  <2>1. t > sockjs.dials
    BY <1>1, <1>3, TransportFact
  <2> QED
    BY <1>4, <2>1 DEF SockJSInv, Unused
<1>10. Begun'
  BY <1>3 DEF Begun
<1>11. Budget'
  <2>1. CASE r.dials = sockjs.dials
    BY <1>1, <1>3, <2>1 DEF Budget
  <2>2. CASE r.dials # sockjs.dials
    <3>1. /\ r.readyState = "connecting" /\ r.dials = sockjs.dials + 1
          /\ r.transport = r.dials /\ r.protocol \in Protocol
      BY <1>2, <2>2
    <3>2. r.heard = {r.dials} /\ r.protocol # "waiting-for-load"
      <4>1. r.transport # 0
        BY <1>1, <3>1
      <4>2. r.heard = {r.transport}
        BY <1>2, <4>1 DEF Sound
      <4>3. r.protocol # "waiting-for-load"
        BY <3>1 DEF Protocol
      <4> QED
        BY <3>1, <4>2, <4>3
    <3>3. /\ r.dials \in Transport /\ request'[r.dials].now = "asked"
          /\ session[r.dials] = "none"
      <4>1. r.dials > sockjs.dials
        BY <1>1, <3>1
      <4> QED
        BY <1>4, <3>1, <4>1 DEF SockJSInv, Unused
    <3>4. ~Damaged(r.dials)'
      BY <3>1, <3>3 DEF Damaged
    <3>5. ~Owed'
      BY <1>1, <1>2, <3>1, <3>2, <3>4 DEF Owed
    <3> QED
      BY <1>1, <1>3, <3>1, <3>5 DEF Budget
  <2> QED
    BY <2>1, <2>2
<1> QED
  BY <1>2, <1>5, <1>6, <1>7, <1>8, <1>9, <1>10, <1>11 DEF SockJSInv

LEMMA FailsFact ==
    ASSUME SockJSInv, Fails
    PROVE  /\ failures' \in 0 .. MaxFailures /\ failures' \in Nat
           /\ sockjs.dials <= failures' /\ failures' <= MaxFailures
<1>1. /\ failures' = failures + 1 /\ failures < MaxFailures
      /\ sockjs.dials <= failures + 1
  BY DEF Fails, SockJSInv, Budget
<1>2. sockjs.dials \in Nat /\ failures \in Nat /\ MaxFailures \in Nat
  BY InvFacts, TransportFact
<1> QED
  BY <1>1, <1>2

LEMMA OwedFact ==
    ASSUME SockJSInv, Owed
    PROVE  /\ sockjs.dials <= failures /\ failures \in 0 .. MaxFailures
           /\ sockjs.dials + 1 \in Transport
<1>1. sockjs.dials <= failures
  BY DEF SockJSInv, Budget
<1>2. /\ sockjs.dials \in Nat /\ failures \in Nat /\ MaxFailures \in Nat
      /\ failures <= MaxFailures
  BY InvFacts, TransportFact
<1>3. sockjs.dials <= MaxFailures
  BY <1>1, <1>2
<1> QED
  BY <1>1, <1>2, <1>3, TransportFact

LEMMA DetectsProtocols ==
    ASSUME enabled \subseteq Protocol, NEW websocket \in BOOLEAN
    PROVE  detectProtocols(websocket) \in Seq(Protocol)
<1> DEFINE one(p, or) == IF p \in enabled THEN <<p>> ELSE or
<1>1. <<>> \in Seq(Protocol) /\ <<"jsonp-polling">> \in Seq(Protocol)
  BY DEF Protocol
<1>2. \A p \in Protocol : <<p>> \in Seq(Protocol)
  OBVIOUS
<1>3. one("websocket", <<>>) \in Seq(Protocol)
  BY <1>1, <1>2 DEF Protocol
<1>4. one("xhr-streaming", <<>>) \in Seq(Protocol)
  BY <1>1, <1>2 DEF Protocol
<1>5. one("xhr-polling", <<"jsonp-polling">>) \in Seq(Protocol)
  BY <1>1, <1>2 DEF Protocol
<1>6. detectProtocols(websocket) =
         (IF websocket THEN one("websocket", <<>>) ELSE <<>>)
            \o one("xhr-streaming", <<>>) \o one("xhr-polling", <<"jsonp-polling">>)
  BY DEF detectProtocols
<1> HIDE DEF one
<1>7. (IF websocket THEN one("websocket", <<>>) ELSE <<>>) \in Seq(Protocol)
  BY <1>1, <1>3
<1> QED
  BY <1>4, <1>5, <1>6, <1>7, ConcatProperties

\* What Follows says of an attempt that ends.
LEMMA FollowsEnd ==
    ASSUME sockjs.readyState # "closed", NEW x, NEW r, Finished(x, r), Follows(r)
    PROVE  /\ sockjs' = r /\ wait' = wait
           /\ closing' = (closing \/ r.readyState = "closed")
<1>1. r.readyState # "open"
  BY DEF Finished, Ended, Waits, Tries
<1> QED
  BY <1>1 DEF Follows

LEMMA InfoArrivesKeeps ==
    ASSUME SockJSInv, InfoArrives
    PROVE  SockJSInv'
<1>1. PICK websocket \in BOOLEAN :
         LET s == didClose([sockjs EXCEPT !.ir = FALSE,
                                          !.protocols = detectProtocols(websocket)],
                           FALSE)
         IN Follows(s) /\ request' = Asks(s, request)
  BY DEF InfoArrives
<1> DEFINE ps == detectProtocols(websocket)
           x == [sockjs EXCEPT !.ir = FALSE, !.protocols = ps]
           r == didClose(x, FALSE)
<1>2. /\ sockjs \in ObjectType /\ Sound(sockjs) /\ sockjs.ir
      /\ request \in Requests /\ failures \in Nat
  BY InvFacts DEF InfoArrives
<1>3. sockjs.dials <= failures /\ failures \in 0 .. MaxFailures
      /\ sockjs.dials + 1 \in Transport
  BY <1>2, OwedFact DEF Owed
<1>4. ps \in Seq(Protocol)
  <2>1. enabled \subseteq Protocol
    BY BrowserAssumption DEF SockJSInv, TypeOK
  <2> QED
    BY <2>1, DetectsProtocols
<1>5. /\ Follows(r) /\ request' = Asks(r, request)
      /\ UNCHANGED <<enabled, loaded, retry, server, box, failures, throws>>
  BY <1>1 DEF InfoArrives
<1> HIDE DEF ps
<1>6. /\ x \in ObjectType /\ x.readyState = sockjs.readyState /\ x.dials = sockjs.dials
      /\ x.got = sockjs.got /\ x.heard = sockjs.heard /\ x.transport = sockjs.transport
      /\ x.protocol = sockjs.protocol /\ ~x.ir /\ x.raised = sockjs.raised
  BY <1>2, <1>4 DEF ObjectType
<1>7. sockjs.readyState = "connecting" /\ sockjs.protocol # "waiting-for-load"
  BY <1>2 DEF Sound
<1> HIDE DEF x
<1>8. Sound(x)
  BY <1>2, <1>6, <1>7 DEF Sound
<1>9. Finished(x, r)
  BY <1>3, <1>6, <1>7, <1>8, DidCloseFact
<1> HIDE DEF r
<1>10. /\ sockjs' = r /\ wait' = wait
       /\ closing' = (closing \/ r.readyState = "closed")
  BY <1>5, <1>7, <1>9, FollowsEnd
<1>11. loaded' \in BOOLEAN
  BY <1>5 DEF SockJSInv, TypeOK
<1> QED
  BY <1>2, <1>3, <1>5, <1>6, <1>7, <1>9, <1>10, <1>11, NextAttempt

LEMMA InfoFailsKeeps ==
    ASSUME SockJSInv, InfoFails
    PROVE  SockJSInv'
<1> DEFINE x == [sockjs EXCEPT !.ir = FALSE]
           r == didClose(x, TRUE)
<1>1. /\ sockjs \in ObjectType /\ Sound(sockjs) /\ sockjs.ir /\ request \in Requests
  BY InvFacts DEF InfoFails
<1>2. /\ failures' \in 0 .. MaxFailures
      /\ sockjs.dials <= failures'
  BY FailsFact DEF InfoFails
<1>3. /\ Follows(r)
      /\ UNCHANGED <<enabled, loaded, retry, request, server, box, throws>>
  BY DEF InfoFails
<1>4. /\ x \in ObjectType /\ x.readyState = sockjs.readyState /\ x.dials = sockjs.dials
      /\ x.got = sockjs.got /\ x.heard = sockjs.heard /\ x.transport = sockjs.transport
      /\ x.protocol = sockjs.protocol /\ ~x.ir /\ x.raised = sockjs.raised
  BY <1>1 DEF ObjectType
<1>5. sockjs.readyState = "connecting" /\ sockjs.protocol # "waiting-for-load"
  BY <1>1 DEF Sound
<1> HIDE DEF x
<1>6. Sound(x)
  BY <1>1, <1>4, <1>5 DEF Sound
<1>7. Finished(x, r) /\ Ended(x, r)
  BY <1>4, <1>5, <1>6, DidCloseFact
<1> HIDE DEF r
<1>8. /\ sockjs' = r /\ wait' = wait
      /\ closing' = (closing \/ r.readyState = "closed")
  BY <1>3, <1>5, <1>7, FollowsEnd
<1>9. request' = Asks(r, request)
  BY <1>3, <1>4, <1>7 DEF Asks, Ended
<1>10. loaded' \in BOOLEAN
  BY <1>3 DEF SockJSInv, TypeOK
<1>11. UNCHANGED <<enabled, retry, server, box, throws>>
  BY <1>3
<1>12. sockjs.readyState # "closed"
  BY <1>5
<1> QED
  BY <1>1, <1>2, <1>4, <1>7, <1>8, <1>9, <1>10, <1>11, <1>12, NextAttempt

LEMMA TimeoutKeeps ==
    ASSUME SockJSInv, Timeout
    PROVE  SockJSInv'
<1> DEFINE x == [sockjs EXCEPT !.tref = FALSE]
           r == didClose(x, FALSE)
<1>1. /\ sockjs \in ObjectType /\ Sound(sockjs) /\ request \in Requests
      /\ sockjs.readyState = "connecting" /\ sockjs.dials \in Nat
  BY InvFacts DEF Timeout
<1>2. /\ failures' \in 0 .. MaxFailures /\ failures' \in Nat
      /\ sockjs.dials <= failures' /\ failures' <= MaxFailures
  BY FailsFact DEF Timeout
<1>3. /\ Follows(r) /\ request' = Asks(r, request)
      /\ UNCHANGED <<enabled, loaded, retry, server, box, throws>>
  BY DEF Timeout
<1>4. /\ x \in ObjectType /\ x.readyState = sockjs.readyState /\ x.dials = sockjs.dials
      /\ x.got = sockjs.got /\ x.heard = sockjs.heard /\ x.transport = sockjs.transport
      /\ x.protocol = sockjs.protocol /\ x.ir = sockjs.ir /\ x.raised = sockjs.raised
      /\ x.protocols = sockjs.protocols
  BY <1>1 DEF ObjectType
<1> HIDE DEF x
<1>5. Sound(x)
  BY <1>1, <1>4 DEF Sound
<1>6. sockjs.dials + 1 \in Transport
  <2>1. sockjs.dials <= MaxFailures
    BY <1>1, <1>2, TransportFact
  <2> QED
    BY <1>1, <2>1, TransportFact
<1>7. Finished(x, r)
  BY <1>1, <1>4, <1>5, <1>6, DidCloseFact
<1> HIDE DEF r
<1>8. /\ sockjs' = r /\ wait' = wait
      /\ closing' = (closing \/ r.readyState = "closed")
  BY <1>1, <1>3, <1>7, FollowsEnd
<1>9. loaded' \in BOOLEAN
  BY <1>3 DEF SockJSInv, TypeOK
<1>10. UNCHANGED <<enabled, retry, server, box, throws>>
  BY <1>3
<1>11. sockjs.readyState # "closed"
  BY <1>1
<1> QED
  BY <1>1, <1>2, <1>3, <1>4, <1>7, <1>8, <1>9, <1>10, <1>11, NextAttempt

LEMMA LoadKeeps ==
    ASSUME SockJSInv, Load
    PROVE  SockJSInv'
<1> DEFINE n == try_next_protocol(sockjs, TRUE)
           s == IF sockjs.protocol = "waiting-for-load" THEN n ELSE sockjs
<1>1. /\ sockjs' = s /\ request' = Asks(s, request) /\ loaded' = TRUE
      /\ UNCHANGED <<enabled, closing, retry, wait, server, box, failures, throws>>
  BY DEF Load
<1>2. /\ sockjs \in ObjectType /\ Sound(sockjs) /\ request \in Requests
      /\ sockjs.dials \in Nat
  BY InvFacts
<1>3. CASE sockjs.protocol = "waiting-for-load"
  <2>1. /\ sockjs.readyState = "connecting" /\ sockjs.transport = 0 /\ ~sockjs.ir
        /\ sockjs.protocols # <<>> /\ sockjs.heard = {} /\ ~sockjs.raised
    BY <1>2, <1>3 DEF Sound
  <2>2. sockjs.dials <= failures /\ failures \in 0 .. MaxFailures
        /\ sockjs.dials + 1 \in Transport
    BY <1>3, OwedFact DEF Owed
  <2>3. Tried(sockjs, n) /\ n.protocol \in Protocol
    BY <1>2, <2>1, <2>2, TryFact
  <2>4. sockjs' = n /\ request' = Asks(n, request)
    BY <1>1, <1>3
  <2> HIDE DEF n, s
  <2>5. /\ n \in ObjectType /\ n.readyState = "connecting" /\ ~n.ir /\ n.got = sockjs.got
        /\ n.dials = sockjs.dials + 1 /\ n.transport = n.dials /\ n.heard = {n.dials}
        /\ ~n.raised /\ n.protocol # "waiting-for-load"
    BY <2>1, <2>3 DEF Tried, Protocol
  <2>6. n.dials # 0 /\ n.transport <= n.dials
    BY <1>2, <2>5
  <2>7. Sound(n)
    BY <2>5, <2>6 DEF Sound
  <2>8. Finished(sockjs, n)
    BY <2>1, <2>3, <2>5, <2>7 DEF Finished, Tries
  <2>9. closing' = (closing \/ n.readyState = "closed")
    <3>1. closing \in BOOLEAN
      BY DEF SockJSInv, TypeOK
    <3> QED
      BY <1>1, <2>5, <3>1
  <2>10. failures' = failures /\ wait' = wait /\ loaded' \in BOOLEAN
    BY <1>1
  <2>11. UNCHANGED <<enabled, retry, server, box, throws>>
    BY <1>1
  <2>12. sockjs.readyState # "closed"
    BY <2>1
  <2>13. sockjs.dials <= failures' /\ failures' \in 0 .. MaxFailures
    BY <2>2, <2>10
  <2> QED
    BY <1>2, <2>4, <2>8, <2>9, <2>10, <2>11, <2>12, <2>13, NextAttempt
<1>4. CASE sockjs.protocol # "waiting-for-load"
  <2>1. sockjs' = sockjs /\ request' = request
    BY <1>1, <1>4 DEF Asks
  <2> HIDE DEF s
  <2>2. UNCHANGED <<enabled, sockjs, closing, retry, wait, request, session, written,
                    box, failures, throws>>
    BY <1>1, <2>1 DEF server
  <2>3. TypeOK'
    BY <1>1, <2>2 DEF SockJSInv, TypeOK
  <2> QED
    BY <2>2, <2>3 DEF SockJSInv, Closed, Boxes, Told, Upcoming, Unused, Begun, Budget,
                      Owed, Damaged
<1> QED
  BY <1>3, <1>4

\* C is one line, and ends an attempt or the object.
LEMMA HearsEnd ==
    ASSUME NEW t \in sockjs.heard
    PROVE  Hears(t, <<C>>) = didClose(sockjs, FALSE)
<1>1. <<C>> \in Seq(Frame) /\ Len(<<C>>) = 1
  <2>1. C \in Frame
    BY DEF C, Frame
  <2> QED
    BY <2>1
<1>2. PICK f : /\ f[0] = sockjs /\ f[Len(<<C>>)] = Hears(t, <<C>>)
               /\ \A i \in 1 .. Len(<<C>>) : f[i] = Hear(t, f[i - 1], <<C>>[i])
  BY <1>1, HearsFact
<1>3. f[0] = sockjs /\ f[1] = Hears(t, <<C>>) /\ f[1] = Hear(t, f[0], C)
  BY <1>1, <1>2
<1>4. Hear(t, sockjs, C) = didMessage(sockjs, C)
  BY DEF Hear
<1>5. didMessage(sockjs, C) = didClose(sockjs, FALSE)
  BY DEF didMessage, C
<1> QED
  BY <1>3, <1>4, <1>5

LEMMA BreaksKeeps ==
    ASSUME SockJSInv, NEW t \in Transport, Breaks(t)
    PROVE  SockJSInv'
<1> DEFINE r == didClose(sockjs, FALSE)
           rq == [request EXCEPT ![t].now = "none"]
<1>1. t \in sockjs.heard /\ request[t].now = "cut"
      /\ UNCHANGED <<enabled, loaded, retry, server, box, failures, throws>>
  BY DEF Breaks, Heard
<1>2. Follows(r) /\ request' = Asks(r, rq)
  BY <1>1, HearsEnd DEF Breaks
<1>3. /\ sockjs \in ObjectType /\ Sound(sockjs) /\ request \in Requests
  BY InvFacts
<1>4. /\ sockjs.dials <= failures /\ failures \in 0 .. MaxFailures
      /\ sockjs.dials + 1 \in Transport
  BY <1>1, OwedFact DEF Owed, Damaged
<1>5. sockjs.readyState # "closed"
  BY <1>1, <1>3 DEF Sound
<1>6. Finished(sockjs, r)
  BY <1>3, <1>4, <1>5, DidCloseFact
<1>7. rq \in Requests
      /\ \A u \in Transport : request[u].now = "none" => rq[u].now = "none"
  BY <1>3 DEF Requests
<1> HIDE DEF r, rq
<1>8. /\ sockjs' = r /\ wait' = wait
      /\ closing' = (closing \/ r.readyState = "closed")
  BY <1>2, <1>5, <1>6, FollowsEnd
<1>9. loaded' \in BOOLEAN
  BY <1>1 DEF SockJSInv, TypeOK
<1>10. UNCHANGED <<enabled, retry, server, box, throws>>
  BY <1>1
<1>11. sockjs.dials <= failures' /\ failures' \in 0 .. MaxFailures
  BY <1>1, <1>4
<1> QED
  BY <1>2, <1>5, <1>6, <1>7, <1>8, <1>9, <1>10, <1>11, NextAttempt
-----------------------------------------------------------------------------
LEMMA NextWaitFact ==
    ASSUME NEW w \in FirstWait .. LongestWait
    PROVE  NextWait(w) \in FirstWait .. LongestWait
  BY WaitAssumption DEF NextWait

LEMMA OnCloseKeeps ==
    ASSUME SockJSInv, OnClose
    PROVE  SockJSInv'
<1> USE DEF OnClose, server
<1>1. TypeOK'
  <2>1. wait \in FirstWait .. LongestWait
    BY DEF SockJSInv, TypeOK
  <2>2. wait' \in FirstWait .. LongestWait
    BY <2>1, NextWaitFact
  <2> QED
    BY <2>2 DEF SockJSInv, TypeOK
<1>2. Closed'
  BY DEF SockJSInv, Closed
<1>3. Budget'
  BY DEF SockJSInv, Budget, Owed, Damaged, Upcoming
<1> QED
  BY <1>1, <1>2, <1>3 DEF SockJSInv, Boxes, Told, Upcoming, Unused, Begun

LEMMA NewSockJSconnKeeps ==
    ASSUME SockJSInv, newSockJSconn
    PROVE  SockJSInv'
<1> USE DEF newSockJSconn, server
<1>1. /\ sockjs \in ObjectType /\ Sound(sockjs) /\ sockjs.dials \in Nat
      /\ ~closing /\ failures \in Nat
  BY InvFacts
<1> DEFINE d == sockjs.dials
           s == [Fresh EXCEPT !.dials = d, !.raised = FALSE]
<1>2. sockjs' = s /\ d \in Transport \cup {0} /\ d \in Nat
  <2>1. sockjs.raised = FALSE
    BY <1>1 DEF Sound, ObjectType
  <2> QED
    BY <1>1, <2>1 DEF ObjectType
<1> HIDE DEF d
<1>3. <<>> \in Seq(Protocol) /\ <<>> \in Seq(Message) /\ Len(<<>>) = 0
  OBVIOUS
<1>4. /\ s \in ObjectType
      /\ s.readyState = "connecting" /\ s.ir /\ s.protocol = "none"
      /\ s.transport = 0 /\ s.heard = {} /\ s.dials = d /\ s.got = <<>> /\ ~s.raised
  BY <1>2, <1>3 DEF ObjectType, Fresh
<1> HIDE DEF s
<1>5. Sound(s)
  <2>1. s.transport <= s.dials
    BY <1>2, <1>4
  <2> QED
    BY <1>4, <2>1 DEF Sound
<1>6. TypeOK'
  BY <1>2, <1>4 DEF SockJSInv, TypeOK, ObjectType
<1>7. Closed'
  BY <1>1, <1>2, <1>4 DEF Closed
<1>8. Told'
  <2>1. \A i \in 1 .. Len(s.got) : FALSE
    BY <1>3, <1>4
  <2>2. Growing(s.got) /\ Exact(s.got)
    BY <2>1 DEF Growing, Exact
  <2>3. Tells(s, throws)
    BY <1>4, <2>2 DEF Tells
  <2> QED
    BY <1>2, <1>4, <2>3 DEF Told
<1>9. Unused' /\ Begun'
  BY <1>2, <1>4 DEF SockJSInv, Unused, Begun, d
<1>10. Budget'
  <2>1. sockjs.dials <= failures
    BY OwedFact DEF Owed
  <2>2. sockjs.dials <= failures + 1
    BY <1>1, <2>1
  <2> QED
    BY <1>2, <1>4, <2>1, <2>2 DEF Budget, d
<1> QED
  BY <1>2, <1>4, <1>5, <1>6, <1>7, <1>8, <1>9, <1>10 DEF SockJSInv, Boxes
-----------------------------------------------------------------------------
LEMMA LineFact ==
    /\ O \in Frame /\ Line(0) = O
    /\ \A j \in Message :
          /\ Line(j) = A(<<j>>) /\ Line(j) \in Frame /\ Line(j) # O
          /\ Line(j).messages = <<j>>
<1>1. <<>> \in Seq(Message) /\ \A j \in Message : <<j>> \in Seq(Message)
  OBVIOUS
<1>2. O \in Frame /\ Line(0) = O
  BY <1>1 DEF O, Frame, Line
<1>3. ASSUME NEW j \in Message
      PROVE  /\ Line(j) = A(<<j>>) /\ Line(j) \in Frame /\ Line(j) # O
             /\ Line(j).messages = <<j>>
  <2>1. j # 0
    BY DEF Message
  <2>2. Line(j) = A(<<j>>)
    BY <2>1 DEF Line
  <2>3. A(<<j>>) \in Frame /\ A(<<j>>).messages = <<j>> /\ A(<<j>>).type = "a"
    BY <1>1 DEF A, Frame
  <2>4. O.type = "o"
    BY DEF O
  <2> QED
    BY <2>2, <2>3, <2>4
<1> QED
  BY <1>2, <1>3

\* A session that ends keeps nothing in its box.
LEMMA EmptyBox ==
    ASSUME NEW w \in Message \cup {0}
    PROVE  Numbered(<<>>, w) /\ <<>> \in Seq(Frame)
<1>1. w \in Nat /\ Len(<<>>) = 0
  BY DEF Message
<1> QED
  BY <1>1 DEF Numbered

LEMMA ServerOpensKeeps ==
    ASSUME SockJSInv, NEW t \in Transport, ServerOpens(t)
    PROVE  SockJSInv'
<1> DEFINE b == <<O, A(<<1>>)>>
<1> USE DEF ServerOpens, page
<1>1. /\ sockjs \in ObjectType /\ Sound(sockjs)
      /\ session \in [Transport -> {"none", "open", "gone"}]
      /\ written \in [Transport -> Message \cup {0}]
      /\ box \in [Transport -> Seq(Frame)]
      /\ request[t].now = "asked" /\ session[t] # "open"
      /\ session' = [session EXCEPT ![t] = "open"]
      /\ box' = [box EXCEPT ![t] = b]
      /\ written' = [written EXCEPT ![t] = 1]
      /\ UNCHANGED <<enabled, sockjs, loaded, closing, retry, wait, request, failures, throws>>
  BY InvFacts
<1>2. 1 \in Message
  BY TransportFact DEF Message
<1>3. b \in Seq(Frame) /\ Len(b) = 2 /\ b[1] = Line(0) /\ b[2] = Line(1)
  BY <1>2, LineFact
<1>4. Numbered(b, 1)
  <2>1. \A i \in 1 .. 2 : b[i] = Line(1 - 2 + i)
    <3>1. b[1] = Line(1 - 2 + 1) /\ b[2] = Line(1 - 2 + 2)
      BY <1>3
    <3>2. \A i \in 1 .. 2 : i = 1 \/ i = 2
      OBVIOUS
    <3> HIDE DEF b
    <3> QED
      BY <3>1, <3>2
  <2> HIDE DEF b
  <2> QED
    BY <1>3, <2>1 DEF Numbered
<1> HIDE DEF b
<1>5. TypeOK'
  <2>1. session' \in [Transport -> {"none", "open", "gone"}]
    BY <1>1
  <2>2. written' \in [Transport -> Message \cup {0}]
    BY <1>1, <1>2
  <2>3. box' \in [Transport -> Seq(Frame)]
    BY <1>1, <1>3
  <2> QED
    BY <1>1, <2>1, <2>2, <2>3 DEF SockJSInv, TypeOK
<1>6. Boxes'
  <2> SUFFICES ASSUME NEW u \in Transport
               PROVE  /\ session'[u] # "open" => box'[u] = <<>>
                      /\ Numbered(box'[u], written'[u])
    BY DEF Boxes
  <2>1. CASE u = t
    BY <1>1, <1>4, <2>1
  <2>2. CASE u # t
    BY <1>1, <2>2 DEF SockJSInv, Boxes
  <2> QED
    BY <2>1, <2>2
<1>7. Upcoming(t)' = 0
  BY <1>1, <1>3 DEF Upcoming
<1>8. \A u \in Transport : u # t => session'[u] = session[u] /\ Upcoming(u)' = Upcoming(u)
  BY <1>1 DEF Upcoming
<1>9. Told'
  <2> SUFFICES ASSUME NEW u \in sockjs.heard, session'[u] = "open"
               PROVE  UpTo(sockjs, Upcoming(u)', throws)
    BY <1>1 DEF SockJSInv, Told
  <2>1. u \in Transport
    BY <1>1 DEF ObjectType
  <2>2. CASE u = t
    BY <1>7, <2>2 DEF UpTo
  <2>3. CASE u # t
    BY <1>8, <2>1, <2>3 DEF SockJSInv, Told
  <2> QED
    BY <2>2, <2>3
<1>10. Unused'
  <2>1. ~(t > sockjs.dials)
    BY <1>1 DEF SockJSInv, Unused
  <2> QED
    BY <1>1, <2>1 DEF SockJSInv, Unused
<1>11. Begun'
  <2> SUFFICES ASSUME sockjs.readyState = "open"
               PROVE  sockjs.transport # 0 /\ session'[sockjs.transport] # "none"
    BY <1>1 DEF Begun
  <2>1. sockjs.transport # 0 /\ session[sockjs.transport] # "none"
        /\ sockjs.transport \in Transport
    BY <1>1 DEF SockJSInv, Begun, ObjectType
  <2> QED
    BY <1>1, <2>1
<1>12. Owed' => Owed
  <2>1. ASSUME NEW u \in sockjs.heard, Damaged(u)' PROVE Damaged(u)
    <3>1. u \in Transport
      BY <1>1 DEF ObjectType
    <3>2. CASE u = t
      <4>1. session'[t] = "open" /\ request'[t].now = "asked"
        BY <1>1
      <4>2. sockjs.readyState = "open"
        BY <1>1, <2>1, <3>2, <4>1 DEF Damaged
      <4>3. sockjs.transport = t
        BY <1>1, <3>2 DEF Sound
      <4>4. session[t] = "gone"
        BY <1>1, <4>2, <4>3 DEF SockJSInv, Begun
      <4> QED
        BY <3>2, <4>4 DEF Damaged
    <3>3. CASE u # t
      BY <1>1, <1>8, <2>1, <3>1, <3>3 DEF Damaged
    <3> QED
      BY <3>2, <3>3
  <2> QED
    BY <1>1, <2>1 DEF Owed
<1>13. Budget'
  BY <1>1, <1>12 DEF SockJSInv, Budget
<1> QED
  BY <1>1, <1>5, <1>6, <1>9, <1>10, <1>11, <1>13 DEF SockJSInv, Closed

LEMMA ServerWritesKeeps ==
    ASSUME SockJSInv, NEW t \in Transport, ServerWrites(t)
    PROVE  SockJSInv'
<1> DEFINE w == written[t]
           b == box[t]
           c == Append(b, A(<<w + 1>>))
<1> USE DEF ServerWrites, page
<1>1. /\ sockjs \in ObjectType /\ Sound(sockjs)
      /\ session[t] = "open"
      /\ written \in [Transport -> Message \cup {0}]
      /\ box \in [Transport -> Seq(Frame)]
      /\ w < MaxMessages
      /\ box' = [box EXCEPT ![t] = c]
      /\ written' = [written EXCEPT ![t] = w + 1]
      /\ UNCHANGED <<enabled, sockjs, loaded, closing, retry, wait, request, session,
                     failures, throws>>
  BY InvFacts
<1>2. /\ w + 1 \in Message /\ w \in Nat /\ b \in Seq(Frame) /\ Len(b) \in Nat
      /\ Numbered(b, w)
  <2>1. w \in Nat
    BY <1>1 DEF Message
  <2>2. b \in Seq(Frame)
    BY <1>1
  <2> QED
    BY <1>1, <2>1, <2>2, TransportFact, LenProperties DEF Message, SockJSInv, Boxes
<1>3. /\ c \in Seq(Frame) /\ Len(c) = Len(b) + 1
      /\ \A i \in 1 .. Len(b) : c[i] = b[i]
      /\ c[Len(b) + 1] = Line(w + 1)
  <2>1. A(<<w + 1>>) \in Frame /\ A(<<w + 1>>) = Line(w + 1)
    BY <1>2, LineFact
  <2> HIDE DEF b, w
  <2> QED
    BY <1>2, <2>1, AppendProperties
<1> HIDE DEF b, w, c
<1>4. Numbered(c, w + 1)
  <2>1. Len(c) <= (w + 1) + 1
    BY <1>2, <1>3 DEF Numbered
  <2>2. ASSUME NEW i \in 1 .. Len(c) PROVE c[i] = Line((w + 1) - Len(c) + i)
    <3>1. (w + 1) - Len(c) + i = w - Len(b) + i
      BY <1>2, <1>3
    <3>2. CASE i = Len(b) + 1
      <4>1. w - Len(b) + i = w + 1
        BY <1>2, <3>2
      <4> QED
        BY <1>3, <3>1, <3>2, <4>1
    <3>3. CASE i # Len(b) + 1
      <4>1. i \in 1 .. Len(b)
        BY <1>2, <1>3, <3>3
      <4> QED
        BY <1>2, <1>3, <3>1, <4>1 DEF Numbered
    <3> QED
      BY <3>2, <3>3
  <2> QED
    BY <2>1, <2>2 DEF Numbered
<1>5. TypeOK'
  BY <1>1, <1>2, <1>3 DEF SockJSInv, TypeOK
<1>6. Boxes'
  <2> SUFFICES ASSUME NEW u \in Transport
               PROVE  /\ session[u] # "open" => box'[u] = <<>>
                      /\ Numbered(box'[u], written'[u])
    BY <1>1 DEF Boxes
  <2>1. CASE u = t
    BY <1>1, <1>4, <2>1
  <2>2. CASE u # t
    BY <1>1, <2>2 DEF SockJSInv, Boxes
  <2> QED
    BY <2>1, <2>2
<1>7. \A u \in Transport : Upcoming(u)' = Upcoming(u)
  <2>1. Upcoming(t)' = Upcoming(t)
    <3>1. Upcoming(t)' = (w + 1) - Len(c) + 1 /\ Upcoming(t) = w - Len(b) + 1
      BY <1>1 DEF Upcoming, w, b
    <3> QED
      BY <1>2, <1>3, <3>1
  <2>2. \A u \in Transport : u # t => Upcoming(u)' = Upcoming(u)
    BY <1>1 DEF Upcoming
  <2> QED
    BY <2>1, <2>2
<1>8. \A u \in sockjs.heard : u \in Transport
  BY <1>1 DEF ObjectType
<1>9. Told'
  BY <1>1, <1>7, <1>8 DEF SockJSInv, Told
<1>10. Unused' /\ Begun'
  BY <1>1 DEF SockJSInv, Unused, Begun
<1>11. Budget'
  <2>1. \A u \in sockjs.heard : Damaged(u)' = Damaged(u)
    BY <1>1, <1>7, <1>8 DEF Damaged
  <2> QED
    BY <1>1, <2>1 DEF SockJSInv, Budget, Owed
<1> QED
  BY <1>1, <1>5, <1>6, <1>9, <1>10, <1>11 DEF SockJSInv, Closed

\* Sessions that end and requests that are cut cost a failure.
LEMMA FailureKeeps ==
    ASSUME SockJSInv, Fails,
           request' \in Requests,
           session' \in [Transport -> {"none", "open", "gone"}],
           box' \in [Transport -> Seq(Frame)],
           \A t \in Transport :
              /\ request[t].now = "none" => request'[t].now = "none"
              /\ session'[t] = "none" <=> session[t] = "none"
              /\ session'[t] = "open" => session[t] = "open"
              /\ box'[t] = IF session'[t] = "open" THEN box[t] ELSE <<>>,
           UNCHANGED <<enabled, sockjs, page, written, throws>>
    PROVE  SockJSInv'
<1> USE DEF page
<1>1. /\ sockjs \in ObjectType /\ Sound(sockjs)
      /\ written \in [Transport -> Message \cup {0}]
  BY InvFacts
<1>2. /\ failures' \in 0 .. MaxFailures /\ failures' \in Nat
      /\ sockjs.dials <= failures'
  BY FailsFact
<1>3. TypeOK'
  BY <1>2 DEF SockJSInv, TypeOK, Requests
<1>4. Boxes'
  <2> SUFFICES ASSUME NEW u \in Transport
               PROVE  /\ session'[u] # "open" => box'[u] = <<>>
                      /\ Numbered(box'[u], written[u])
    BY DEF Boxes
  <2>1. CASE session'[u] = "open"
    BY <2>1 DEF SockJSInv, Boxes
  <2>2. CASE session'[u] # "open"
    BY <1>1, <2>2, EmptyBox
  <2> QED
    BY <2>1, <2>2
<1>5. \A u \in sockjs.heard : u \in Transport
  BY <1>1 DEF ObjectType
<1>6. Told'
  <2> SUFFICES ASSUME NEW u \in sockjs.heard, session'[u] = "open"
               PROVE  UpTo(sockjs, Upcoming(u)', throws)
    BY DEF SockJSInv, Told
  <2>1. session[u] = "open" /\ Upcoming(u)' = Upcoming(u)
    BY <1>5 DEF Upcoming
  <2> QED
    BY <2>1 DEF SockJSInv, Told
<1>7. Unused'
  BY DEF SockJSInv, Unused
<1>8. Begun'
  BY <1>1 DEF SockJSInv, Begun, ObjectType
<1>9. Budget'
  <2>1. sockjs.dials \in Nat
    BY InvFacts
  <2> QED
    BY <1>2, <2>1 DEF Budget
<1> QED
  BY <1>1, <1>3, <1>4, <1>6, <1>7, <1>8, <1>9 DEF SockJSInv, Closed

LEMMA ServerForgetsKeeps ==
    ASSUME SockJSInv, NEW t \in Transport, ServerForgets(t)
    PROVE  SockJSInv'
<1> USE DEF ServerForgets
<1>1. /\ request \in Requests
      /\ session \in [Transport -> {"none", "open", "gone"}]
      /\ box \in [Transport -> Seq(Frame)]
      /\ \A u \in Transport : session[u] # "open" => box[u] = <<>>
  BY InvFacts DEF SockJSInv, Boxes
<1>2. box' \in [Transport -> Seq(Frame)]
  <2>1. <<>> \in Seq(Frame)
    OBVIOUS
  <2> QED
    BY <1>1, <2>1
<1>3. \A u \in Transport :
         /\ session'[u] = "none" <=> session[u] = "none"
         /\ session'[u] = "open" => session[u] = "open"
         /\ box'[u] = IF session'[u] = "open" THEN box[u] ELSE <<>>
  BY <1>1
<1>4. session' \in [Transport -> {"none", "open", "gone"}] /\ request' = request
  BY <1>1
<1> QED
  BY <1>1, <1>2, <1>3, <1>4, FailureKeeps

LEMMA NetworkBreaksKeeps ==
    ASSUME SockJSInv, NEW t \in Transport, NetworkBreaks(t)
    PROVE  SockJSInv'
<1> USE DEF NetworkBreaks, server
<1>1. /\ request \in Requests
      /\ session \in [Transport -> {"none", "open", "gone"}]
      /\ box \in [Transport -> Seq(Frame)]
      /\ \A u \in Transport : session[u] # "open" => box[u] = <<>>
  BY InvFacts DEF SockJSInv, Boxes
<1>2. /\ request' \in Requests
      /\ \A u \in Transport : request[u].now = "none" => request'[u].now = "none"
  BY <1>1 DEF Requests
<1> QED
  BY <1>1, <1>2, FailureKeeps

LEMMA RestartKeeps ==
    ASSUME SockJSInv, ServerRestarts
    PROVE  SockJSInv'
<1> USE DEF ServerRestarts, Restarted
<1>1. /\ request \in Requests
      /\ session \in [Transport -> {"none", "open", "gone"}]
  BY InvFacts
<1>2. /\ request' \in Requests
      /\ \A u \in Transport : request[u].now = "none" => request'[u].now = "none"
  BY <1>1 DEF Requests
<1>3. session' \in [Transport -> {"none", "open", "gone"}]
      /\ \A u \in Transport :
            session'[u] # "open" /\ (session'[u] = "none" <=> session[u] = "none")
  BY <1>1
<1>4. box' \in [Transport -> Seq(Frame)] /\ \A u \in Transport : box'[u] = <<>>
  <2>1. <<>> \in Seq(Frame)
    OBVIOUS
  <2> QED
    BY <2>1
<1> QED
  BY <1>2, <1>3, <1>4, FailureKeeps

LEMMA PollEndsKeeps ==
    ASSUME SockJSInv, NEW t \in Transport, PollEnds(t)
    PROVE  SockJSInv'
<1> USE DEF PollEnds, page, server
<1>1. /\ request \in Requests /\ request[t].now = "ended"
      /\ request' = [request EXCEPT ![t].now = "asked"]
      /\ UNCHANGED <<enabled, sockjs, loaded, closing, retry, wait, session, written, box,
                     failures, throws>>
  BY InvFacts
<1>2. request' \in Requests
  BY <1>1 DEF Requests
<1>3. \A u \in Transport :
         /\ request'[u].now = "cut" => request[u].now = "cut"
         /\ request[u].now = "none" => request'[u].now = "none"
  BY <1>1 DEF Requests
<1>4. TypeOK'
  BY <1>1, <1>2 DEF SockJSInv, TypeOK, Requests
<1>5. \A u \in sockjs.heard : u \in Transport
  BY InvFacts DEF ObjectType
<1>6. Budget'
  <2>1. \A u \in sockjs.heard : Damaged(u)' => Damaged(u)
    BY <1>1, <1>3, <1>5 DEF Damaged, Upcoming
  <2> QED
    BY <1>1, <2>1 DEF SockJSInv, Budget, Owed
<1>7. Unused'
  BY <1>1, <1>3 DEF SockJSInv, Unused
<1> QED
  BY <1>1, <1>4, <1>6, <1>7 DEF SockJSInv, Closed, Boxes, Told, Upcoming, Begun
-----------------------------------------------------------------------------
\* What is the next line before an event, and after it has taken m frames.
LEMMA BoxFact ==
    ASSUME SockJSInv, NEW t \in Transport
    PROVE  /\ box[t] \in Seq(Frame) /\ Len(box[t]) \in Nat /\ written[t] \in Nat
           /\ written[t] <= MaxMessages /\ Upcoming(t) \in Nat
           /\ \A i \in 1 .. Len(box[t]) :
                 /\ box[t][i] = Line(Upcoming(t) + i - 1)
                 /\ Upcoming(t) + i - 1 \in Message \cup {0}
<1> DEFINE b == box[t]
           w == written[t]
<1>1. b \in Seq(Frame) /\ w \in Message \cup {0} /\ Numbered(b, w)
  BY InvFacts DEF SockJSInv, Boxes
<1>2. Len(b) \in Nat /\ w \in Nat /\ w <= MaxMessages /\ Len(b) <= w + 1
  BY <1>1, LenProperties, TransportFact DEF Message, Numbered
<1>3. Upcoming(t) = w - Len(b) + 1
  BY DEF Upcoming
<1> HIDE DEF b, w
<1>4. Upcoming(t) \in Nat
  BY <1>2, <1>3
<1>5. ASSUME NEW i \in 1 .. Len(b)
      PROVE  b[i] = Line(Upcoming(t) + i - 1) /\ Upcoming(t) + i - 1 \in Message \cup {0}
  <2>1. w - Len(b) + i = Upcoming(t) + i - 1
    BY <1>2, <1>3
  <2>2. Upcoming(t) + i - 1 \in Nat /\ Upcoming(t) + i - 1 <= MaxMessages
    <3> DEFINE u == Upcoming(t)
               n == Len(b)
    <3>1. i \in Nat /\ i >= 1 /\ i <= n
      BY <1>2
    <3>2. n \in Nat /\ w \in Nat /\ w <= MaxMessages /\ u = w - n + 1 /\ u \in Nat
      BY <1>2, <1>3, <1>4
    <3> HIDE DEF u, n
    <3>3. u + i - 1 \in Nat
      BY <3>1, <3>2
    <3>4. u + i - 1 <= MaxMessages
      BY <3>1, <3>2, TransportFact
    <3> QED
      BY <3>3, <3>4 DEF u
  <2>3. b[i] = Line(w - Len(b) + i)
    BY <1>1 DEF Numbered
  <2> QED
    BY <2>1, <2>2, <2>3, TransportFact DEF Message
<1> QED
  BY <1>1, <1>2, <1>4, <1>5 DEF b, w

\* A frame of the box carries one line.
LEMMA OneLine ==
    ASSUME NEW p \in Nat, p \in Message \cup {0}, NEW th
    PROVE  Carries(Line(p), p, p + 1, th)
<1>1. CASE p = 0
  BY <1>1, LineFact DEF Carries
<1>2. CASE p # 0
  <2> DEFINE ms == Line(p).messages
  <2>1. p \in Message /\ Line(p) = A(<<p>>) /\ ms = <<p>>
    BY <1>2, LineFact
  <2>2. ms \in Seq(Message) /\ Len(ms) = 1 /\ \A i \in 1 .. Len(ms) : ms[i] = p - 1 + i
    <3>1. <<p>> \in Seq(Message) /\ Len(<<p>>) = 1 /\ <<p>>[1] = p
      BY <2>1
    <3>2. \A i \in 1 .. 1 : i = 1
      OBVIOUS
    <3>3. p - 1 + 1 = p
      OBVIOUS
    <3> HIDE DEF ms
    <3>4. Len(ms) = 1 /\ ms[1] = p /\ ms \in Seq(Message)
      BY <2>1, <3>1
    <3> QED
      BY <3>2, <3>3, <3>4
  <2> HIDE DEF ms
  <2>3. Line(p) = A(ms)
    BY <2>1
  <2>4. (p + 1) - p = 1
    OBVIOUS
  <2> QED
    BY <1>2, <2>2, <2>3, <2>4 DEF Carries, ms
<1> QED
  BY <1>1, <1>2

\* So does a line with messages from p on.
LEMMA SomeMessages ==
    ASSUME NEW ms \in Seq(Message), NEW p \in Nat, NEW q \in Nat, p # 0, q > p, NEW th,
           Len(ms) <= q - p, th = 0 => Len(ms) = q - p,
           \A i \in 1 .. Len(ms) : ms[i] = p - 1 + i
    PROVE  Carries(A(ms), p, q, th)
<1>1. A(ms).messages = ms
  BY DEF A
<1> QED
  BY <1>1 DEF Carries

LEMMA HearingStarts ==
    ASSUME SockJSInv, NEW t \in Transport, t \in sockjs.heard, session[t] = "open",
           NEW th, th = 0 => throws = 0
    PROVE  /\ Hearing(t, sockjs, sockjs, Upcoming(t), Upcoming(t), th)
           /\ sockjs.transport = t /\ t <= sockjs.dials
           /\ sockjs.readyState # "closed"
<1>1. /\ sockjs \in ObjectType /\ Sound(sockjs) /\ Upcoming(t) \in Nat
  BY InvFacts, BoxFact
<1>2. sockjs.transport = t /\ t # 0
  BY <1>1, TransportFact DEF Sound
<1>3. ~sockjs.ir /\ sockjs.readyState # "closed" /\ t <= sockjs.dials
  BY <1>1, <1>2 DEF Sound
<1>4. Tells(sockjs, th) /\ UpTo(sockjs, Upcoming(t), th)
  BY DEF SockJSInv, Told, Tells, UpTo
<1> QED
  BY <1>1, <1>2, <1>3, <1>4 DEF Hearing

\* What is left in the box when m frames are gone.
LEMMA BoxShrinks ==
    ASSUME SockJSInv, NEW t \in Transport, NEW m \in 1 .. Len(box[t])
    PROVE  LET c == SubSeq(box[t], m + 1, Len(box[t]))
           IN /\ c \in Seq(Frame) /\ Numbered(c, written[t])
              /\ written[t] - Len(c) + 1 = Upcoming(t) + m
<1> DEFINE b == box[t]
           w == written[t]
           c == SubSeq(b, m + 1, Len(b))
<1>1. /\ b \in Seq(Frame) /\ Len(b) \in Nat /\ w \in Nat
      /\ Upcoming(t) = w - Len(b) + 1 /\ Upcoming(t) \in Nat
      /\ \A i \in 1 .. Len(b) : b[i] = Line(Upcoming(t) + i - 1)
  BY BoxFact DEF Upcoming
<1>2. m \in Nat /\ m >= 1 /\ m <= Len(b)
  BY <1>1
<1> SUFFICES c \in Seq(Frame) /\ Numbered(c, w) /\ w - Len(c) + 1 = Upcoming(t) + m
  OBVIOUS
<1> HIDE DEF b, w
<1>3. \A i \in m + 1 .. Len(b) : b[i] \in Frame
  <2>1. \A i \in m + 1 .. Len(b) : i \in 1 .. Len(b)
    BY <1>1, <1>2
  <2> QED
    BY <1>1, <2>1, ElementOfSeq
<1>4. /\ c \in Seq(Frame) /\ Len(c) = IF m + 1 <= Len(b) THEN Len(b) - (m + 1) + 1 ELSE 0
      /\ \A i \in 1 .. Len(b) - (m + 1) + 1 : c[i] = b[m + 1 + i - 1]
  <2>1. m + 1 \in Int /\ Len(b) \in Int
    BY <1>1, <1>2
  <2> QED
    BY <1>3, <2>1, SubSeqProperties
<1> HIDE DEF c
<1>5. Len(c) = Len(b) - m
  BY <1>1, <1>2, <1>4
<1>6. ASSUME NEW i \in 1 .. Len(c) PROVE c[i] = Line(w - Len(c) + i)
  <2>1. i \in 1 .. Len(b) - (m + 1) + 1 /\ m + 1 + i - 1 = m + i /\ m + i \in 1 .. Len(b)
    BY <1>1, <1>2, <1>5
  <2>2. c[i] = b[m + i] /\ b[m + i] = Line(Upcoming(t) + (m + i) - 1)
    BY <1>1, <1>4, <2>1
  <2>3. Upcoming(t) + (m + i) - 1 = w - Len(c) + i
    BY <1>1, <1>2, <1>5, <2>1
  <2> QED
    BY <2>2, <2>3
<1>7. Numbered(c, w)
  <2>1. Len(c) <= w + 1
    BY <1>1, <1>2, <1>5
  <2> QED
    BY <1>6, <2>1 DEF Numbered
<1>8. w - Len(c) + 1 = Upcoming(t) + m
  BY <1>1, <1>2, <1>5
<1> QED
  BY <1>4, <1>7, <1>8

\* An event that takes m frames out of the box of the transport that is heard.
LEMMA EventKeeps ==
    ASSUME SockJSInv, NEW t \in Transport, t \in sockjs.heard, session[t] = "open",
           NEW m \in 1 .. Len(box[t]), NEW r, NEW end \in {"asked", "ended", "dead"},
           Hearing(t, sockjs, r, Upcoming(t), Upcoming(t) + m, throws'),
           Follows(r),
           box' = [box EXCEPT ![t] = SubSeq(@, m + 1, Len(@))],
           request' = [request EXCEPT ![t].now = end],
           throws' \in 0 .. MaxThrows,
           UNCHANGED <<enabled, loaded, retry, server, failures>>
    PROVE  SockJSInv'
<1> DEFINE c == SubSeq(box[t], m + 1, Len(box[t]))
           q == Upcoming(t) + m
<1> USE DEF server
<1>1. /\ sockjs \in ObjectType /\ Sound(sockjs) /\ request \in Requests
      /\ box \in [Transport -> Seq(Frame)]
      /\ sockjs.transport = t /\ t <= sockjs.dials /\ sockjs.dials \in Nat
      /\ sockjs.readyState # "closed" /\ ~closing /\ ~retry
  BY InvFacts, HearingStarts
<1>2. /\ r \in ObjectType /\ Sound(r) /\ ~r.ir /\ r.dials = sockjs.dials
      /\ Tells(r, throws') /\ UpTo(r, q, throws')
      /\ \/ r.readyState # "closed" /\ r.transport = t
         \/ r.readyState = "closed" /\ sockjs.readyState = "open" /\ Upcoming(t) = 0
  BY DEF Hearing
<1>3. /\ sockjs' = r
      /\ closing' = (r.readyState = "closed")
      /\ wait' = wait \/ wait' = FirstWait
  BY <1>1 DEF Follows
<1>4. c \in Seq(Frame) /\ Numbered(c, written[t]) /\ written[t] - Len(c) + 1 = q
  BY BoxShrinks
<1>5. box' = [box EXCEPT ![t] = c]
  OBVIOUS
<1>6. q \in Nat /\ q # 0
  BY BoxFact
<1> HIDE DEF c, q
<1>7. /\ request' \in Requests
      /\ \A u \in Transport : u # t => request'[u] = request[u]
      /\ request'[t].now = end
  BY <1>1 DEF Requests
<1>8. TypeOK'
  <2>1. wait' \in FirstWait .. LongestWait
    <3>1. FirstWait \in FirstWait .. LongestWait
      BY WaitAssumption
    <3> QED
      BY <1>3, <3>1 DEF SockJSInv, TypeOK
  <2>2. box' \in [Transport -> Seq(Frame)]
    BY <1>1, <1>4, <1>5
  <2>3. closing' \in BOOLEAN
    BY <1>3
  <2> QED
    BY <1>2, <1>3, <1>7, <2>1, <2>2, <2>3 DEF SockJSInv, TypeOK, ObjectType, Requests
<1>9. Closed'
  BY <1>1, <1>3 DEF Closed
<1>10. Boxes'
  <2> SUFFICES ASSUME NEW u \in Transport
               PROVE  /\ session[u] # "open" => box'[u] = <<>>
                      /\ Numbered(box'[u], written[u])
    BY DEF Boxes
  <2>1. CASE u = t
    BY <1>1, <1>4, <1>5, <2>1
  <2>2. CASE u # t
    BY <1>1, <1>5, <2>2 DEF SockJSInv, Boxes
  <2> QED
    BY <2>1, <2>2
<1>11. Upcoming(t)' = q
  BY <1>1, <1>4, <1>5 DEF Upcoming
<1>12. r.heard \subseteq {t}
  BY <1>2 DEF Sound
<1>13. Told'
  BY <1>2, <1>3, <1>11, <1>12 DEF Told
<1>14. Unused'
  <2> SUFFICES ASSUME NEW u \in Transport, u > r.dials
               PROVE  request'[u].now = "none" /\ session[u] = "none"
    BY <1>3 DEF Unused
  <2>1. u # t
    BY <1>1, <1>2, TransportFact
  <2> QED
    BY <1>2, <1>7, <2>1 DEF SockJSInv, Unused
<1>15. Begun'
  <2>1. t # 0
    BY TransportFact
  <2> QED
    BY <1>2, <1>3, <2>1 DEF Begun
<1>16. Owed' => Owed
  <2>1. CASE r.readyState = "closed"
    BY <1>2, <2>1 DEF Owed, Damaged
  <2>2. CASE r.readyState # "closed"
    <3>1. r.transport = t /\ t # 0 /\ r.protocol # "waiting-for-load"
      BY <1>2, <2>2, TransportFact DEF Sound
    <3>2. ~closing' /\ ~retry' /\ ~r.ir
      BY <1>1, <1>2, <1>3, <2>2
    <3>3. ~Damaged(t)'
      BY <1>6, <1>7, <1>11 DEF Damaged
    <3> QED
      BY <1>3, <1>12, <3>1, <3>2, <3>3 DEF Owed
  <2> QED
    BY <2>1, <2>2
<1>17. Budget'
  BY <1>2, <1>3, <1>16 DEF SockJSInv, Budget
<1> QED
  BY <1>2, <1>3, <1>8, <1>9, <1>10, <1>13, <1>14, <1>15, <1>17 DEF SockJSInv

\* The lines of an event: frames of the box one by one, or all the messages of
\* a poll in one.
OneByOne(t, n, lines) ==
    /\ lines \in Seq(Frame) /\ Len(lines) = n
    /\ \A i \in 1 .. n : /\ lines[i] = Line(Upcoming(t) + i - 1)
                         /\ Upcoming(t) + i - 1 \in Message \cup {0}
    /\ ~Streams(t) => n = 1 /\ Upcoming(t) = 0
AtOnce(t, n, lines, ms) ==
    /\ ~Streams(t) /\ Upcoming(t) # 0
    /\ lines = <<A(ms)>> /\ ms \in Seq(Message) /\ Len(ms) = n
    /\ \A i \in 1 .. n : ms[i] = Upcoming(t) - 1 + i

LEMMA LinesFact ==
    ASSUME SockJSInv, NEW t \in Transport, NEW n \in 1 .. Len(box[t]), Brings(t, n)
    PROVE  \/ OneByOne(t, n, Lines(t, n))
           \/ \E ms : AtOnce(t, n, Lines(t, n), ms)
<1> DEFINE b == box[t]
           p == Upcoming(t)
           frames == SubSeq(b, 1, n)
<1>1. /\ b \in Seq(Frame) /\ Len(b) \in Nat /\ p \in Nat
      /\ \A i \in 1 .. Len(b) : b[i] = Line(p + i - 1) /\ p + i - 1 \in Message \cup {0}
  BY BoxFact
<1>2. n \in Nat /\ n >= 1 /\ n <= Len(b) /\ \A i \in 1 .. n : i \in 1 .. Len(b)
  BY <1>1
<1>3. frames \in Seq(Frame) /\ Len(frames) = n /\ \A i \in 1 .. n : frames[i] = b[i]
  <2>1. \A i \in 1 .. n : b[i] \in Frame
    BY <1>1, <1>2, ElementOfSeq
  <2> HIDE DEF b
  <2>2. /\ frames \in Seq(Frame) /\ Len(frames) = IF 1 <= n THEN n - 1 + 1 ELSE 0
        /\ \A i \in 1 .. n - 1 + 1 : frames[i] = b[1 + i - 1]
    BY <1>2, <2>1, SubSeqProperties
  <2> HIDE DEF frames
  <2>3. \A i \in 1 .. n : i \in 1 .. n - 1 + 1 /\ 1 + i - 1 = i
    BY <1>2
  <2> QED
    BY <1>2, <2>2, <2>3
<1>4. 1 \in 1 .. n /\ 1 \in 1 .. Len(b) /\ p + 1 - 1 = p
  BY <1>1, <1>2
<1>5. Head(b) = Line(p) /\ Head(frames) = Line(p) /\ p \in Message \cup {0}
  <2>1. b[1] = Line(p) /\ frames[1] = Line(p) /\ p \in Message \cup {0}
    BY <1>1, <1>3, <1>4
  <2> QED
    BY <2>1
<1>6. Head(b) = O <=> p = 0
  BY <1>5, LineFact
<1>7. Lines(t, n) = IF Streams(t) \/ p = 0 THEN frames
                    ELSE <<A([i \in 1 .. n |-> frames[i].messages[1]])>>
  BY <1>5, <1>6 DEF Lines
<1>8. ~Streams(t) => IF p = 0 THEN n = 1 ELSE n = Len(b)
  BY <1>6 DEF Brings, Streams
<1>9. CASE Streams(t) \/ p = 0
  <2>1. Lines(t, n) = frames
    BY <1>7, <1>9
  <2> HIDE DEF frames
  <2>2. \A i \in 1 .. n : /\ frames[i] = Line(p + i - 1)
                          /\ p + i - 1 \in Message \cup {0}
    BY <1>1, <1>2, <1>3
  <2> QED
    BY <1>3, <1>8, <1>9, <2>1, <2>2 DEF OneByOne
<1>10. CASE ~(Streams(t) \/ p = 0)
  <2> DEFINE ms == [i \in 1 .. n |-> frames[i].messages[1]]
  <2>1. Lines(t, n) = <<A(ms)>>
    BY <1>7, <1>10
  <2>2. ASSUME NEW i \in 1 .. n
        PROVE  ms[i] = p - 1 + i /\ ms[i] \in Message
    <3> DEFINE j == p + i - 1
    <3>1. frames[i] = Line(j) /\ j \in Message \cup {0}
      BY <1>1, <1>2, <1>3
    <3>2. i \in Nat /\ i >= 1 /\ p # 0 /\ j # 0 /\ j = p - 1 + i
      <4>1. i \in Nat /\ i >= 1 /\ p # 0
        BY <1>2, <1>10
      <4> HIDE DEF p
      <4> QED
        BY <1>1, <4>1
    <3> HIDE DEF j, frames
    <3>3. Line(j).messages = <<j>> /\ j \in Message
      BY <3>1, <3>2, LineFact
    <3>4. <<j>>[1] = j
      OBVIOUS
    <3> QED
      BY <3>1, <3>2, <3>3, <3>4
  <2> HIDE DEF frames
  <2>3. ms \in [1 .. n -> Message]
    BY <2>2
  <2>4. ms \in Seq(Message) /\ Len(ms) = n
    BY <1>2, <2>3
  <2> HIDE DEF ms
  <2> QED
    BY <1>10, <2>1, <2>2, <2>4 DEF AtOnce
<1> QED
  BY <1>9, <1>10

\* All of an answer in one line keeps the invariant, m messages of it, too,
\* when the rest is lost to an exception.
LEMMA HearsAtOnce ==
    ASSUME SockJSInv, NEW t \in Transport, t \in sockjs.heard, session[t] = "open",
           NEW th, th = 0 => throws = 0, NEW n \in Nat \ {0},
           NEW ms \in Seq(Message), Len(ms) <= n, th = 0 => Len(ms) = n,
           Upcoming(t) # 0, \A i \in 1 .. Len(ms) : ms[i] = Upcoming(t) - 1 + i
    PROVE  Hearing(t, sockjs, Hears(t, <<A(ms)>>), Upcoming(t), Upcoming(t) + n, th)
<1> DEFINE p == Upcoming(t)
           q == p + n
           lines == <<A(ms)>>
           pos == [i \in 0 .. 1 |-> IF i = 0 THEN p ELSE q]
<1>1. p \in Nat
  BY BoxFact
<1>2. q \in Nat /\ q > p /\ q - p = n
  <2> HIDE DEF p
  <2> QED
    BY <1>1
<1>3. Hearing(t, sockjs, sockjs, p, p, th)
  BY HearingStarts
<1> HIDE DEF p, q
<1>4. Carries(A(ms), p, q, th)
  BY <1>1, <1>2, SomeMessages DEF p
<1>5. lines \in Seq(Frame) /\ Len(lines) = 1 /\ lines[1] = A(ms)
  <2>1. A(ms) \in Frame
    BY DEF A, Frame
  <2> QED
    BY <2>1
<1>6. pos[0] = p /\ pos[1] = q
  OBVIOUS
<1> HIDE DEF lines, pos
<1>7. \A i \in 1 .. Len(lines) : Carries(lines[i], pos[i - 1], pos[i], th)
  <2>1. \A i \in 1 .. Len(lines) : i = 1 /\ i - 1 = 0
    BY <1>5
  <2> QED
    BY <1>4, <1>5, <1>6, <2>1
<1>8. Hearing(t, sockjs, Hears(t, lines), pos[0], pos[Len(lines)], th)
  BY <1>3, <1>5, <1>6, <1>7, HearsLines
<1> QED
  BY <1>5, <1>6, <1>8 DEF lines, p, q

\* So do frames one by one, the last of which may be lost.
LEMMA HearsOneByOne ==
    ASSUME SockJSInv, NEW t \in Transport, t \in sockjs.heard, session[t] = "open",
           NEW th, th = 0 => throws = 0,
           NEW lines \in Seq(Frame),
           \A i \in 1 .. Len(lines) :
              Carries(lines[i], Upcoming(t) + i - 1, Upcoming(t) + i, th)
    PROVE  Hearing(t, sockjs, Hears(t, lines), Upcoming(t), Upcoming(t) + Len(lines), th)
<1> DEFINE p == Upcoming(t)
           n == Len(lines)
           pos == [i \in 0 .. n |-> p + i]
<1>1. p \in Nat /\ n \in Nat
  BY BoxFact, LenProperties
<1>2. Hearing(t, sockjs, sockjs, p, p, th)
  BY HearingStarts
<1>3. pos[0] = p /\ pos[n] = p + n /\ p + 0 = p
  BY <1>1
<1>4. \A i \in 1 .. n : Carries(lines[i], pos[i - 1], pos[i], th)
  <2> SUFFICES ASSUME NEW i \in 1 .. n PROVE Carries(lines[i], pos[i - 1], pos[i], th)
    OBVIOUS
  <2>1. Carries(lines[i], p + i - 1, p + i, th)
    OBVIOUS
  <2> HIDE DEF p, n
  <2>2. i - 1 \in 0 .. n /\ i \in 0 .. n /\ p + i - 1 = p + (i - 1)
    BY <1>1
  <2> QED
    BY <2>1, <2>2
<1> HIDE DEF pos
<1>5. Hearing(t, sockjs, Hears(t, lines), pos[0], pos[n], th)
  BY <1>2, <1>3, <1>4, HearsLines
<1> QED
  BY <1>3, <1>5

LEMMA ArrivesKeeps ==
    ASSUME SockJSInv, NEW t \in Transport, Arrives(t)
    PROVE  SockJSInv'
<1> USE DEF Arrives, Heard
<1>1. PICK n \in 1 .. Len(box[t]), end \in Ends(t) :
        /\ Brings(t, n)
        /\ LET s == Hears(t, Lines(t, n))
           IN /\ Follows(s)
              /\ request' = Asks(s, [request EXCEPT ![t].now = end])
        /\ box' = [box EXCEPT ![t] = SubSeq(@, n + 1, Len(@))]
  OBVIOUS
<1> DEFINE r == Hears(t, Lines(t, n))
<1>2. /\ t \in sockjs.heard /\ session[t] = "open" /\ throws' = throws
      /\ UNCHANGED <<enabled, loaded, retry, server, failures>>
  OBVIOUS
<1>3. throws' \in 0 .. MaxThrows
  BY <1>2 DEF SockJSInv, TypeOK
<1>4. end \in {"asked", "ended", "dead"}
  BY DEF Ends
<1>5. Upcoming(t) \in Nat /\ n \in Nat \ {0}
  BY BoxFact
<1> USE DEF Arrives
<1>6. Hearing(t, sockjs, r, Upcoming(t), Upcoming(t) + n, throws')
  <2>1. CASE OneByOne(t, n, Lines(t, n))
    <3> DEFINE lines == Lines(t, n)
    <3>1. lines \in Seq(Frame) /\ Len(lines) = n
      BY <2>1 DEF OneByOne
    <3>2. ASSUME NEW i \in 1 .. n
          PROVE  Carries(lines[i], Upcoming(t) + i - 1, Upcoming(t) + i, throws')
      <4> DEFINE j == Upcoming(t) + i - 1
      <4>1. lines[i] = Line(j) /\ j \in Message \cup {0}
        BY <2>1 DEF OneByOne
      <4>2. j + 1 = Upcoming(t) + i
        BY <1>5
      <4>3. j \in Nat
        BY <4>1, TransportFact DEF Message
      <4> HIDE DEF j, lines
      <4>4. Carries(Line(j), j, j + 1, throws')
        BY <4>1, <4>3, OneLine
      <4> QED
        BY <4>1, <4>2, <4>4 DEF j
    <3> HIDE DEF lines
    <3>3. Hearing(t, sockjs, Hears(t, lines), Upcoming(t), Upcoming(t) + Len(lines), throws')
      BY <1>2, <3>1, <3>2, HearsOneByOne
    <3> QED
      BY <3>1, <3>3 DEF lines
  <2>2. ASSUME NEW ms, AtOnce(t, n, Lines(t, n), ms)
        PROVE  Hearing(t, sockjs, r, Upcoming(t), Upcoming(t) + n, throws')
    <3>1. /\ Upcoming(t) # 0 /\ Lines(t, n) = <<A(ms)>> /\ ms \in Seq(Message)
          /\ Len(ms) = n /\ \A i \in 1 .. n : ms[i] = Upcoming(t) - 1 + i
      BY <2>2 DEF AtOnce
    <3>2. Len(ms) <= n
      BY <1>5, <3>1
    <3>3. Hearing(t, sockjs, Hears(t, <<A(ms)>>), Upcoming(t), Upcoming(t) + n, throws')
      BY <1>2, <1>5, <3>1, <3>2, HearsAtOnce
    <3> QED
      BY <3>1, <3>3
  <2> QED
    BY <1>1, <2>1, <2>2, LinesFact
<1>7. Follows(r) /\ request' = [request EXCEPT ![t].now = end]
  <2>1. r.dials = sockjs.dials
    BY <1>6 DEF Hearing
  <2> QED
    BY <1>1, <2>1 DEF Asks
<1> HIDE DEF r, Arrives
<1> QED
  BY <1>1, <1>2, <1>3, <1>4, <1>6, <1>7, EventKeeps

\* The k-th line of an event, cut short, behind those before it.
LEMMA CutShort ==
    ASSUME SockJSInv, NEW t \in Transport, t \in sockjs.heard, session[t] = "open",
           NEW n \in 1 .. Len(box[t]), NEW lines, OneByOne(t, n, lines),
           NEW k \in 1 .. n, NEW th, th # 0,
           NEW m \in 0 .. Len(lines[k].messages) - 1
    PROVE  /\ Streams(t)
           /\ Hearing(t, sockjs,
                      Hears(t, Append(SubSeq(lines, 1, k - 1),
                                      A(SubSeq(lines[k].messages, 1, m)))),
                      Upcoming(t), Upcoming(t) + k, th)
<1> DEFINE p == Upcoming(t)
           j == p + k - 1
           first == SubSeq(lines, 1, k - 1)
           ms == SubSeq(lines[k].messages, 1, m)
           all == Append(first, A(ms))
<1>1. /\ lines \in Seq(Frame) /\ Len(lines) = n
      /\ \A i \in 1 .. n : lines[i] = Line(p + i - 1) /\ p + i - 1 \in Message \cup {0}
      /\ ~Streams(t) => n = 1 /\ p = 0
  BY DEF OneByOne
<1>2. p \in Nat /\ n \in Nat /\ k \in Nat /\ k >= 1 /\ k <= n
  BY BoxFact
<1>3. lines[k] = Line(j) /\ j \in Message \cup {0}
  BY <1>1
<1>4. j # 0 /\ m = 0
  <2>1. CASE j = 0
    <3>1. lines[k].messages = <<>>
      BY <1>3, <2>1, LineFact DEF O
    <3>2. Len(lines[k].messages) = 0
      BY <3>1
    <3> QED
      BY <3>2
  <2>2. CASE j # 0
    <3>1. lines[k].messages = <<j>>
      BY <1>3, <2>2, LineFact
    <3>2. Len(lines[k].messages) = 1
      BY <3>1
    <3> QED
      BY <2>2, <3>2
  <2> QED
    BY <2>1, <2>2
<1>5. ms = <<>> /\ ms \in Seq(Message) /\ Len(ms) = 0
  <2>1. lines[k].messages = <<j>>
    BY <1>3, <1>4, LineFact
  <2>2. ms = <<>>
    BY <1>4, <2>1
  <2> QED
    BY <2>2
<1>6. Streams(t)
  <2>1. n = 1 /\ p = 0 => j = 0
    BY <1>2
  <2> QED
    BY <1>1, <1>4, <2>1
<1> HIDE DEF p, ms
<1>7. /\ first \in Seq(Frame) /\ Len(first) = k - 1
      /\ \A i \in 1 .. k - 1 : first[i] = lines[i]
  <2>1. \A i \in 1 .. k - 1 : i \in 1 .. Len(lines)
    BY <1>1, <1>2
  <2>2. \A i \in 1 .. k - 1 : lines[i] \in Frame
    BY <1>1, <2>1, ElementOfSeq
  <2>3. /\ first \in Seq(Frame)
        /\ Len(first) = IF 1 <= k - 1 THEN k - 1 - 1 + 1 ELSE 0
        /\ \A i \in 1 .. k - 1 - 1 + 1 : first[i] = lines[1 + i - 1]
    BY <1>2, <2>2, SubSeqProperties
  <2> HIDE DEF first
  <2>4. \A i \in 1 .. k - 1 : i \in 1 .. k - 1 - 1 + 1 /\ 1 + i - 1 = i
    BY <1>2
  <2> QED
    BY <1>2, <2>3, <2>4
<1> HIDE DEF first
<1>8. A(ms) \in Frame
  BY <1>5 DEF A, Frame
<1>9. all \in Seq(Frame) /\ Len(all) = k /\ all[k] = A(ms)
      /\ \A i \in 1 .. k - 1 : all[i] = first[i]
  BY <1>2, <1>7, <1>8
<1> HIDE DEF all
<1>10. ASSUME NEW i \in 1 .. k PROVE Carries(all[i], p + i - 1, p + i, th)
  <2>1. CASE i = k
    <3>1. j \in Nat /\ j + 1 = p + i /\ j = p + i - 1 /\ j + 1 > j /\ (j + 1) - j = 1
      BY <1>2, <2>1
    <3>2. \A x \in 1 .. Len(ms) : ms[x] = j - 1 + x
      BY <1>5
    <3> HIDE DEF j
    <3>3. j + 1 \in Nat /\ Len(ms) <= (j + 1) - j
      BY <1>5, <3>1
    <3>4. th = 0 => Len(ms) = (j + 1) - j
      OBVIOUS
    <3> DEFINE q == j + 1
    <3> HIDE DEF q
    <3>5. Carries(A(ms), j, q, th)
      BY <1>4, <1>5, <3>1, <3>2, <3>3, <3>4, SomeMessages DEF q
    <3> QED
      BY <1>9, <2>1, <3>1, <3>5 DEF q
  <2>2. CASE i # k
    <3> DEFINE x == p + i - 1
    <3>1. i \in 1 .. k - 1 /\ i \in 1 .. n /\ x + 1 = p + i
      BY <1>2, <2>2
    <3>2. all[i] = Line(x) /\ x \in Message \cup {0}
      BY <1>1, <1>7, <1>9, <3>1
    <3>3. x \in Nat
      BY <3>2, TransportFact DEF Message
    <3> HIDE DEF x
    <3>4. Carries(Line(x), x, x + 1, th)
      BY <3>2, <3>3, OneLine
    <3> QED
      BY <3>1, <3>2, <3>4 DEF x
  <2> QED
    BY <2>1, <2>2
<1>11. Hearing(t, sockjs, Hears(t, all), p, p + k, th)
  BY <1>9, <1>10, HearsOneByOne DEF p
<1> QED
  BY <1>6, <1>11 DEF all, first, ms, p

LEMMA ThrowsKeeps ==
    ASSUME SockJSInv, NEW t \in Transport, Throws(t)
    PROVE  SockJSInv'
<1>1. /\ t \in sockjs.heard /\ session[t] = "open"
      /\ throws < MaxThrows /\ throws' = throws + 1
      /\ UNCHANGED <<enabled, loaded, retry, server, failures>>
  BY DEF Throws, Heard
<1>2. throws \in Nat /\ throws' \in 0 .. MaxThrows /\ throws' # 0
  <2>1. throws \in Nat
    BY InvFacts
  <2> QED
    BY <1>1, <2>1, BoundAssumption
<1>3. PICK n \in 1 .. Len(box[t]) :
        /\ Brings(t, n)
        /\ \E k \in DOMAIN Lines(t, n) :
              LET lines == SubSeq(Lines(t, n), 1, k - 1)
                  line == Lines(t, n)[k]
              IN \E m \in 0 .. Len(line.messages) - 1 :
                    LET s == Hears(t, Append(lines, A(SubSeq(line.messages, 1, m))))
                    IN /\ s.readyState = "open" /\ Follows(s)
                       /\ box' = [box EXCEPT ![t] =
                            SubSeq(@, (IF Streams(t) THEN k ELSE n) + 1, Len(@))]
                       /\ \E end \in AfterThrow(t) :
                             request' = [request EXCEPT ![t].now = end]
  BY DEF Throws
<1> DEFINE all == Lines(t, n)
<1>4. PICK k \in DOMAIN all :
        \E m \in 0 .. Len(all[k].messages) - 1 :
           LET s == Hears(t, Append(SubSeq(all, 1, k - 1), A(SubSeq(all[k].messages, 1, m))))
           IN /\ s.readyState = "open" /\ Follows(s)
              /\ box' = [box EXCEPT ![t] =
                   SubSeq(@, (IF Streams(t) THEN k ELSE n) + 1, Len(@))]
              /\ \E end \in AfterThrow(t) : request' = [request EXCEPT ![t].now = end]
  BY <1>3
<1>5. PICK m \in 0 .. Len(all[k].messages) - 1 :
        LET s == Hears(t, Append(SubSeq(all, 1, k - 1), A(SubSeq(all[k].messages, 1, m))))
        IN /\ s.readyState = "open" /\ Follows(s)
           /\ box' = [box EXCEPT ![t] =
                SubSeq(@, (IF Streams(t) THEN k ELSE n) + 1, Len(@))]
           /\ \E end \in AfterThrow(t) : request' = [request EXCEPT ![t].now = end]
  BY <1>4
<1> DEFINE r == Hears(t, Append(SubSeq(all, 1, k - 1), A(SubSeq(all[k].messages, 1, m))))
<1>6. PICK end \in AfterThrow(t) : request' = [request EXCEPT ![t].now = end]
  BY <1>5
<1>7. /\ Follows(r) /\ end \in {"asked", "ended", "dead"}
      /\ box' = [box EXCEPT ![t] = SubSeq(@, (IF Streams(t) THEN k ELSE n) + 1, Len(@))]
  BY <1>5 DEF AfterThrow
<1> HIDE DEF r, all
<1>8. CASE OneByOne(t, n, all)
  <2>1. k \in 1 .. n
    BY <1>8, LenProperties DEF OneByOne
  <2>2. Streams(t) /\ Hearing(t, sockjs, r, Upcoming(t), Upcoming(t) + k, throws')
    BY <1>1, <1>2, <1>8, <2>1, CutShort DEF r
  <2>3. k \in 1 .. Len(box[t])
    BY <2>1, BoxFact
  <2>4. box' = [box EXCEPT ![t] = SubSeq(@, k + 1, Len(@))]
    BY <1>7, <2>2
  <2> QED
    BY <1>1, <1>2, <1>6, <1>7, <2>2, <2>3, <2>4, EventKeeps
<1>9. ASSUME NEW ms, AtOnce(t, n, all, ms) PROVE SockJSInv'
  <2>1. /\ ~Streams(t) /\ Upcoming(t) # 0 /\ all = <<A(ms)>> /\ ms \in Seq(Message)
        /\ Len(ms) = n /\ \A i \in 1 .. n : ms[i] = Upcoming(t) - 1 + i
    BY <1>9 DEF AtOnce
  <2>2. k = 1 /\ all[k] = A(ms) /\ all[k].messages = ms
    <3>1. DOMAIN <<A(ms)>> = {1} /\ <<A(ms)>>[1] = A(ms)
      OBVIOUS
    <3>2. A(ms).messages = ms
      BY DEF A
    <3> QED
      BY <2>1, <3>1, <3>2
  <2> DEFINE part == SubSeq(ms, 1, m)
  <2>3. n \in Nat \ {0} /\ m \in Nat /\ m <= n /\ Len(ms) = n
    BY <2>1, <2>2, BoxFact
  <2>4. /\ part \in Seq(Message) /\ Len(part) = m
        /\ \A i \in 1 .. m : part[i] = Upcoming(t) - 1 + i
    <3>1. \A i \in 1 .. m : i \in 1 .. Len(ms) /\ i \in 1 .. n
      BY <2>3
    <3>2. \A i \in 1 .. m : ms[i] \in Message
      BY <2>1, <3>1, ElementOfSeq
    <3>3. /\ part \in Seq(Message) /\ Len(part) = IF 1 <= m THEN m - 1 + 1 ELSE 0
          /\ \A i \in 1 .. m - 1 + 1 : part[i] = ms[1 + i - 1]
      BY <2>3, <3>2, SubSeqProperties
    <3> HIDE DEF part
    <3>4. \A i \in 1 .. m : i \in 1 .. m - 1 + 1 /\ 1 + i - 1 = i
      BY <2>3
    <3> QED
      BY <2>1, <2>3, <3>1, <3>3, <3>4
  <2>5. r = Hears(t, <<A(part)>>)
    <3>1. SubSeq(all, 1, 0) = <<>>
      BY <2>1
    <3>2. k - 1 = 0
      BY <2>2
    <3> HIDE DEF part
    <3>3. Append(<<>>, A(part)) = <<A(part)>>
      OBVIOUS
    <3> QED
      BY <2>2, <3>1, <3>2, <3>3 DEF r, part
  <2> HIDE DEF part
  <2>6. Hearing(t, sockjs, Hears(t, <<A(part)>>), Upcoming(t), Upcoming(t) + n, throws')
    BY <1>1, <1>2, <2>1, <2>3, <2>4, HearsAtOnce
  <2>7. box' = [box EXCEPT ![t] = SubSeq(@, n + 1, Len(@))]
    BY <1>7, <2>1
  <2> QED
    BY <1>1, <1>2, <1>6, <1>7, <2>5, <2>6, <2>7, EventKeeps
<1> QED
  BY <1>3, <1>8, <1>9, LinesFact DEF all

LEMMA SockJSStarts == Init => SockJSInv
<1> SUFFICES ASSUME Init PROVE SockJSInv
  OBVIOUS
<1> USE DEF Init
<1>1. sockjs = [readyState |-> "connecting", ir |-> TRUE, protocols |-> <<>>,
                protocol |-> "none", tref |-> FALSE, transport |-> 0, heard |-> {},
                dials |-> 0, got |-> <<>>, raised |-> FALSE]
  BY DEF Fresh
<1>2. <<>> \in Seq(Protocol) /\ <<>> \in Seq(Message) /\ <<>> \in Seq(Frame) /\ Len(<<>>) = 0
  OBVIOUS
<1>3. sockjs \in ObjectType
  BY <1>1, <1>2 DEF ObjectType
<1>4. TypeOK
  <2>1. wait \in FirstWait .. LongestWait
    BY WaitAssumption
  <2>2. failures \in 0 .. MaxFailures /\ throws \in 0 .. MaxThrows
    BY BoundAssumption
  <2>3. request \in Requests
    BY DEF Requests
  <2> QED
    BY <1>2, <1>3, <2>1, <2>2, <2>3 DEF TypeOK, ObjectType, Requests
<1>5. Sound(sockjs) /\ Closed
  BY <1>1 DEF Sound, Closed
<1>6. Boxes
  BY EmptyBox DEF Boxes
<1>7. Told
  <2>1. \A i \in 1 .. 0 : FALSE
    OBVIOUS
  <2> QED
    BY <1>1, <1>2, <2>1 DEF Told, Tells, Growing, Exact
<1>8. Unused /\ Begun
  BY <1>1 DEF Unused, Begun
<1>9. Budget
  <2>1. sockjs.dials = 0 /\ failures = 0
    BY <1>1
  <2> QED
    BY <2>1 DEF Budget
<1> QED
  BY <1>3, <1>4, <1>5, <1>6, <1>7, <1>8, <1>9 DEF SockJSInv

LEMMA SockJSKeeps == SockJSInv /\ [Next]_vars => SockJSInv'
<1> SUFFICES ASSUME SockJSInv, [Next]_vars PROVE SockJSInv'
  OBVIOUS
<1>1. CASE Object
  BY <1>1, InfoArrivesKeeps, InfoFailsKeeps, TimeoutKeeps, OnCloseKeeps, NewSockJSconnKeeps
  DEF Object
<1>2. ASSUME NEW t \in Transport, Server(t) PROVE SockJSInv'
  BY <1>2, ServerOpensKeeps, ServerWritesKeeps, ServerForgetsKeeps, NetworkBreaksKeeps
  DEF Server
<1>3. ASSUME NEW t \in Transport, Wire(t) PROVE SockJSInv'
  BY <1>3, ArrivesKeeps, PollEndsKeeps, ThrowsKeeps, BreaksKeeps DEF Wire
<1>4. CASE Load
  BY <1>4, LoadKeeps
<1>5. CASE ServerRestarts
  BY <1>5, RestartKeeps
<1>6. CASE UNCHANGED vars
  BY <1>6 DEF vars, page, server, SockJSInv, TypeOK, Closed, Boxes, Told, Upcoming, Unused,
     Begun, Budget, Owed, Damaged
<1> QED
  BY <1>1, <1>2, <1>3, <1>4, <1>5, <1>6 DEF Next, Events

LEMMA SockJSAlways == Spec => []SockJSInv
<1> QED
  BY SockJSStarts, SockJSKeeps, PTL DEF Spec

\* While an object lives nothing is due that would make another, a closed one
\* has exactly one thing due, and no event of a transport that was given up
\* reaches a closed object: however often the connection, the server or the
\* page's handler fails (index.html 190-209, sockjs-0.3.js 985-1022).
THEOREM OneAttemptAlways == Spec => []OneAttempt
<1>1. SockJSInv => OneAttempt
  BY DEF SockJSInv, Sound, Closed, OneAttempt
<1> QED
  BY <1>1, SockJSAlways, PTL

\* What a page has got since "open" is the beginning of one session, the dump
\* first, for every number of messages, failures and lines in an event
\* (sockjs-0.3.js 1036-1047): only an exception leaves messages out.
THEOREM BeginningAlways == Spec => []Beginning
<1>1. SockJSInv => Beginning
  <2> SUFFICES ASSUME SockJSInv PROVE Beginning
    OBVIOUS
  <2>1. DOMAIN sockjs.got = 1 .. Len(sockjs.got)
    BY InvFacts, LenProperties DEF ObjectType
  <2> QED
    BY <2>1 DEF SockJSInv, Told, Tells, Growing, Exact, Beginning
<1> QED
  BY <1>1, SockJSAlways, PTL
-----------------------------------------------------------------------------
(* The page.                                                               *)

\* The page's stream and its script are those of SockJS and Bundle: what ends
\* the process for one of them is a step of the other (velbusweb.js 117-146).
THEOREM PageParts == PageSpec => Spec /\ BundleSpec
<1>1. PageInit => Init /\ BundleInit
  BY DEF PageInit
<1>2. [PageNext]_page_vars => [Next]_vars /\ [BundleNext]_bundle_vars
  <2> SUFFICES ASSUME [PageNext]_page_vars PROVE [Next]_vars /\ [BundleNext]_bundle_vars
    OBVIOUS
  <2>1. CASE Events /\ UNCHANGED bundle_vars
    BY <2>1 DEF Next
  <2>2. CASE PageLoads
    BY <2>2 DEF PageLoads, Next
  <2>3. CASE BundleStep
    BY <2>3 DEF BundleStep, BundleNext, Next
  <2>4. CASE ProcessRestarts
    BY <2>4 DEF ProcessRestarts, BundleNext, Next
  <2>5. CASE UNCHANGED page_vars
    BY <2>5 DEF page_vars
  <2> QED
    BY <2>1, <2>2, <2>3, <2>4, <2>5 DEF PageNext
<1> QED
  BY <1>1, <1>2, PTL DEF PageSpec, Spec, BundleSpec

\* Every value of the page's state has its type, the waits between objects
\* and the numbers of transports among them: the timer stays within two
\* minutes, and no more transports are tried than failures allow for.
THEOREM PageTypes == PageSpec => []PageTypeOK
<1>1. SockJSInv /\ BundleInv => PageTypeOK
  BY DEF SockJSInv, BundleInv, PageTypeOK
<1> QED
  BY <1>1, PageParts, SockJSAlways, BundleAlways, PTL
=============================================================================
