------------------------------- MODULE Bundle -------------------------------
(***************************************************************************)
(* GET /js/controls.js (www/velbusweb.js 117-146): the control scripts of  *)
(* the page in one answer.  Each file is read by a callback of its own, in *)
(* any order; files is the list of those still to come.  All callbacks     *)
(* share the variable fn, which holds the last name of the directory by    *)
(* the time the first of them runs.                                        *)
(***************************************************************************)
EXTENDS Integers, Sequences, FiniteSets

CONSTANTS
    File,       \* names in public/js/controls
    Script,     \* those that end in ".js"
    Directory,  \* lists that fs.readdir may give
    MaxErrors   \* bound: failures of the file system

Answer == {"bundle", "error", "cut"}
IsListing(d) == d \in Seq(File) /\ \A i, j \in 1 .. Len(d) : d[i] = d[j] => i = j

ASSUME ScriptAssumption == Script \subseteq File
ASSUME DirectoryAssumption == \A d \in Directory : IsListing(d)
ASSUME ErrorsAssumption == MaxErrors \in Nat

VARIABLES
    directory,  \* what fs.readdir found
    files,      \* the todo list
    unread,     \* scripts whose readFile is under way
    ticks,      \* other files, whose nextTick is pending
    body,       \* the contents so far
    answers,    \* what the browser was sent; "cut" when nothing comes
    started, errors

bundle_vars == <<directory, files, unread, ticks, body, answers, started, errors>>

BundleInit ==
    /\ directory = <<>> /\ files = <<>>
    /\ unread = {} /\ ticks = {}
    /\ body = <<>> /\ answers = <<>>
    /\ started = FALSE /\ errors = 0
-----------------------------------------------------------------------------
Names(listing) == {listing[i] : i \in 1 .. Len(listing)}

\* A second answer to one request throws, which ends the process.
Alive == Len(answers) < 2

\* One readFile for each name that ends in ".js".
ToRead(listing) == Names(listing) \cap Script

readdir(listing) ==
    /\ ~started /\ started' = TRUE
    /\ directory' = listing /\ files' = listing
    /\ unread' = ToRead(listing)
    /\ ticks' = Names(listing) \ Script
    /\ UNCHANGED <<body, answers, errors>>

\* next(err), and a loop over undefined.
readdirFails ==
    /\ ~started /\ started' = TRUE
    /\ errors < MaxErrors /\ errors' = errors + 1
    /\ answers' = Append(answers, "error")
    /\ UNCHANGED <<directory, files, unread, ticks, body>>

\* Mutant: a name that is not found removes nothing.
RemovesFound(todo) ==
    IF Len(todo) = Len(directory) /\ todo # <<>>
    THEN SubSeq(todo, 1, Len(todo) - 1) ELSE todo

\* files.splice(files.indexOf(fn), 1): the last name; or, that gone,
\* splice(-1, 1), the last that is left.
Spliced(todo) == SubSeq(todo, 1, Len(todo) - 1)

\* nextTick: before any file has been read.
Skip(f) ==
    /\ f \in ticks /\ ticks' = ticks \ {f}
    /\ files' = Spliced(files)
    /\ UNCHANGED <<directory, unread, body, answers, started, errors>>

\* Mutant: the answer is sent one file early.
OneIsLeft(todo) == Len(todo) <= 1

\* "We are the last one to finish."
LastOne(todo) == todo = <<>>

AnsweredWith(sent) == IF LastOne(files') THEN Append(sent, "bundle") ELSE sent

ReadFile(f) ==
    /\ Alive /\ f \in unread /\ ticks = {}
    /\ unread' = unread \ {f}
    /\ body' = Append(body, f)
    /\ files' = Spliced(files)
    /\ answers' = AnsweredWith(answers)
    /\ UNCHANGED <<directory, ticks, started, errors>>

\* next(err), and on: "undefined" is appended.
ReadFileFails(f) ==
    /\ Alive /\ f \in unread /\ ticks = {}
    /\ errors < MaxErrors /\ errors' = errors + 1
    /\ unread' = unread \ {f}
    /\ files' = Spliced(files)
    /\ answers' = AnsweredWith(Append(answers, "error"))
    /\ UNCHANGED <<directory, ticks, body, started>>

\* The process ends before the answer: the browser goes on without the script.
ProcessEnds ==
    /\ started /\ unread \cup ticks # {}
    /\ errors < MaxErrors /\ errors' = errors + 1
    /\ files' = <<>> /\ unread' = {} /\ ticks' = {}
    /\ answers' = IF answers = <<>> THEN <<"cut">> ELSE answers
    /\ UNCHANGED <<directory, body, started>>
-----------------------------------------------------------------------------
Serves ==
    \/ \E listing \in Directory : readdir(listing)
    \/ readdirFails
    \/ \E f \in File : Skip(f) \/ ReadFile(f) \/ ReadFileFails(f)
BundleNext == Serves \/ ProcessEnds

BundleSpec == BundleInit /\ [][BundleNext]_bundle_vars
-----------------------------------------------------------------------------
BundleTypeOK ==
    /\ directory \in Directory \cup {<<>>}
    /\ files \in Seq(File)
    /\ unread \in SUBSET Script /\ ticks \in SUBSET (File \ Script)
    /\ body \in Seq(Script)
    /\ answers \in Seq(Answer)
    /\ started \in BOOLEAN /\ errors \in Nat

Sent(answer) == \E i \in 1 .. Len(answers) : answers[i] = answer

\* The bundle is sent when every script of the directory is in it, once,
\* whatever the order in which the files were read: although the callbacks
\* take other names off the list than their own, its length is right.
BundleWhole ==
    Sent("bundle") /\ errors = 0 =>
        /\ Names(body) = ToRead(directory)
        /\ \A i, j \in 1 .. Len(body) : body[i] = body[j] => i = j

\* While the files can be read, a request is answered at most once, and the
\* process survives it.
BundleAnsweredOnce == errors = 0 => Len(answers) <= 1

\* What makes these inductive: there are as many names on the list as files
\* still to come, and the scripts that are read are those in the body.
Counted == Len(files) = Cardinality(unread \cup ticks)
Collected ==
    /\ Names(body) = ToRead(directory) \ unread
    /\ \A i, j \in 1 .. Len(body) : body[i] = body[j] => i = j
BundleInv ==
    /\ BundleTypeOK
    /\ IsFiniteSet(unread) /\ IsFiniteSet(ticks)
    /\ Counted
    /\ unread \subseteq ToRead(directory)
    /\ ~started => directory = <<>> /\ body = <<>> /\ answers = <<>>
    /\ errors = 0 => Collected
    /\ errors = 0 /\ answers # <<>> => unread = {}
    /\ errors = 0 => Len(answers) <= 1
=============================================================================
