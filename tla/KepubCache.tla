----------------------------- MODULE KepubCache -----------------------------
(***************************************************************************)
(* The cache of converted books: downloads convert on demand, the          *)
(* prewarmer converts ahead, the janitor evicts.  They share the files on  *)
(* disk and two tables, and step between each other's statements.          *)
(*                                                                         *)
(* A conversion is named by a book and a fingerprint of its source file;   *)
(* the fingerprint is a version number here.  All files have one size, so  *)
(* the budget counts files, and which of them were used last is left open. *)
(***************************************************************************)
EXTENDS Integers, FiniteSets

CONSTANTS
    Books,        \* books offered as KEPUB and held as EPUB
    Devices,      \* downloads by readers: fall back to the original
    Browsers,     \* downloads by the web interface: report a failure
    Prewarmer,    \* the one goroutine of Prewarmer.Run
    Janitor,      \* the one goroutine of runJanitor
    Slots,        \* Options.Concurrency
    Budget,       \* config.KepubCacheBytes, in files
    MaxVersion,   \* bound: versions of a source file
    MaxChanges,   \* bound: changes of the world in one behaviour
    Happens       \* the changes of the world that a run exercises

ASSUME KepubAssumption ==
    /\ Prewarmer # Janitor
    /\ {Prewarmer, Janitor} \cap (Devices \cup Browsers) = {}
    /\ Devices \cap Browsers = {}
    /\ IsFiniteSet(Books)
    /\ IsFiniteSet(Devices \cup Browsers)
    /\ Slots \in Nat \ {0}
    /\ Budget \in Nat
    /\ MaxVersion \in Nat \ {0}
    /\ MaxChanges \in Nat
    /\ Happens \subseteq {"replace", "fail", "cancel", "rebuild", "evict", "crash"}

Clients  == Devices \cup Browsers
Callers  == Clients \cup {Prewarmer}
Actors   == Callers \cup {Janitor}
Versions == 1..MaxVersion
Key      == Books \X Versions

VARIABLES
    source,    \* source[b]: the version of the file in the library
    file,      \* file[k]: the version the cached file was made from, 0 if none
    rows,      \* the rows of kepub_cache
    failures,  \* the rows of kepub_failures
    actor,     \* what every goroutine is doing
    pass,      \* the books the prewarmer has still to visit, and for what
    late,      \* history: the clients ever given a version older than the library
               \* had when they asked
    changes    \* how often the world has changed

vars == <<source, file, rows, failures, actor, pass, late, changes>>

(***************************************************************************)
(* A goroutine is at one of these places; from "acquire" to "drop" it      *)
(* leads the one conversion of its key, from "convert" it holds a slot.    *)
(***************************************************************************)
Places  == {"idle", "path", "wait", "acquire", "convert", "record", "drop",
            "open", "refused"}
Leading == {"acquire", "convert", "record", "drop"}
Holding == {"convert", "record", "drop"}

Idle == [at |-> "idle", book |-> 0, fp |-> 0, asked |-> 0,
         live |-> TRUE, removing |-> {}, unlinked |-> {}]

ActorState == [at : Places, book : Books \cup {0}, fp : 0..MaxVersion,
               asked : 0..MaxVersion, live : BOOLEAN,
               removing : SUBSET Key, unlinked : SUBSET Key]

TypeOK ==
    /\ source \in [Books -> Versions]
    /\ file \in [Key -> 0..MaxVersion]
    /\ rows \subseteq Key
    /\ failures \subseteq Key
    /\ actor \in [Actors -> ActorState]
    /\ pass \in [for : {"stale", "pending"}, todo : SUBSET Books]
    /\ late \subseteq Clients
    /\ changes \in 0..MaxChanges

Init ==
    /\ source = [b \in Books |-> 1]
    /\ file = [k \in Key |-> 0]
    /\ rows = {}
    /\ failures = {}
    /\ actor = [a \in Actors |-> Idle]
    /\ pass = [for |-> "pending", todo |-> {}]
    /\ late = {}
    /\ changes = 0

At(a, place) == actor[a].at = place
KeyOf(a)     == <<actor[a].book, actor[a].fp>>

FingerprintOfPath(b) == 1 \* seeded bug: the path, not the file
\* Fingerprint: what the file is now.
Fingerprint(b) == source[b]

Move(a, place) == actor' = [actor EXCEPT ![a].at = place]

\* What dropOtherThan finds: conversions of other versions of the book.
OtherThan(k) == {e \in rows : e[1] = k[1] /\ e[2] # k[2]}

NeverInFlight(k) == FALSE \* seeded bug: nobody joins
\* A conversion of this key is in flight.
InFlight(k) == \E a \in Callers : actor[a].at \in Leading /\ KeyOf(a) = k

SlotsUsed == Cardinality({a \in Callers : actor[a].at \in Holding})

\* singleflight hands the leader's result to everyone waiting for its key.
Followers(a) == {x \in Callers : At(x, "wait") /\ KeyOf(x) = KeyOf(a)}
FinishAlone(a, place) == \* seeded bug: those who joined are not told
    actor' = [actor EXCEPT ![a].at = place, ![a].removing = {}, ![a].unlinked = {}]
Finish(a, place) ==
    actor' = [x \in Actors |->
        IF x \in {a} \cup Followers(a)
        THEN [actor[x] EXCEPT !.at = place, !.removing = {}, !.unlinked = {}]
        ELSE actor[x]]

\* recordFailure: nothing is written under a cancelled context.
RecordFailure(a) ==
    failures' = IF actor[a].live THEN failures \cup {KeyOf(a)} ELSE failures

-----------------------------------------------------------------------------
(* A caller of Path *)

\* Failed: this exact file has failed before.
Failed(b) == <<b, Fingerprint(b)>> \in failures

\* handleDownload: a reader's download asks Failed first, a browser's does not.
Ask(c, b) ==
    /\ At(c, "idle")
    /\ actor' = [actor EXCEPT ![c] = [Idle EXCEPT !.book = b, !.asked = source[b],
            !.at = IF c \in Devices /\ Failed(b) THEN "refused" ELSE "path"]]
    /\ UNCHANGED <<source, file, rows, failures, pass, late, changes>>

\* Path: fingerprint the file; join the conversion in flight, or lead one unless
\* the converted file is there.
Path(c) ==
    /\ At(c, "path")
    /\ LET k == <<actor[c].book, Fingerprint(actor[c].book)>> IN
       actor' = [actor EXCEPT ![c].fp = k[2],
                  ![c].at = IF InFlight(k) THEN "wait"
                            ELSE IF file[k] # 0 THEN "open" ELSE "acquire"]
    /\ UNCHANGED <<source, file, rows, failures, pass, late, changes>>

\* convert: too large a file fails before it takes a slot.
TooLarge(c) ==
    /\ "fail" \in Happens /\ changes < MaxChanges
    /\ At(c, "acquire")
    /\ RecordFailure(c)
    /\ Finish(c, "refused")
    /\ changes' = changes + 1
    /\ UNCHANGED <<source, file, rows, pass, late>>

\* sem.Acquire, and the second look; a cancelled caller gets no slot.
Acquire(c) ==
    /\ At(c, "acquire")
    /\ \/ /\ actor[c].live /\ SlotsUsed < Slots
          /\ IF file[KeyOf(c)] # 0 THEN Finish(c, "open") ELSE Move(c, "convert")
       \/ ~actor[c].live /\ Finish(c, "refused")
    /\ UNCHANGED <<source, file, rows, failures, pass, late, changes>>

\* conv.Convert reads the source as it is by then; os.Rename puts it in place.
Convert(c) ==
    /\ At(c, "convert")
    /\ file' = [file EXCEPT ![KeyOf(c)] = source[actor[c].book]]
    /\ Move(c, "record")
    /\ UNCHANGED <<source, rows, failures, pass, late, changes>>

\* Convert fails, times out, or sees that its context is cancelled.
ConvertFails(c) ==
    /\ At(c, "convert")
    /\ \/ ~actor[c].live /\ UNCHANGED changes
       \/ /\ "fail" \in Happens /\ changes < MaxChanges
          /\ changes' = changes + 1
    /\ RecordFailure(c)
    /\ Finish(c, "refused")
    /\ UNCHANGED <<source, file, rows, pass, late>>

\* record: nothing is written under a cancelled context; afterwards the
\* conversions of other versions are removed.
Record(c) ==
    /\ At(c, "record")
    /\ IF actor[c].live
       THEN /\ rows' = rows \cup {KeyOf(c)}
            /\ failures' = failures \ {KeyOf(c)}
       ELSE UNCHANGED <<rows, failures>>
    /\ IF actor[c].live /\ OtherThan(KeyOf(c)) # {}
       THEN actor' = [actor EXCEPT ![c].at = "drop",
                                   ![c].removing = OtherThan(KeyOf(c))]
       ELSE Finish(c, "open")
    /\ UNCHANGED <<source, file, pass, late, changes>>

\* The answer of a download, made from that version of the source.
Answer(c, version) ==
    /\ late' = IF version < actor[c].asked THEN late \cup {c} ELSE late
    /\ actor' = [actor EXCEPT ![c] = Idle]
    /\ UNCHANGED <<source, file, rows, failures, pass, changes>>

\* The download opens what Path named: a 404 if it has been removed since.
Open(c) ==
    /\ c \in Clients /\ At(c, "open")
    /\ Answer(c, IF file[KeyOf(c)] = 0 THEN actor[c].asked ELSE file[KeyOf(c)])

\* convertedPath falls back to the original, serveKepub answers an error.
Refused(c) ==
    /\ c \in Clients /\ At(c, "refused")
    /\ Answer(c, IF c \in Devices THEN source[actor[c].book] ELSE actor[c].asked)

-----------------------------------------------------------------------------
(* Removing files: dropOtherThan and Evict share this loop *)

\* os.Remove; the row is deleted by the next statement.
Unlink(a) ==
    /\ At(a, "drop") /\ actor[a].unlinked = {}
    /\ \E k \in actor[a].removing :
        /\ file' = [file EXCEPT ![k] = 0]
        /\ actor' = [actor EXCEPT ![a].unlinked = {k}]
    /\ UNCHANGED <<source, rows, failures, pass, late, changes>>

\* After the last row a leader hands out its result, the others go on.
DeleteRow(a) ==
    /\ At(a, "drop") /\ actor[a].unlinked # {}
    /\ rows' = IF actor[a].live THEN rows \ actor[a].unlinked ELSE rows
    /\ LET rest == actor[a].removing \ actor[a].unlinked IN
       IF rest # {}
       THEN actor' = [actor EXCEPT ![a].removing = rest, ![a].unlinked = {}]
       ELSE IF a \in Callers /\ actor[a].fp # 0
       THEN Finish(a, "open")
       ELSE actor' = [actor EXCEPT ![a] = Idle]
    /\ UNCHANGED <<source, file, failures, pass, late, changes>>

\* Evict: keep what fits the budget, remove the rest.
Evict ==
    /\ "evict" \in Happens
    /\ At(Janitor, "idle")
    /\ Cardinality(rows) > Budget
    /\ \E kept \in SUBSET rows :
        /\ Cardinality(kept) = Budget
        /\ actor' = [actor EXCEPT ![Janitor] =
                        [Idle EXCEPT !.at = "drop", !.removing = rows \ kept]]
    /\ UNCHANGED <<source, file, rows, failures, pass, late, changes>>

-----------------------------------------------------------------------------
(* Prewarmer.Pass *)

\* AwaitingConversionSQL.
Awaiting(b) == /\ \A k \in rows : k[1] # b
               /\ \A k \in failures : k[1] # b

PrewarmerFree == At(Prewarmer, "idle")

\* A timer or a trigger starts the next pass when one is over; dropStale begins
\* with every book that has a row.
StartPass ==
    /\ PrewarmerFree /\ pass.for = "pending" /\ pass.todo = {}
    /\ pass' = [for |-> "stale", todo |-> {k[1] : k \in rows}]
    /\ UNCHANGED <<source, file, rows, failures, actor, late, changes>>

\* DropStale of one book.
DropStale(b) ==
    /\ PrewarmerFree /\ pass.for = "stale" /\ b \in pass.todo
    /\ LET other == OtherThan(<<b, Fingerprint(b)>>) IN
       actor' = IF other = {} THEN actor
                ELSE [actor EXCEPT ![Prewarmer].at = "drop",
                                   ![Prewarmer].removing = other]
    /\ pass' = [pass EXCEPT !.todo = @ \ {b}]
    /\ UNCHANGED <<source, file, rows, failures, late, changes>>

PendingOfCached == \* seeded bug: only books that were cached before
    /\ PrewarmerFree /\ pass.for = "stale" /\ pass.todo = {}
    /\ pass' = [for |-> "pending",
                todo |-> {b \in Books : Awaiting(b) /\ \E k \in rows : k[1] = b}]
    /\ UNCHANGED <<source, file, rows, failures, actor, late, changes>>
\* pending: the books to convert in this pass.
Pending ==
    /\ PrewarmerFree /\ pass.for = "stale" /\ pass.todo = {}
    /\ pass' = [for |-> "pending", todo |-> {b \in Books : Awaiting(b)}]
    /\ UNCHANGED <<source, file, rows, failures, actor, late, changes>>

\* One book of the pass: skipped if it has failed, else Path.
Visit(b) ==
    /\ PrewarmerFree /\ pass.for = "pending" /\ b \in pass.todo
    /\ actor' = IF Failed(b) THEN actor
                ELSE [actor EXCEPT ![Prewarmer] =
                         [Idle EXCEPT !.book = b, !.at = "path"]]
    /\ pass' = [pass EXCEPT !.todo = @ \ {b}]
    /\ UNCHANGED <<source, file, rows, failures, late, changes>>

\* Converted or not, the pass goes on with the next book.
Visited ==
    /\ actor[Prewarmer].at \in {"open", "refused"}
    /\ actor' = [actor EXCEPT ![Prewarmer] = Idle]
    /\ UNCHANGED <<source, file, rows, failures, pass, late, changes>>

-----------------------------------------------------------------------------
(* The world *)

Change(what) ==
    /\ what \in Happens /\ changes < MaxChanges
    /\ changes' = changes + 1

\* The library replaces the file of a book.
Replace(b) ==
    /\ Change("replace")
    /\ source[b] < MaxVersion
    /\ source' = [source EXCEPT ![b] = @ + 1]
    /\ UNCHANGED <<file, rows, failures, actor, pass, late>>

\* The connection of a download breaks: the context of its request ends.
Cancel(c) ==
    /\ Change("cancel")
    /\ c \in Clients /\ actor[c].at \notin {"idle", "open", "refused"}
    /\ actor[c].live
    /\ actor' = [actor EXCEPT ![c].live = FALSE]
    /\ UNCHANGED <<source, file, rows, failures, pass, late>>

\* handleRebuildKepub deletes the rows of a book, its two statements as one,
\* and triggers a pass.
Rebuild(b) ==
    /\ Change("rebuild")
    /\ rows' = {k \in rows : k[1] # b}
    /\ failures' = {k \in failures : k[1] # b}
    /\ UNCHANGED <<source, file, actor, pass, late>>

\* The process stops and starts again: files and rows stay.
Crash ==
    /\ Change("crash")
    /\ actor' = [a \in Actors |-> Idle]
    /\ pass' = [for |-> "pending", todo |-> {}]
    /\ UNCHANGED <<source, file, rows, failures, late>>

-----------------------------------------------------------------------------
Step(c) == \/ Path(c) \/ Acquire(c) \/ Convert(c) \/ Record(c)
           \/ Open(c) \/ Refused(c) \/ Unlink(c) \/ DeleteRow(c)

PassStep == \/ StartPass \/ Pending \/ Visited
            \/ \E b \in Books : DropStale(b) \/ Visit(b)

Next ==
    \/ \E c \in Callers : Step(c) \/ TooLarge(c) \/ ConvertFails(c)
    \/ \E c \in Clients : Cancel(c) \/ \E b \in Books : Ask(c, b)
    \/ PassStep
    \/ Evict \/ Unlink(Janitor) \/ DeleteRow(Janitor)
    \/ \E b \in Books : Replace(b) \/ Rebuild(b)
    \/ Crash

(***************************************************************************)
(* A goroutine that has begun goes on; the semaphore serves its waiters in *)
(* order, so one that waits gets a slot; the timer of the prewarmer fires. *)
(* Nobody has to ask, to cancel or to evict.                               *)
(***************************************************************************)
Fairness ==
    /\ \A c \in Callers : WF_vars(Step(c)) /\ SF_vars(Acquire(c))
    /\ WF_vars(PassStep)
    /\ WF_vars(Unlink(Janitor) \/ DeleteRow(Janitor))

Spec == Init /\ [][Next]_vars /\ Fairness

-----------------------------------------------------------------------------
(* Properties *)

\* One conversion of a file of a book at a time, however many ask for it: Path
\* joins what is in flight (conv.go, "Concurrent requests for the same book
\* convert once").  Two would rename over each other's files.
OneConversion ==
    \A a, c \in Callers :
        (/\ actor[a].at \in Leading /\ KeyOf(a) \in Key
         /\ actor[c].at \in Leading /\ KeyOf(c) = KeyOf(a)) => a = c

\* A download never brings a book older than the library had when it was asked
\* for, whoever did the conversion, whichever version the converter read, and
\* whatever was replaced, evicted or left behind by a crash in between.
NeverStale == late = {}

\* Every download is answered: those who joined a conversion are told its end,
\* and slots come back, however the conversion ends.
Answered == \A c \in Clients : ~At(c, "idle") ~> At(c, "idle")

\* A book waiting for conversion gets a converted file, or stops waiting because
\* a failure says why, although downloads, failures, cancelled requests and the
\* janitor cross the prewarmer's pass (prewarm.go, "every book has a KEPUB ready").
GetsConverted ==
    \A b \in Books : Awaiting(b) ~> (~Awaiting(b) \/ \E v \in Versions : file[<<b, v>>] # 0)

\* No book waits for ever: what store/books.go says of the listing in which a
\* book "sat under converting for good".
StopsWaiting == \A b \in Books : Awaiting(b) ~> ~Awaiting(b)
=============================================================================
