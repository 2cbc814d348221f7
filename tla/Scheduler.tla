------------------------------ MODULE Scheduler ------------------------------
(***************************************************************************)
(* Scanning libraries: a worker per source, woken by a timer or a trigger, *)
(* one scan slot for the workers, and scans asked for on the web page,     *)
(* which run in their request beside them.                                 *)
(*                                                                         *)
(* A scan compares the library with the rows kept of it.  Of a book only   *)
(* the time of its last modification is kept, a number here, 0 for a book  *)
(* that is not there; of metadata.db its signature, another number.        *)
(***************************************************************************)
EXTENDS Integers, FiniteSets

CONSTANTS
    Sources,        \* Calibre libraries; a worker is named by its source
    Unknown,        \* the sources that may not have been added yet
    CBooks,         \* the books of a library
    Requests,       \* web requests that scan
    None,
    vanishFloor,    \* 25 in the code
    MaxChanges,     \* bound: changes of the world in one behaviour
    Happens         \* the changes of the world that a run exercises

ASSUME SchedulerAssumption ==
    /\ Unknown \subseteq Sources
    /\ Sources \cap Requests = {}
    /\ None \notin Sources
    /\ IsFiniteSet(CBooks)
    /\ vanishFloor \in Nat
    /\ MaxChanges \in Nat
    /\ Happens \subseteq {"edit", "wal", "unmount", "fail", "add", "toggle", "scan", "crash"}

Scanners == Sources \cup Requests
Stamps   == 0..(MaxChanges + 1)

VARIABLES
    library,     \* the library on disk: its books, the signature of metadata.db,
                 \* whether all changes are in that file (not in its WAL), mounted
    source,      \* a row of sources: added, enabled, last_status, and the signature
                 \* that kv_settings keeps for it (0 if none)
    rows,        \* rows[s][b]: last_modified of a row of source_books, and missing
    worker,      \* where the worker of a source is
    registered,  \* the keys of Scheduler.triggers
    pending,     \* the triggers with a request in their channel
    scan,        \* what every scan is doing
    overlapped,  \* history: the sources ever scanned twice at once
    absent,      \* history: books a library was ever without
    changes      \* how often the world has changed

vars == <<library, source, rows, worker, registered, pending, scan,
          overlapped, absent, changes>>

Places   == {"idle", "begin", "stat", "compare", "open", "stored", "commit",
             "save", "finish"}
Statuses == {"never", "running", "ok", "failed", "suspicious"}
Nothing  == [b \in CBooks |-> 0]
Idle     == [at |-> "idle", source |-> None, force |-> FALSE, confirm |-> FALSE,
             status |-> "never", sig |-> 0, read |-> Nothing, write |-> Nothing,
             gone |-> {}]

Contents == [CBooks -> Stamps]
Row      == [stamp : Stamps, missing : BOOLEAN]
ScanState == [at : Places, source : Sources \cup {None}, force : BOOLEAN,
              confirm : BOOLEAN, status : Statuses, sig : Stamps,
              read : Contents, write : Contents, gone : SUBSET CBooks]

TypeOK ==
    /\ library \in [Sources -> [books : Contents, sig : Stamps,
                                saved : BOOLEAN, mounted : BOOLEAN]]
    /\ source \in [Sources -> [added : BOOLEAN, enabled : BOOLEAN,
                               status : Statuses, sig : Stamps]]
    /\ rows \in [Sources -> [CBooks -> Row]]
    /\ worker \in [Sources -> {"none", "waiting", "awake", "leaving", "slot", "scanning"}]
    /\ registered \subseteq Sources
    /\ pending \subseteq registered
    /\ scan \in [Scanners -> ScanState]
    /\ overlapped \subseteq Sources
    /\ absent \in [Sources -> SUBSET CBooks]
    /\ changes \in 0..MaxChanges

\* Start: a worker for every source that is enabled.
Start ==
    LET on == {s \in Sources : source[s].added /\ source[s].enabled} IN
    /\ worker' = [s \in Sources |-> IF s \in on THEN "waiting" ELSE "none"]
    /\ registered' = on
    /\ pending' = {}

Init ==
    /\ library = [s \in Sources |-> [books |-> [b \in CBooks |-> 1], sig |-> 1,
                                     saved |-> TRUE, mounted |-> TRUE]]
    /\ rows = [s \in Sources |-> [b \in CBooks |-> [stamp |-> 0, missing |-> FALSE]]]
    /\ \E new \in SUBSET Unknown :
        /\ source = [s \in Sources |-> [added |-> s \notin new, enabled |-> TRUE,
                                        status |-> "never", sig |-> 0]]
        /\ worker = [s \in Sources |-> IF s \in new THEN "none" ELSE "waiting"]
        /\ registered = Sources \ new
    /\ pending = {}
    /\ scan = [a \in Scanners |-> Idle]
    /\ overlapped = {}
    /\ absent = [s \in Sources |-> {}]
    /\ changes = 0

-----------------------------------------------------------------------------
(* What a scan finds *)

AlwaysReachable(s) == TRUE \* seeded bug: an unmounted share is an empty library
\* calibre.Stat and calibre.Open fail: ErrUnreachable.
Reachable(s) == library[s].mounted

\* The directory of an unmounted share is there, and empty.
Found(s) == IF library[s].mounted THEN library[s].books ELSE Nothing

\* vanishLimit: a fifth of the rows, or the floor.
VanishLimit(n) == IF n \div 5 > vanishFloor THEN n \div 5 ELSE vanishFloor

Known(r)       == {b \in CBooks : r[b].stamp # 0}
Vanished(r, found) == {b \in Known(r) : ~r[b].missing /\ found[b] = 0}

\* The books to read in full: new, back again, or modified.
Changed(r, found) ==
    {b \in CBooks : found[b] # 0 /\ (r[b].missing \/ r[b].stamp # found[b])}

TooManyGone(r, found) ==
    Cardinality(Vanished(r, found)) > VanishLimit(Cardinality(Known(r)))

Suspicious(a, r) == ~scan[a].confirm /\ TooManyGone(r, scan[a].read)

SignatureNow(a) == library[scan[a].source].sig \* seeded bug: taken after the copy
\* sigValue: the signature from before the copy was made.
Signature(a) == scan[a].sig

At(a, place) == scan[a].at = place
Active(s)    == {a \in Scanners : scan[a].at # "idle" /\ scan[a].source = s}

\* Scan begins; a second one of the same source overlaps it.
Begins(a, s, force, confirm) ==
    /\ scan' = [scan EXCEPT ![a] = [Idle EXCEPT !.at = "begin", !.source = s,
                                         !.force = force, !.confirm = confirm]]
    /\ overlapped' = IF Active(s) # {} THEN overlapped \cup {s} ELSE overlapped

EndKeepingSlot(a) == \* seeded bug: the slot is not given back
    /\ scan' = [scan EXCEPT ![a] = Idle]
    /\ UNCHANGED worker
\* Scan returns; a worker gives the slot back and sets its timer.
End(a) ==
    /\ scan' = [scan EXCEPT ![a] = Idle]
    /\ worker' = IF a \in Sources THEN [worker EXCEPT ![a] = "waiting"] ELSE worker

SetStatus(s, status) == source' = [source EXCEPT ![s].status = status]
Move(a, place)       == scan' = [scan EXCEPT ![a].at = place]

\* Something outside happens, within the bound.
Change(what) ==
    /\ what \in Happens /\ changes < MaxChanges
    /\ changes' = changes + 1

-----------------------------------------------------------------------------
(* The worker of a source *)

\* The timer fires, or the trigger was asked for; when both are ready either wins.
Wake(s) ==
    /\ worker[s] = "waiting"
    /\ worker' = [worker EXCEPT ![s] = "awake"]
    /\ pending' \in {pending, pending \ {s}}
    /\ UNCHANGED <<library, source, rows, registered, scan, overlapped, absent, changes>>

\* The worker of a source that was turned off goes.
CheckSource(s) ==
    /\ worker[s] = "awake"
    /\ worker' = [worker EXCEPT ![s] = IF source[s].enabled THEN "slot" ELSE "leaving"]
    /\ UNCHANGED <<library, source, rows, registered, pending, scan, overlapped,
                   absent, changes>>

\* GetSource fails: the worker goes and leaves its channel, so requests are heard
\* by nobody.
Stray(s) ==
    /\ worker[s] = "awake"
    /\ Change("fail")
    /\ worker' = [worker EXCEPT ![s] = "none"]
    /\ UNCHANGED <<library, source, rows, registered, pending, scan, overlapped, absent>>

\* Its channel goes with it, and a request in it.
Leave(s) ==
    /\ worker[s] = "leaving"
    /\ worker' = [worker EXCEPT ![s] = "none"]
    /\ registered' = registered \ {s}
    /\ pending' = pending \ {s}
    /\ UNCHANGED <<library, source, rows, scan, overlapped, absent, changes>>

\* scanOnce takes the slot and scans.
TakeSlot(s) ==
    /\ worker[s] = "slot"
    /\ \A x \in Sources : worker[x] # "scanning"
    /\ worker' = [worker EXCEPT ![s] = "scanning"]
    /\ Begins(s, s, FALSE, FALSE)
    /\ UNCHANGED <<library, source, rows, registered, pending, absent, changes>>

-----------------------------------------------------------------------------
(* Scanner.Scan *)

\* GetSource: the status as it is now.
ReadSource(a) ==
    /\ At(a, "begin")
    /\ scan' = [scan EXCEPT ![a].at = "stat", ![a].status = source[scan[a].source].status]
    /\ UNCHANGED <<library, source, rows, worker, registered, pending, overlapped,
                   absent, changes>>

\* calibre.Stat; an unreachable library is noted, and nothing else.
StatLibrary(a) ==
    /\ At(a, "stat")
    /\ LET s == scan[a].source IN
       IF Reachable(s)
       THEN /\ scan' = [scan EXCEPT ![a].at = "compare", ![a].sig = library[s].sig]
            /\ UNCHANGED <<source, worker>>
       ELSE SetStatus(s, "failed") /\ End(a)
    /\ UNCHANGED <<library, rows, registered, pending, overlapped, absent, changes>>

\* Nothing to do if the last scan was whole and metadata.db is as it was.
Compare(a) ==
    /\ At(a, "compare")
    /\ LET s == scan[a].source IN
       IF ~scan[a].force /\ scan[a].status = "ok" /\ source[s].sig = scan[a].sig
       THEN End(a) /\ UNCHANGED source
       ELSE /\ SetStatus(s, "running")
            /\ scan' = [scan EXCEPT ![a].at = "open", ![a].status = "running"]
            /\ UNCHANGED worker
    /\ UNCHANGED <<library, rows, registered, pending, overlapped, absent, changes>>

\* calibre.Open copies the library, WAL and all; the stubs are read from the copy.
OpenLibrary(a) ==
    /\ At(a, "open")
    /\ LET s == scan[a].source IN
       IF Reachable(s)
       THEN /\ scan' = [scan EXCEPT ![a].at = "stored", ![a].read = Found(s)]
            /\ UNCHANGED <<source, worker>>
       ELSE SetStatus(s, "failed") /\ End(a)
    /\ UNCHANGED <<library, rows, registered, pending, overlapped, absent, changes>>

\* SourceStubs, and the guard: what to read and what is gone is decided here.
ReadStored(a) ==
    /\ At(a, "stored")
    /\ LET s == scan[a].source IN
       IF Suspicious(a, rows[s])
       THEN SetStatus(s, "suspicious") /\ End(a)
       ELSE LET changed == Changed(rows[s], scan[a].read) IN
            /\ scan' = [scan EXCEPT ![a].at = "commit",
                    ![a].write = [b \in CBooks |-> IF b \in changed THEN scan[a].read[b] ELSE 0],
                    ![a].gone = Vanished(rows[s], scan[a].read)]
            /\ UNCHANGED <<source, worker>>
    /\ UNCHANGED <<library, rows, registered, pending, overlapped, absent, changes>>

\* The transaction: the changed books are written, the vanished flagged.
Commit(a) ==
    /\ At(a, "commit")
    /\ rows' = [rows EXCEPT ![scan[a].source] =
            [b \in CBooks |->
                IF b \in scan[a].gone THEN [rows[scan[a].source][b] EXCEPT !.missing = TRUE]
                ELSE IF scan[a].write[b] # 0
                THEN [stamp |-> scan[a].write[b], missing |-> FALSE]
                ELSE rows[scan[a].source][b]]]
    /\ scan' = [scan EXCEPT ![a].at = "save", ![a].read = Nothing,
                            ![a].write = Nothing, ![a].gone = {}]
    /\ UNCHANGED <<library, source, worker, registered, pending, overlapped,
                   absent, changes>>

\* SetKV: the signature to skip by.
SaveSignature(a) ==
    /\ At(a, "save")
    /\ source' = [source EXCEPT ![scan[a].source].sig = Signature(a)]
    /\ Move(a, "finish")
    /\ UNCHANGED <<library, rows, worker, registered, pending, overlapped,
                   absent, changes>>

Finish(a) ==
    /\ At(a, "finish")
    /\ SetStatus(scan[a].source, "ok")
    /\ End(a)
    /\ UNCHANGED <<library, rows, registered, pending, overlapped, absent, changes>>

-----------------------------------------------------------------------------
(* The web page *)

\* Scheduler.Trigger: a source without a worker has no channel, and a request
\* while one is pending is folded into it.
Trigger(s) == pending' = IF s \in registered THEN pending \cup {s} ELSE pending

\* handleCreateSource; scanInBackground triggers.
AddSource(s) ==
    /\ Change("add")
    /\ ~source[s].added /\ Reachable(s)
    /\ source' = [source EXCEPT ![s].added = TRUE]
    /\ Trigger(s)
    /\ UNCHANGED <<library, rows, worker, registered, scan, overlapped, absent>>

\* handleToggleSource; the books it re-resolves are not scanned.
ToggleSource(s) ==
    /\ Change("toggle")
    /\ source[s].added
    /\ \E on \in BOOLEAN :
        /\ source' = [source EXCEPT ![s].enabled = on]
        /\ IF on THEN Trigger(s) ELSE UNCHANGED pending
    /\ UNCHANGED <<library, rows, worker, registered, scan, overlapped, absent>>

\* handleScanSource: a scan of its own, beside the worker's, maybe confirmed.
ScanNow(r, s) ==
    /\ Change("scan")
    /\ At(r, "idle") /\ source[s].added
    /\ \E confirm \in BOOLEAN : Begins(r, s, TRUE, confirm)
    /\ UNCHANGED <<library, source, rows, worker, registered, pending, absent>>

-----------------------------------------------------------------------------
(* The world *)

\* A statement, the copy of metadata.db or of the books, or the context fails; the
\* status may not be written.
ScanFails(a) ==
    /\ Change("fail")
    /\ ~At(a, "idle")
    /\ \/ UNCHANGED source
       \/ /\ scan[a].at \in {"open", "stored", "commit", "save"}
          /\ SetStatus(scan[a].source, "failed")
    /\ End(a)
    /\ UNCHANGED <<library, rows, registered, pending, overlapped, absent>>

\* The process stops, and starts again.
Crash ==
    /\ Change("crash")
    /\ scan' = [a \in Scanners |-> Idle]
    /\ Start
    /\ UNCHANGED <<library, source, rows, overlapped, absent>>

\* Calibre changes or removes a book, in metadata.db itself or in its WAL.
Edit(s, b) ==
    /\ \/ /\ Change("edit")
          /\ library[s].saved
          /\ library' = [library EXCEPT ![s].books[b] = changes' + 1, ![s].sig = @ + 1]
          /\ UNCHANGED absent
       \/ /\ Change("edit")
          /\ library[s].saved /\ library[s].books[b] # 0
          /\ library' = [library EXCEPT ![s].books[b] = 0, ![s].sig = @ + 1]
          /\ absent' = [absent EXCEPT ![s] = @ \cup {b}]
       \/ /\ Change("wal")
          /\ library' = [library EXCEPT ![s].books[b] = changes' + 1, ![s].saved = FALSE]
          /\ UNCHANGED absent
    /\ UNCHANGED <<source, rows, worker, registered, pending, scan, overlapped>>

\* Calibre moves its WAL into metadata.db.
Checkpoint(s) ==
    /\ ~library[s].saved
    /\ library' = [library EXCEPT ![s].saved = TRUE, ![s].sig = @ + 1]
    /\ UNCHANGED <<source, rows, worker, registered, pending, scan, overlapped,
                   absent, changes>>

\* The share goes away, and comes back.
Unmount(s) ==
    /\ Change("unmount")
    /\ library[s].mounted
    /\ library' = [library EXCEPT ![s].mounted = FALSE]
    /\ UNCHANGED <<source, rows, worker, registered, pending, scan, overlapped, absent>>
Mount(s) ==
    /\ ~library[s].mounted
    /\ library' = [library EXCEPT ![s].mounted = TRUE]
    /\ UNCHANGED <<source, rows, worker, registered, pending, scan, overlapped,
                   absent, changes>>

-----------------------------------------------------------------------------
WorkerStep(s) == Wake(s) \/ CheckSource(s) \/ Leave(s)

ScanStep(a) == \/ ReadSource(a) \/ StatLibrary(a) \/ Compare(a) \/ OpenLibrary(a)
               \/ ReadStored(a) \/ Commit(a) \/ SaveSignature(a) \/ Finish(a)

Next ==
    \/ \E s \in Sources : \/ WorkerStep(s) \/ TakeSlot(s) \/ Stray(s)
                          \/ AddSource(s) \/ ToggleSource(s)
                          \/ Checkpoint(s) \/ Unmount(s) \/ Mount(s)
    \/ \E a \in Scanners : ScanStep(a) \/ ScanFails(a)
    \/ \E r \in Requests, s \in Sources : ScanNow(r, s)
    \/ \E s \in Sources, b \in CBooks : Edit(s, b)
    \/ Crash

(***************************************************************************)
(* Timers fire, a scan that has begun goes on, a worker that waits for the *)
(* slot is served in turn.  Shares need not come back, Calibre need not    *)
(* checkpoint, nobody has to ask.                                          *)
(***************************************************************************)
Fairness ==
    /\ \A s \in Sources : WF_vars(WorkerStep(s)) /\ SF_vars(TakeSlot(s))
    /\ \A a \in Scanners : WF_vars(ScanStep(a))

Spec == Init /\ [][Next]_vars /\ Fairness

-----------------------------------------------------------------------------
(* Properties *)

Matches(s) == \A b \in CBooks :
    IF library[s].books[b] = 0 THEN rows[s][b].stamp = 0 \/ rows[s][b].missing
    ELSE rows[s][b] = [stamp |-> library[s].books[b], missing |-> FALSE]

\* A scan skipped would have found nothing (calibre/open.go, "When it is unchanged
\* since the last scan there is nothing to do"), whatever failed or crashed half
\* way through a scan and however the library changed under it; as long as Calibre
\* has written its changes to metadata.db and no two scans of the source ran at once.
SkipIsSound == \A s \in Sources \ overlapped :
    (/\ source[s].status = "ok" /\ source[s].sig = library[s].sig
     /\ library[s].saved) => Matches(s)

\* A book is flagged missing only if its library was there without it: a share
\* that is away is not a library that lost its books (scanner.go).
OnlyTheGoneAreMissing == \A s \in Sources, b \in CBooks :
    rows[s][b].missing => b \in absent[s]

\* Many books go at once only in a scan the operator confirmed, and nothing short
\* of that: not a scan by hand, not two scans at once.
MassVanishIsConfirmed == [][\A s \in Sources :
    LET gone == {b \in CBooks : ~rows[s][b].missing /\ rows'[s][b].missing} IN
    \/ Cardinality(gone) <= VanishLimit(Cardinality(Known(rows[s])))
    \/ \E a \in Active(s) : scan[a].confirm /\ At(a, "commit") /\ scan'[a].at = "save"]_vars

\* A source with a worker is in the end as its library is, unless that needs a
\* confirmation or two scans overlapped, through failures, crashes, shares that go
\* and come back, and scans that read a library in the middle of its changes.
Ingested == \A s \in Sources : <>[](
    (/\ worker[s] # "none" /\ source[s].enabled
     /\ library[s].mounted /\ library[s].saved /\ s \notin overlapped)
    => Matches(s) \/ TooManyGone(rows[s], library[s].books))

\* A source that was added is scanned without a restart of the server, as the page
\* says when it is added.
AddedIsScanned == \A s \in Sources :
    source[s].added ~> (source[s].status # "never" \/ ~source[s].enabled \/ ~library[s].mounted)
=============================================================================
