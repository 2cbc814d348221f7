------------------------------ MODULE WebImport ------------------------------
(***************************************************************************)
(* Books imported from the web: downloads asked for on a page, each in the *)
(* background, beside a sweep that checks every imported book for new      *)
(* chapters.                                                               *)
(*                                                                         *)
(* What is downloaded of a title, and what a book is assembled from, is a  *)
(* version for each chapter, 0 for one that is not there.                  *)
(***************************************************************************)
EXTENDS Naturals, FiniteSets

CONSTANTS
    Links,       \* a link with its translation: what the runner keeps apart
    Titles,      \* what the site has: what the cache and the file belong to
    TitleOf,     \* the title a link leads to
    Chapters,
    Ranges,      \* the sets of chapters that can be asked for
    Closed,      \* those with a last chapter set, which are not checked
    Requests,    \* downloads started on the page
    Sweeper,
    None,
    MaxVersion,  \* bound: versions of a chapter
    MaxChanges,  \* bound: changes of the world in one behaviour
    Happens      \* the changes of the world that a run exercises

ASSUME WebImportAssumption ==
    /\ TitleOf \in [Links -> Titles]
    /\ Ranges \subseteq SUBSET Chapters
    /\ Closed \subseteq Ranges
    /\ Sweeper \notin Requests
    /\ None \notin Links \cup [Chapters -> Nat]
    /\ MaxVersion \in Nat \ {0} /\ MaxChanges \in Nat
    /\ Happens \subseteq {"publish", "import", "refresh", "rebuild", "redownload",
                          "purge", "fail", "crash"}

Runs     == Requests \cup {Sweeper}
Content  == [Chapters -> 0..MaxVersion]
Nothing  == [c \in Chapters |-> 0]
Has(x)   == {c \in Chapters : x[c] # 0}

VARIABLES
    site,      \* what the site has of a title
    cache,     \* the chapters downloaded: <job>
    aside,     \* the chapters set aside: <job>.before, None if it is not there
    file,      \* the assembled file: what it was assembled from, None if it is gone
    source,    \* the source of imported books: none, created, or marked as web
    row,       \* web_imports: the range, and what the book was assembled from
    claimed,   \* runner.running, of the imports that are not finished
    run,       \* what every import is doing
    toCheck,   \* the imports the sweep has still to check, as they were listed
    sweeping,
    purged,    \* titles whose rows are purged and whose files are not yet
    stranded,  \* history: chapters fetched by imports that ended before their row
    orphaned,  \* history: titles purged in the middle of being downloaded again
    changes    \* how often the world has changed

sweep == <<toCheck, sweeping>>

vars == <<site, cache, aside, file, source, row, claimed, run, sweep, purged,
          stranded, orphaned, changes>>

Row    == [range : Ranges, holds : Content]
Places == {"idle", "webSource", "mark", "existing", "aside", "plan", "download",
           "decide", "build", "record"}
Kinds  == {"check", "rebuild", "redownload"}
Idle   == [at |-> "idle", link |-> None, kind |-> "check", range |-> {}, known |-> None,
           before |-> {}, todo |-> {}, state |-> Nothing]

ImportState == [at : Places, link : Links \cup {None}, kind : Kinds,
                range : Ranges \cup {{}}, known : Row \cup {None},
                before : SUBSET Chapters, todo : SUBSET Chapters, state : Content]

TypeOK ==
    /\ site \in [Titles -> Content]
    /\ cache \in [Titles -> Content]
    /\ aside \in [Titles -> Content \cup {None}]
    /\ file \in [Titles -> Content \cup {None}]
    /\ source \in {"none", "calibre", "web"}
    /\ row \in [Links -> Row \cup {None}]
    /\ claimed \subseteq Links
    /\ run \in [Runs -> ImportState]
    /\ toCheck \in [Links -> Ranges \cup {None}]
    /\ sweeping \in BOOLEAN
    /\ purged \subseteq Titles
    /\ stranded \in [Titles -> SUBSET Chapters]
    /\ orphaned \subseteq Titles
    /\ changes \in 0..MaxChanges

Part(x, range) == [c \in Chapters |-> IF c \in range THEN x[c] ELSE 0]

\* Nothing is imported yet, or some links are, as much of them as the site has.
Init ==
    /\ site \in [Titles -> [Chapters -> {0, 1}]]
    /\ \E imported \in SUBSET Links, range \in Ranges :
        /\ source = IF imported = {} THEN "none" ELSE "web"
        /\ row = [l \in Links |-> IF l \in imported
                    THEN [range |-> range, holds |-> Part(site[TitleOf[l]], range)] ELSE None]
        /\ LET known == {TitleOf[l] : l \in imported} IN
           /\ cache = [t \in Titles |-> IF t \in known THEN Part(site[t], range) ELSE Nothing]
           /\ file = [t \in Titles |-> IF t \in known THEN Part(site[t], range) ELSE None]
    /\ aside = [t \in Titles |-> None]
    /\ claimed = {}
    /\ run = [a \in Runs |-> Idle]
    /\ toCheck = [l \in Links |-> None]
    /\ sweeping = FALSE
    /\ purged = {}
    /\ stranded = [t \in Titles |-> {}]
    /\ orphaned = {}
    /\ changes = 0

-----------------------------------------------------------------------------
(* What an import works with *)

At(a, place) == run[a].at = place
Title(a)     == TitleOf[run[a].link]
Move(a, place) == run' = [run EXCEPT ![a].at = place]

\* Something outside happens, within the bound.
Change(what) ==
    /\ what \in Happens /\ changes < MaxChanges
    /\ changes' = changes + 1

Redownloading(a) == run[a].kind = "redownload" /\ run[a].known # None

NeverRestore(t) == UNCHANGED <<cache, aside>> \* seeded bug: what was set aside stays there
\* restoreCache: what was set aside takes the place of what was downloaded since.
RestoreCache(t) ==
    IF aside[t] = None THEN UNCHANGED <<cache, aside>>
    ELSE cache' = [cache EXCEPT ![t] = aside[t]] /\ aside' = [aside EXCEPT ![t] = None]

\* newlyDone: the chapters this import fetched.
NewlyDone(a) == (Has(cache[Title(a)]) \cap run[a].range) \ run[a].before

UnchangedWithoutFile(a) == \* seeded bug: a file that is gone is not missed
    LET known == run[a].known IN
    /\ known # None
    /\ known.range = run[a].range
    /\ IF run[a].kind = "check" THEN NewlyDone(a) = {}
       ELSE known.holds = Part(cache[Title(a)], run[a].range)
\* The same range, the file is there, and no chapter was fetched; or, when it was
\* asked for, the file would be built from the same.
Unchanged(a) ==
    LET known == run[a].known IN
    /\ known # None
    /\ known.range = run[a].range
    /\ file[Title(a)] # None
    /\ IF run[a].kind = "check" THEN NewlyDone(a) = {}
       ELSE known.holds = Part(cache[Title(a)], run[a].range)

MayClaimAlways(l) == TRUE \* seeded bug: acquire does not look for an unfinished import
\* acquire succeeds.
MayClaim(l) == l \notin claimed

\* run and Start: the import of a link begins.
Begins(a, l, kind, range) ==
    /\ claimed' = claimed \cup {l}
    /\ run' = [run EXCEPT ![a] = [Idle EXCEPT !.at = "webSource", !.link = l,
                                       !.kind = kind, !.range = range]]

EndClaimed(a) == \* seeded bug: the claim is kept
    run' = [run EXCEPT ![a] = Idle] /\ UNCHANGED claimed
\* finish.
End(a) ==
    /\ run' = [run EXCEPT ![a] = Idle]
    /\ claimed' = claimed \ {run[a].link}

Fetched(a) == IF run[a].at \in {"download", "decide", "build", "record"}
              THEN NewlyDone(a) ELSE {}

-----------------------------------------------------------------------------
(* Importer.Import *)

\* webSource creates the source of imported books, whose name is unique; one that
\* was created and not marked is not found, and cannot be created again.
WebSource(a) ==
    /\ At(a, "webSource")
    /\ \/ source = "web" /\ Move(a, "existing") /\ UNCHANGED <<source, claimed>>
       \/ source = "none" /\ source' = "calibre" /\ Move(a, "mark") /\ UNCHANGED claimed
       \/ source = "calibre" /\ End(a) /\ UNCHANGED source
    /\ UNCHANGED <<site, cache, aside, file, row, sweep, purged, stranded, orphaned,
                   changes>>

MarkWebSource(a) ==
    /\ At(a, "mark")
    /\ source' = "web"
    /\ Move(a, "existing")
    /\ UNCHANGED <<site, cache, aside, file, row, claimed, sweep, purged, stranded,
                   orphaned, changes>>

\* existingImport; what an interrupted import had set aside is put back.
ReadExisting(a) ==
    /\ At(a, "existing")
    /\ LET known == row[run[a].link] IN
       /\ run' = [run EXCEPT ![a].known = known,
                             ![a].at = IF run[a].kind = "redownload" /\ known # None
                                       THEN "aside" ELSE "plan"]
       /\ IF known = None THEN UNCHANGED <<cache, aside>> ELSE RestoreCache(Title(a))
    /\ UNCHANGED <<site, file, source, row, claimed, sweep, purged, stranded, orphaned,
                   changes>>

\* setCacheAside: an imported book always has a directory of chapters, maybe none.
SetCacheAside(a) ==
    /\ At(a, "aside")
    /\ aside' = [aside EXCEPT ![Title(a)] = cache[Title(a)]]
    /\ cache' = [cache EXCEPT ![Title(a)] = Nothing]
    /\ Move(a, "plan")
    /\ UNCHANGED <<site, file, source, row, claimed, sweep, purged, stranded, orphaned,
                   changes>>

\* jobs.Plan: the chapters of the range that the site has and the cache has not.
Plan(a) ==
    /\ At(a, "plan")
    /\ LET here == Has(cache[Title(a)]) IN
       run' = [run EXCEPT ![a].at = "download",
                          ![a].before = here \cap run[a].range,
                          ![a].todo = (Has(site[Title(a)]) \cap run[a].range) \ here]
    /\ UNCHANGED <<site, cache, aside, file, source, row, claimed, sweep, purged,
                   stranded, orphaned, changes>>

\* j.Download, a chapter at a time.
Fetch(a) ==
    /\ At(a, "download")
    /\ \E c \in run[a].todo :
        /\ cache' = [cache EXCEPT ![Title(a)][c] = site[Title(a)][c]]
        /\ run' = [run EXCEPT ![a].todo = @ \ {c}]
    /\ UNCHANGED <<site, aside, file, source, row, claimed, sweep, purged, stranded,
                   orphaned, changes>>

\* All is fetched; dropCacheAside.
Downloaded(a) ==
    /\ At(a, "download") /\ run[a].todo = {}
    /\ Move(a, "decide")
    /\ aside' = IF Redownloading(a) THEN [aside EXCEPT ![Title(a)] = None] ELSE aside
    /\ UNCHANGED <<site, cache, file, source, row, claimed, sweep, purged, stranded,
                   orphaned, changes>>

\* The site fails half way: what came is kept, unless it was to replace what was here.
DownloadStops(a) ==
    /\ Change("fail")
    /\ At(a, "download")
    /\ IF Redownloading(a) THEN RestoreCache(Title(a)) /\ End(a)
       ELSE Move(a, "decide") /\ UNCHANGED <<cache, aside, claimed>>
    /\ UNCHANGED <<site, file, source, row, sweep, purged, stranded, orphaned>>

\* With nothing new the book is left alone.
Decide(a) ==
    /\ At(a, "decide")
    /\ IF Unchanged(a) THEN End(a)
       ELSE /\ run' = [run EXCEPT ![a].at = "build",
                                  ![a].state = Part(cache[Title(a)], run[a].range)]
            /\ UNCHANGED claimed
    /\ UNCHANGED <<site, cache, aside, file, source, row, sweep, purged, stranded,
                   orphaned, changes>>

Build(a) ==
    /\ At(a, "build")
    /\ file' = [file EXCEPT ![Title(a)] = run[a].state]
    /\ Move(a, "record")
    /\ UNCHANGED <<site, cache, aside, source, row, claimed, sweep, purged, stranded,
                   orphaned, changes>>

\* record, which fails if the file is gone again, and the event in the history.
Record(a) ==
    /\ At(a, "record")
    /\ IF file[Title(a)] = None
       THEN /\ stranded' = [stranded EXCEPT ![Title(a)] = @ \cup NewlyDone(a)]
            /\ UNCHANGED row
       ELSE /\ row' = [row EXCEPT ![run[a].link] =
                         [range |-> run[a].range, holds |-> run[a].state]]
            /\ stranded' = [stranded EXCEPT ![Title(a)] = @ \ Has(run[a].state)]
    /\ End(a)
    /\ UNCHANGED <<site, cache, aside, file, source, sweep, purged, orphaned, changes>>

\* Any other step fails: the import ends, and puts back what it set aside if it has
\* not fetched everything afresh.
Fails(a) ==
    /\ Change("fail")
    /\ run[a].at \notin {"idle", "download", "decide"}
    /\ IF At(a, "plan") /\ Redownloading(a) THEN RestoreCache(Title(a))
       ELSE UNCHANGED <<cache, aside>>
    /\ stranded' = [stranded EXCEPT ![Title(a)] = @ \cup Fetched(a)]
    /\ End(a)
    /\ UNCHANGED <<site, file, source, row, sweep, purged, orphaned>>

-----------------------------------------------------------------------------
(* The page *)

StartImport(r, l, range) ==
    /\ Change("import")
    /\ At(r, "idle") /\ MayClaim(l)
    /\ Begins(r, l, "check", range)
    /\ UNCHANGED <<site, cache, aside, file, source, row, sweep, purged, stranded,
                   orphaned>>

\* StartRefresh, StartRebuild, StartRedownload of an imported book; its link is read and
\* claimed in one step.
StartAgain(r, l) ==
    /\ At(r, "idle") /\ row[l] # None /\ MayClaim(l)
    /\ \/ /\ Change("refresh") /\ row[l].range \notin Closed
          /\ Begins(r, l, "check", row[l].range)
       \/ Change("rebuild") /\ Begins(r, l, "rebuild", row[l].range)
       \/ Change("redownload") /\ Begins(r, l, "redownload", row[l].range)
    /\ UNCHANGED <<site, cache, aside, file, source, row, sweep, purged, stranded,
                   orphaned>>

\* PurgeBook deletes the rows, then the files; the cache stays.
PurgeRows(l) ==
    /\ Change("purge")
    /\ row[l] # None
    /\ row' = [row EXCEPT ![l] = None]
    /\ purged' = purged \cup {TitleOf[l]}
    /\ orphaned' = IF aside[TitleOf[l]] # None
                      \/ \E a \in Runs : run[a].link = l /\ Redownloading(a)
                   THEN orphaned \cup {TitleOf[l]} ELSE orphaned
    /\ UNCHANGED <<site, cache, aside, file, source, claimed, run, sweep, stranded>>
PurgeFiles(t) ==
    /\ t \in purged
    /\ file' = [file EXCEPT ![t] = None]
    /\ purged' = purged \ {t}
    /\ UNCHANGED <<site, cache, aside, source, row, claimed, run, sweep, stranded,
                   orphaned, changes>>

-----------------------------------------------------------------------------
(* RefreshAll *)

\* The timer fires, and the imports are listed.
BeginSweep ==
    /\ ~sweeping
    /\ sweeping' = TRUE
    /\ toCheck' = [l \in Links |-> IF row[l] = None THEN None ELSE row[l].range]
    /\ UNCHANGED <<site, cache, aside, file, source, row, claimed, run, purged,
                   stranded, orphaned, changes>>

\* One at a time; those with a last chapter and those being downloaded are passed over.
CheckNext(l) ==
    /\ sweeping /\ At(Sweeper, "idle") /\ toCheck[l] # None
    /\ toCheck' = [toCheck EXCEPT ![l] = None]
    /\ IF toCheck[l] \notin Closed /\ MayClaim(l) THEN Begins(Sweeper, l, "check", toCheck[l])
       ELSE UNCHANGED <<run, claimed>>
    /\ UNCHANGED <<site, cache, aside, file, source, row, sweeping, purged, stranded,
                   orphaned, changes>>

EndSweep ==
    /\ sweeping /\ At(Sweeper, "idle") /\ \A l \in Links : toCheck[l] = None
    /\ sweeping' = FALSE
    /\ UNCHANGED <<site, cache, aside, file, source, row, claimed, run, toCheck, purged,
                   stranded, orphaned, changes>>

-----------------------------------------------------------------------------
(* The world *)

\* The site publishes a chapter, or edits one.
Publish(t, c) ==
    /\ Change("publish")
    /\ site[t][c] < MaxVersion
    /\ site' = [site EXCEPT ![t][c] = @ + 1]
    /\ UNCHANGED <<cache, aside, file, source, row, claimed, run, sweep, purged,
                   stranded, orphaned>>

\* The process stops, and starts again.
Crash ==
    /\ Change("crash")
    /\ run' = [a \in Runs |-> Idle]
    /\ claimed' = {} /\ sweeping' = FALSE /\ purged' = {}
    /\ toCheck' = [l \in Links |-> None]
    /\ stranded' = [t \in Titles |-> stranded[t] \cup
            UNION {Fetched(a) : a \in {x \in Runs : ~At(x, "idle") /\ Title(x) = t}}]
    /\ UNCHANGED <<site, cache, aside, file, source, row, orphaned>>

-----------------------------------------------------------------------------
ImportStep(a) == \/ WebSource(a) \/ MarkWebSource(a) \/ ReadExisting(a)
                 \/ SetCacheAside(a) \/ Plan(a) \/ Fetch(a) \/ Downloaded(a)
                 \/ Decide(a) \/ Build(a) \/ Record(a)

SweepStep == BeginSweep \/ EndSweep \/ \E l \in Links : CheckNext(l)

Next ==
    \/ \E a \in Runs : ImportStep(a) \/ DownloadStops(a) \/ Fails(a)
    \/ \E r \in Requests, l \in Links :
        \/ \E range \in Ranges : StartImport(r, l, range)
        \/ StartAgain(r, l)
    \/ \E l \in Links : PurgeRows(l)
    \/ \E t \in Titles : PurgeFiles(t) \/ \E c \in Chapters : Publish(t, c)
    \/ SweepStep
    \/ Crash

\* An import that has begun goes on, as does a purge; the timer of the sweep fires.
Fairness ==
    /\ \A a \in Runs : WF_vars(ImportStep(a))
    /\ \A t \in Titles : WF_vars(PurgeFiles(t))
    /\ WF_vars(SweepStep)

Spec == Init /\ [][Next]_vars /\ Fairness

-----------------------------------------------------------------------------
(* Properties *)

\* Two imports never work on one title at once, in one cache and over one file
\* (background.go).
OneAtATime == \A a, b \in Runs :
    (a # b /\ ~At(a, "idle") /\ ~At(b, "idle")) => Title(a) # Title(b)

\* What a book holds is still downloaded, or set aside and about to be put back,
\* however often it is downloaded again and wherever that fails or stops; but not for
\* one that is purged in the middle: what was set aside then comes back over the
\* chapters of the next import.
KeepsChapters == \A l \in Links : row[l] # None /\ TitleOf[l] \notin orphaned =>
    LET t == TitleOf[l] IN
    Has(row[l].holds) \subseteq
        Has(cache[t]) \cup (IF aside[t] = None THEN {} ELSE Has(aside[t]))

\* A failure never ships a shorter book (docs/NOTES.md): it loses a chapter only
\* when another range was asked for.
NeverShorter == [][\A l \in Links :
    (/\ row[l] # None /\ row'[l] # None /\ row[l].range = row'[l].range
     /\ TitleOf[l] \notin orphaned)
    => Has(row[l].holds) \subseteq Has(row'[l].holds)]_vars

Checked(l) == row[l] # None /\ row[l].range \notin Closed /\ source = "web"
Arrived(l) == Has(site[TitleOf[l]]) \cap row[l].range \subseteq Has(row[l].holds)

\* Every chapter the site publishes is in the book in the end, but for those that an
\* import fetched and then failed or stopped before it had recorded them, and for a
\* book purged while it was being downloaded again.
ChaptersArrive == \A l \in Links : <>[](Checked(l) /\ TitleOf[l] \notin orphaned =>
    Has(site[TitleOf[l]]) \cap row[l].range
        \subseteq Has(row[l].holds) \cup stranded[TitleOf[l]])

\* A book that is checked has its file, though a purge of the same book may delete
\* it from under the import that has just assembled it.
FileComesBack == \A l \in Links : <>[](Checked(l) => file[TitleOf[l]] # None)

\* New chapters are picked up on a timer (README.md), whatever went wrong before.
AllArrive == \A l \in Links : <>[](Checked(l) => Arrived(l))
=============================================================================
