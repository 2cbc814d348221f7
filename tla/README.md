# kobibri in TLA+

kobibri serves Calibre libraries to Kobo e-readers in place of Kobo's own store. A
reader asks `GET /v1/library/sync` every few minutes; the server answers with the
difference between the snapshot the reader holds and a new one, in pages. Everything
else (scanning libraries, merging duplicates, converting books, the web interface)
decides what the next snapshot says. The worst failures of this system are silent: a
book that never arrives, a book that is taken away, an update nobody is told of, a
revision that does not move. The modules here are about those.

## 1. Inventory

| Component (under `src/internal`) | State | Operations | Correct when |
|---|---|---|---|
| Library sync: `kobo/sync.go`, `kobo/synctoken.go`, `store/syncpoint.go`, `store/generation.go` | `sync_points` with their books and tags, the cursor of a half-sent one; a token per reader | `handleSync`: lock, `nothingToSay`, `resolveSyncPoint`, `drain`, `SaveSyncCursor` / `CompleteSyncPoint`; `GCSyncPoints`, `ResetDeviceSyncState` | a reader ends up with what the server offers, loses a book only for a reason, is told of every change, and every sync ends |
| Canonical books: `store/books.go`, `store/source_books.go`, `ingest/merge.go`, `ingest/identity.go` | `books` (aliases, hidden, available, syncable, serving hash, revision), `book_identities`, `source_books` | `Attach`, `MergeBooks`, `Resolve`, `SetBookHidden`, series by hand | a key leads to the book its rows are in; a book says what its rows say; a revision moves exactly when what is served moves |
| Scanning: `ingest/scanner.go`, `calibre/` | fingerprint and status of a source, its scan history, a private copy of `metadata.db` | `Scan`, `Open`, `Books` | a share that is away is not a library that lost its books; a scan that is skipped had nothing to find |
| Purge, split, copies, backfill: `ingest/purge.go`, `split.go`, `copies.go`, `backfill.go`, `web/duplicates.go` | aliases, pins, our copies of a library's files | `PurgeBook`, `Split`, `Rejoin`, `KeepBooksOf`, `BackfillCopies` | what was split stays apart, what a kept library offers can be delivered |
| Sources and sharing: `store/sources.go`, `web/handlers.go` | `sources`, `source_acl` | create, edit, toggle, share, delete or keep | a reader sees what its user may see |
| Scan scheduler: `ingest/scheduler.go` | a worker and a trigger per source, one scan slot | `Start`, `Trigger`, worker loop, backoff | an enabled source is scanned again and again; scans do not overlap |
| Collections: `store/tags.go`, `kobo/tags.go`, `ingest/collections.go`, `ingest/columns.go` | `tags`, `tag_books`, settings, the columns chosen and read | the reader's tag requests, `RebuildCollections`, `SetShelfColumns` | shelves follow the library, what a reader threw away stays away, revisions move when contents do |
| Reading positions and statistics: `kobo/readingstate.go`, `store/progress.go`, `readingevents.go`, `readingstats.go` | `reading_states`, `reading_events` | `PUT .../state`, the pages of statistics | a partial update leaves the other sections alone, a position reaches the other readers and is not echoed, minutes are not made up |
| Devices, tokens, users: `store/devices.go`, `users.go`, `sessions.go`, `kobo/middleware.go` | `api_tokens`, `devices`, `device_tombstones`, `sessions`, a token cache | issue, revoke, upsert, tombstones | a revoked token stops working, a reader is one row, a deletion stays on its device |
| kepub and e-book conversion: `kepubconv/`, `ebookconv/`, `kobo/download.go` | cache files and their rows, failure records, single flight, prewarm queue | `Path`, `Evict`, `Prewarmer.Pass`, rebuild | one conversion per book, nothing out of date is served, every book gets converted |
| Covers, text index: `covers/`, `textindex/`, `kobo/covers.go` | rebuildable caches | `Get`, `Evict`, `EnsureAsync`, `OnConverted` | a cache cannot be told from doing the work anew |
| Web import: `webimport/`, `web/imports.go` | `web_imports`, the cache of chapters and what is set aside of it, the assembled files, running imports, events, a site token | `Start`, `StartRefresh`, `StartRebuild`, `StartRedownload`, `RefreshAll`, `Import` | one download per book, no chapter lost, every published chapter arrives |
| Uploads: `upload/` | a source of its own, staged files | `Add`, `Remove` | a failed upload leaves nothing |
| Janitor, process: `cmd/kobibri` | a ticker | `sweep`, start, stop | trims only what may go |
| Web interface, OPDS, reader, proxy, configuration, migrations | none of their own | render, forward, read | no state of their own |

**How they interact.** Everything meets in one SQLite file with a single writer
connection: a transaction, or a statement outside one, is the unit that other parts can
see between. Scans run in scheduler workers and in web requests; sync requests run in
their own goroutines under a lock per device; the janitor, the builder of word indexes,
the prewarmer and the background importers run on timers. A change made by one reaches a
reader only through the next snapshot, and only if the fingerprint of the library moved.

**What is hard.** Statements of a sync interleaving with scans and administrators;
snapshots completed before their last page is known to have arrived; lost answers and
retried requests, a reader or a server restarting between two pages; clean-up racing a
reader that comes back late, or a request that was just given a path; counts and sums
standing in for a comparison; operations made of several transactions; counters of
several readers that start again and clocks that are behind. Each is listed with its
line under `hazards` in `PROJECT.json`.

## 2. Modules

| Module | Models |
|---|---|
| `Library` | books, source rows, sources, sharing, positions, collections, tombstones, as far as a sync can tell: one action per transaction |
| `KoboSync` (extends `Library`) | snapshots, tokens, the sync handler one statement per step, the reader, the network, the janitor, restarts |
| `KoboSyncProofs` | its proofs |
| `Scheduler` | workers, triggers and the slot of the scan scheduler, scans by hand, and a scan of a library statement by statement |
| `SchedulerProofs` | its proofs |
| `Ingest` | identity keys, attaching and merging, resolving, splitting, purging, copies, uploads, removing a library |
| `IngestProofs` | its proofs |
| `Collections` | shelves made on readers and shelves derived from the library, the columns they are built from, rebuilds |
| `CollectionsProofs` | its proofs |
| `Reading` | reports of readers, the place in a book, the history, and the statistics computed from it |
| `Access` | tokens, their cache, the rows of readers and their tombstones |
| `ReaderProofs` (extends `Access` and `Reading`) | the proofs of both: who a reader is, what it reports |
| `KepubCache` | the cache of KEPUBs: downloads, the prewarmer and the janitor over its files and tables |
| `KepubCacheProofs` | its proofs |
| `OnDemand` | the abstract promise of a cache: a request gets what the library held, or is refused |
| `EbookCache` | the cache of converted books with its callers and the builder of word indexes; implements `OnDemand` |
| `CoverCache` (extends `EbookCache`) | scaled covers, their ids, covers recovered from converted books |
| `EbookCacheProofs` | the refinement, and the properties of covers and of word indexes |
| `WebImport` | books imported from the web: an import statement by statement, the page, the sweep, a purge |
| `WebImportProofs` | its proofs |
| `MC...` | each instantiates the module of that name with small values |

`Library` is composed with the sync in `KoboSync`, and `EbookCache` with the covers in
`CoverCache`. The other modules share tables but each takes the others' operations as
one step: `Library` takes a scan as its transaction (`Ingest`, `Vanish`), which
`Scheduler` has statement by statement and `Ingest` row by row; `Reading` takes a sync as
one step, which `KoboSync` has page by page; a merge is in `Library`, `Ingest`, `Reading`
and `Collections`, in each with what it does to the tables of that module.

### State and actions against the code

*Library.* `book[b]` is a row of `books`: `into` is `merged_into`, `rev` is
`metadata_rev`, `hashed` says that `serving_hash` is set, and whether the hash moves is
a choice of each resolution (`changed`). `row[r]` is a row of `source_books`. Ids are
numbers in the order of their uuids, because the code pages by `ORDER BY id`.
`resolving` and `granting` hold what a handler that commits in several transactions has
still to do, so a sync (or a restart) can fall in between: `SetSourceEnabled` /
`ResolveSource`, and `SetSourceSharing` / `ClearSourceACL` / `GrantSource`. A scan's
transaction is one action (`Ingest`, `Vanish`) with its `Attach`, `MergeBooks` and
`Resolve`; several rows in one scan are several actions, which allows everything one
transaction would and more. The content of books, positions and collections is not
modelled, only the revision that decides what is sent.

*KoboSync.* `handler[d]` is the request that holds the lock of device `d` and where it
is: `BeginSync` (lock, token), `NothingToSay` / `SomethingToSay`, `ResumeSync`,
`AbandonSyncPoint`, `ChooseParent`, `CreateSyncPoint` (a transaction), `DrainCategory`
(one turn of `drain`'s loop), `SaveSyncCursor`, `CompleteSyncPoint` and `DropParent`
(its two statements). `StepFails` is any of these statements failing, including the
cancelled context of a connection that is gone (`live = FALSE`). `inbox` and `outbox`
are the connections. `point[p]` is a snapshot with its cursor; `recent` says that it is
younger than the janitor's seven days. The history variable `mayLose[d]` collects the
books device `d` had a reason to lose: hidden, deleted on it, merged away.

*Scheduler.* `library[s]` is a Calibre library on disk: a time of last change per book,
the signature (size and mtime) of `metadata.db`, whether its WAL has been moved into it
(`saved`), and whether the share is mounted. `rows` is what `source_books` keeps of it.
`worker[s]` is the goroutine of `Scheduler.run`, `registered` and `pending` are the keys
of `triggers` and the requests in their channels: `Wake`, `CheckSource`, `TakeSlot`,
and two ways to go, `Leave` for a source that is off and `Stray` for an error, which
leaves the channel behind. `scan[a]` is a run of `Scanner.Scan`, by a worker or by a web
request (which does not take the slot): `ReadSource`, `StatLibrary`, `Compare`,
`OpenLibrary` (the copy, WAL and all), `ReadStored` (the comparison and the guard),
`Commit` (the transaction), `SaveSignature`, `Finish`. `ScanFails` ends it at any of
them, with or without its status being written. Whether a failure is `unreachable` or
another error only picks the length of the next wait, so both are `failed`.
`overlapped` and `absent` are history.

*Ingest.* `book`, `row`, `owner` (`book_identities`) and `source` are the tables; the
operators that change several of them take and return the record `Tables`, as the code
passes one transaction around. `Keys` makes identity keys as `identity.go` does: a
uuid, an ISBN turned into thirteen digits, a link, and the title with the first author.
`IngestBook`, `FileBook` and `Upload` write a row and attach it (`Attach` and
`MergeBooks`, by which the older book survives), `Resolve` picks metadata, cover and
file by rank and moves the revision if `servingHash` did. A handler of several
transactions leaves its rest in `owed` and `deleting`: `SetSourceEnabled`, `EditSource`
and `DeleteSource`, each followed by `ResolveSource`, which may fail and is then only
logged. `Keep` turns the rows of a library that is removed into rows of our own copies;
`Upgrade` is the start of a later version, with `BackfillCopies`. `stale` is history: the
books whose rows changed and which nobody is going to resolve.

*Collections.* `tag` is `tags` with `tag_books`. `HandleCreateTag`, `HandleRenameTag`,
`HandleDeleteTag` and the two of items are the requests of a reader; the operator's are
`HandleSetCollections`, `HandleSetSharing`, `HandleSetSeries`, `HandleHide`,
`HandleToggleSource` and `SetShelfColumns`. Who of them is about to rebuild is in `due`;
`RebuildBegins` reads the mode, `RebuildWrites` is the transaction (`Apply` for every
shelf), `RebuildFails` is only logged. `ScanReads` decides what to read and remembers
the columns, `ScanWrites` is the transaction with the signature. `library` is Calibre.
Names are folded and columns found usable outside the model.

*Reading.* `reader[d][b]` is what a device has: status, position, its own counter of
minutes. `PutState` is a report under way with the sections it has (`Shapes`), its book
resolved before the save; `SaveReadingState` is the transaction (`Upsert`,
`AppendReadingEvent`), `SaveFails` its failure. `Sync` brings positions that moved and
were written by another (`ChangedReadingStateIDs`). `BookStats`, `ReaderStats`,
`Streak`, `LongestRun` and `Heatmap` are the pure functions of `readingstats.go`,
recursive over the history or over the days (recursive functions, so that the proofs
reach them); `Indexes` says what is measured of each book when a page is asked for.
`lived` is history: the minutes really read.

*Access.* A request goes through `LookUp` (cache, then table), `PutInCache`, `AdoptRow`,
`NameNameless`, `InsertOrTouch`, `GetDevice` and `Handle` (`handleDeleteBook`, or any
other), one statement each. `HandleRevokeToken` and `RevokeRemovesReaders` are the two
halves of `RevokeAPIToken`; `Expires` is the minute a cache entry lives. Row numbers are
reused as SQLite reuses them. `deleted` and `raced` are history.

*KepubCache.* `file[k]` is the file of a conversion and remembers which version of the
source it was really made from; `rows` and `failures` are the two tables; a conversion
is named by a book and the fingerprint of its source, here a version number. `actor`
says where each goroutine is: a caller of `Cache.Path` fingerprints, joins a conversion
or leads one (`Path`), waits for a slot (`Acquire`), converts and renames (`Convert`,
`ConvertFails`, `TooLarge`), writes its row (`Record`) and removes conversions of other
versions with the same two-step loop as `Evict` (`Unlink`, `DeleteRow`). `Finish` is
singleflight handing one result to all. The prewarmer visits what `dropStale` and
`pending` listed, one book at a time (`StartPass`, `DropStale`, `Pending`, `Visit`,
`Visited`). `live` is the context: under a cancelled one no statement writes. All files
have size 1, and which rows were used last is left open, so eviction may keep any that
fit. `record`'s two statements, the rename and the conversion before it, and the two
deletes of a rebuild are one step each.

*EbookCache and CoverCache.* `copy[k]` and `rows` are as `file` and `rows` above, for
books of other formats; `Path`, `Acquire`, `Convert`, `Record` and `Open` are
`EPUBFor` with `Cache.Path` under it, by a download, the prewarmer or the builder, which
goes on with `ServedFile` and `Measure`. `shunned` is the hour the builder leaves a book
alone. In `CoverCache`, `cover[b]` is the version of the picture beside a book, `mtime`
and `shown` what the row and the book say of it, `image[i]` the version in the scaled
file of an image id. A request goes through `Get`, `Render`, `Rename`, `RecordPicture`,
`Serve`. `RecoverCover` and `ResolveRecovered` are the two transactions of
`OnConverted`. `given` and `behind` are history.

*WebImport.* A title on the site, its download directory (`cache`, and `aside` for the
directory `<job>.before`) and its assembled `file` are a version per chapter, 0 for a
chapter that is not there. `row[l]` is a row of `web_imports`: its range, and in `holds`
what the book was assembled from, which stands for `chapters_done` and `build_sig`.
`claimed` are the unfinished entries of `runner.running`, whose key is the link with its
translation. `run[a]` is a call of `Importer.Import`, by a request or by the sweep:
`WebSource` and `MarkWebSource` (two statements), `ReadExisting` (with `restoreCache`),
`SetCacheAside`, `Plan`, `Fetch` (one chapter), `Downloaded` or `DownloadStops`, `Decide`
(`newlyDone`, the signature, `recordCheck`), `Build`, `Record` (a transaction, after a
look at the file). `Fails` is any other statement failing, with the deferred
`restoreCache`. `StartAgain` is the three requests for a book already imported, its link
read and claimed in one step. `BeginSweep`, `CheckNext` and `EndSweep` are `RefreshAll`
with the list it read at its beginning. `PurgeRows` and `PurgeFiles` are the two halves
of `PurgeBook`. `stranded` and `orphaned` are history: chapters fetched by an import
that ended before its row, and titles purged while their chapters were set aside. The
site adds and edits chapters and withdraws none. Renames and removals of directories do
not fail (the code logs and goes on).

*External parts* are modelled from how the code uses them: the reader asks again at once
while a sync goes on, applies a page whole, moves positions forward only, forgets a
half-done sync when it restarts and keeps the token of the last whole one; Calibre edits
its library at any time; a site publishes.

Definitions marked `seeded bug` are wrong variants of the operator below them: with one
in its place, the property it is listed with in `PROJECT.json` fails.

## 3. Runs

`Happens` selects which operations of the world a run exercises and `MaxChanges` bounds
how many of them a behaviour has; everything the component does by itself (a sync, a
conversion, a scan, an import) is always on, and without bound in the runs that check
liveness.

| Run | World | Shows |
|---|---|---|
| `one_reader` | scan edits, reading, deleting, collections, hiding; 2 books, 1 collection, pages of 1 | `TypeOK`, `SnapshotIsHeld`, `NothingExtra`, `NothingMissed`, `Converges`, `HiddenIsRetracted` |
| `library_moves` | hiding, unhiding, toggling, sharing, scans that add, lose and merge, deleting, forgiving; 2 sources, 2 users | `SnapshotIsHeld`, `NeverLosesBooks` |
| `faults` | lost answers, failing statements, restarts of device and server, the janitor, "resend library", arriving and vanishing files | `AtMostOneOngoing`, `SyncEnds` |
| `scheduler` | edits in `metadata.db` and in its WAL, unmounting, failures, adding, switching, a scan by hand, crashes; 1 source, 2 books, a floor of 1 | `SkipIsSound`, `OnlyTheGoneAreMissing`, `Ingested` |
| `ingest` | 3 rows of 2 sources (a Calibre library, imports or uploads) and every operation of the module | `KeysLeadHome`, `SplitApart`, `OfferIsCurrent`, `KeptIsHere`, `RevisionsAreEarned` |
| `collections` | 2 users, 2 books listed as tag, series and column; every operation of the module | `ThrownAwayStaysGone`, `ShelvesFollow`, `SkippedScansMissNothing`, `RevMovesWithTheShelf` |
| `reading` | 2 books, 2 readers of one person: one with a slow clock, one that leaves sections out; merges, resets, syncs, failures | `MinutesAddUp`, `PagesAgree`, `StreakIsRight`, `PlaceFollows` |
| `access` | 2 tokens, 2 device ids, 2 requests at a time, revocations, removals, restarts | `OneReaderOneRow`, `RevokedFallsSilent` |
| `kepub_cache` | the file replaced, failures, cancelled requests, rebuilds, eviction, crashes; 1 book, 1 download, 1 slot, a budget of nothing | `OneConversion`, `NeverStale`, `Answered`, `GetsConverted` |
| `caches` | a download, the prewarmer, the builder, 2 requests for covers, the janitor; files and covers replaced, failures, cancelled requests, crashes | `IndexIsOfItsFile`, `CoverIsAsNewAsItsId`, `GivenOnDemand` |
| `web_import` | publishing, importing, checking, rebuilding, downloading again, purging, failures, crashes; 1 title of 2 chapters, 3 ranges, 1 request beside the sweep | `OneAtATime`, `KeepsChapters`, `NeverShorter`, `ChaptersArrive`, `FileComesBack` |
| `v_lost_answer` | an answer lost; expected to violate | `SnapshotIsHeld` |

`v_lost_answer` shows a sentence of the repository (quoted under `findings`) to be wrong:
the cursor moves before the answer is known to have arrived, and the books of a lost page
are never sent again.

What is deep in the properties is said above each of them in its module. Those about one
actor's view of another's state: `SnapshotIsHeld` and `NothingExtra` (a reader's shelf
against the snapshot its token names), `PlaceFollows` (its place against the server's),
`SkipIsSound` and `SkippedScansMissNothing` (the rows against a library that nobody
looked at), `OfferIsCurrent` (a book against its rows, between transactions),
`ShelvesFollow` (a shelf against settings, sharing and library), `IndexIsOfItsFile` and
`CoverIsAsNewAsItsId` (a derived file against what it was derived from). `PagesAgree`
and `StreakIsRight` compare two computations over the same history, the second against
the definition of a streak. `GivenOnDemand` is a refinement: with `request` mapped to the
callers between asking and answering, every step of the caches is one of `OnDemand`, or
unseen.

### Type invariants

`one_reader` checks that of `KoboSync`. Those of `KepubCache`, `Scheduler`, `WebImport`,
`EbookCache`, `Ingest`, `Collections`, `Access` and `Reading` are theorems and not run
again.

### Other disagreements

These show with the same modules and another configuration: the property, the constants
that differ from the run's of that module, and the sentence of the repository that says
otherwise.

* *The janitor under a returning reader.* `NeverLosesBooks` with `{"janitor", "ingest"}`:
  the janitor deletes a stale snapshot by age alone (`store/syncpoint.go:320`) while a
  reader is draining it; all its books are retracted, and not sent again. README.md:24-26:
  "A book that disappears from the server stays on the device".
* *A rebuild that rebuilds nothing.* `StopsWaiting` with `{"rebuild"}`: the rows are
  deleted and the file is left; the next pass finds the file, writes no row, and the book
  waits for ever. `web/handlers.go:686-687`: "Drop what we have so the next request
  converts afresh". The same with only `{"cancel"}`, `{"crash"}` or `{"evict"}`: what
  keeps a book waiting is a file without a row. `GetsConverted` is the weaker promise
  that is kept.
* *A source without a worker.* `AddedIsScanned` with `{"add"}`, `MaxChanges = 1`: a
  source added to a running server is not scanned, although `web/i18n.go:735` says
  "Scanning it now": `Trigger` finds no channel (`ingest/scheduler.go:105`).
* *Chapters that are there and never built in.* `AllArrive` with `{"publish", "crash"}`,
  `MaxChanges = 2`: an import stops between the download of a chapter and its row, and
  every later check finds the chapter already there, so nothing is new
  (`webimport/webimport.go:301`; README.md:82-84). A failing statement does the same.
* *A purge the database refuses.* `PurgeIsNeverRefused` with `{"ingest", "purge"}`,
  `MaxChanges = 4`: a book that another was merged into is deleted before the alias that
  still points at it, which breaks a foreign key and undoes the purge
  (`ingest/purge.go:73`, against its comment at 57-59).
* *Hidden twice.* `HiddenIsRetracted` with `{"hide", "vanish"}`: hiding a book whose files
  had vanished does not move the fingerprint; the reader keeps it
  (`store/generation.go:28-30`). With `{"devrestart", "hide"}`: a book delivered by an
  abandoned snapshot is in neither side of the next difference.
* *A deletion undone.* `OfferedArrives` with `{"delete", "forget"}`: undone before the
  next snapshot, and the book is not offered again (`store/devices.go:165-166`).
* *A deletion between two pages.* `DeletedStaysDeleted` with `{"ingest", "delete"}`: the
  book is sent again by the second page, because `emit` does not look at the tombstones
  (README.md:27-29).
* *One gone, one new.* `NothingMissed` with `{"vanish", "ingest"}`: the same fingerprint,
  and the reader is told there is nothing new (`store/generation.go:28-31` accepts this).
* *The parent stays.* `OneBaseline` with `{"fail", "ingest"}`: the statement that deletes
  it fails and is only logged.
* *Two scans at once.* Without `s \notin overlapped`, `SkipIsSound` and `Ingested` fail: a
  scan by hand and the worker's each compare with the rows before the other's commit
  (`ingest/scheduler.go:26`: "Scans are serialised globally"). Without `library[s].saved`
  they fail because an edit in Calibre's WAL does not move the signature until a
  checkpoint, although `calibre/open.go:60` knows that Calibre uses one.
* *A merge and what was read.* Without `merged`, `MinutesAddUp` and `PlaceFollows` fail:
  `MergeBooks` does not move `reading_events` (`store/books.go:205`: "Everything attached
  to the loser moves across"), and keeps the state with the higher revision, not the one
  that is further along (`books.go:225`). Without `partial`, `PlaceFollows` fails: a
  report without a place makes its device the last writer of a place that is another's,
  and a save that fails is only logged (`kobo/readingstate.go:103-107`). A report without
  a status sets it back to ReadyToRead. A place in the first percent of a book is told as
  0 percent, which moves no other reader, so `PlaceFollows` does not speak of it.
* *Merged shelves.* Without `book' = book`, `RevMovesWithTheShelf` fails: `MergeBooks`
  moves `tag_books` and no revision (`store/books.go:220`, against `tags.go:172-173`).
  Without `ListedTwice` it fails because a rebuild moves the revision every time when the
  library lists a book twice under one name (`collections_test.go:128-130`).
* *Columns.* Without `missed`, `SkippedScansMissNothing` fails: the columns are
  remembered as read before the books are (`ingest/columns.go:100-105`). Without
  `adrift`, `ShelvesFollow` fails: hiding a book, switching a source off, and a rebuild
  that fails are not followed by another; nor are shelves taken down when collections are
  switched off and no column is chosen.
* *Stale books.* Without `stale`, `OfferIsCurrent` fails: a row edited beyond recognition
  leaves its former book unresolved (`ingest/scanner.go:237`), a `ResolveSource` that
  fails is only logged (`web/handlers.go:318-326`), a source turned on again while it is
  being deleted leaves its books on offer (`handlers.go:419-434`).
* *A revoked token.* Nothing calls `Invalidate`: a revoked token is served from the cache
  for up to a minute, and its request re-creates the row the revocation removed
  (`kobo/middleware.go:105`). `RevokedFallsSilent` starts when the cache entry is gone.
  Without `raced`, `OneReaderOneRow` fails: the look for a row and the insert are not one
  transaction.
* *A conversion that fails* is tried again on every request, because `epub_failures` is
  never read (against `ebookconv/ebookconv.go:356-358`). A record under a cancelled
  context, or a crash after the rename, leaves a file without a row, which is never
  evicted (`cmd/kobibri/janitor.go`: "none of it accumulates without bound"). A path that
  was returned may be evicted before it is opened. One image id can name different bytes
  (against `kobo/covers.go:50`): `CoverIsAsNewAsItsId` promises only that they are not
  older.
* *Web imports.* The sweep checks with the ranges its list had when it began, so a book
  imported anew with another range meanwhile is built with the old one, which is also
  stored (`CheckNext`, against `0012_web_import_range.sql:4-5`). A crash between creating
  the source of imported books and marking it leaves a source that is not found and whose
  unique name cannot be created again: every later import fails (`WebSource`; uploads do
  the same in `upload.go:314-342`). A book purged while it is being downloaded again,
  then imported anew, gets back the chapters once set aside (`ReadExisting`), which is
  why `KeepsChapters` leaves `orphaned` titles out.

**Bounds.** *Sync:* two books and pages of one make every category span pages and every
page boundary fall inside or between categories; a third book adds no new position of the
cursor. One unseeded row gives an arriving book and a row to merge. Two or three changes
are what each known failure of this protocol needs; `Points` are names that are reused
when nothing refers to them, enough that one is always free (deadlock is checked).
Sequences of syncs are unbounded. Symmetry is not used where a run checks liveness.

*Scheduler:* a floor of 1 makes two vanished books suspicious and one not, on both sides
of the guard's boundary; three changes let two things go wrong around one edit. Deadlock
is not checked: when the only source is switched off or has no worker, nothing has to run.

*Ingest:* three rows are two copies to be merged, one of them to be split off, and a
third to attach or to come back; one of them re-titles into a book of its own, so that it
leaves the first. The ISBN of one is in ten digits and of another in thirteen. Five
changes are a book ingested twice, split, hidden or switched off, and ingested again.
*Collections:* two users tell a shared from an unshared shelf; four changes are a shelf
built, thrown away, a setting changed and a rebuild that falls between. *Reading:* a book
of two documents, each measured or not; a reader whose clock is behind by two hours and
one without; three reports and two days tell a gap from a streak. *Access:* two tokens,
ids and requests are two readers of one person in each other's way. Deadlock is not
checked in these and in `caches`: nothing has to happen once their changes are used up.

*Caches:* in `kepub_cache` a budget of nothing lets the janitor remove every row, and two
versions and three changes give a replacement racing a conversion and an eviction or a
crash after it. In `caches` one slot makes the second caller wait, a budget of one file
lets the janitor choose, and four changes are, for instance, a request, a replacement, an
eviction and another request. Requests count among the changes there.

*Web import:* two chapters tell a range from the whole title and a half-finished download
from a whole one; version 1 is a chapter published later; four changes are a book
downloaded again, a failure, a crash and one more request. Two links share only the
source and the sweep.

**Fairness.** In `KoboSync`, weak fairness of a handler that has begun (a goroutine goes
on, its statements return), of a reader asking and of an answer arriving, and of the
second halves of handlers that commit in steps; none of scans, administrators, faults or
the janitor. In `Scheduler`, weak fairness of a worker's timer and of a scan that has
begun, strong fairness of `TakeSlot` because senders to a full channel are served in
order; none of mounting, of checkpoints, of requests or of anything that goes wrong. In
`KepubCache`, weak fairness of every caller's steps and of the prewarmer's pass (a timer),
strong fairness of `Acquire` because the semaphore serves its waiters in order, weak
fairness of the janitor once it has begun to remove; none of asking, cancelling, evicting or changing. In `WebImport`, weak fairness of an import that
has begun, of the second half of a purge and of the sweep (a timer); none of the page, the
site or anything that goes wrong. The other modules check safety only and state no
fairness.

**Which property holds where.** A property is claimed for the worlds in which the code
keeps it, and each exclusion is one of the disagreements above: `SnapshotIsHeld` not with
lost answers, `NeverLosesBooks` not with the janitor, `NothingMissed` and `Converges` not
when a book may leave as another arrives, `HiddenIsRetracted` not with vanishing files,
device restarts or resets, `ChaptersArrive` but for `stranded` chapters and `orphaned`
titles; and the history variables `overlapped`, `stale`, `adrift`, `missed`, `partial`,
`merged` and `raced` mark what a property leaves out, each set by the actions that cause
it and by no other. `NeverLosesBooks` under faults is a theorem and is not run again. Two
readers of one person syncing against each other are in `reading`, with a sync in one
step, and `SnapshotIsHeld` and `Converges` for two devices were checked once by hand with
`{"read", "delete"}`. `OneAtATime` is claimed when links lead to different titles: the
code claims a link with its translation, so two spellings of one address, or an empty and
an explicit choice of the same translation, can download into one directory at once, which
`webimport/background.go:36-40` means to exclude.

## 4. Proofs

For every value of the constants, from the named assumptions on them alone:

* `KoboSyncProofs!TypeCorrect`: `Spec => []TypeOK`. The inductive invariant adds
  that the sets of books and collections a snapshot holds are finite and that a cursor
  lies among the ids; the work is in showing that a page taken from a finite set is
  nonempty when its rest is, so the cursor it leaves is an id.
* `KoboSyncProofs!OneOngoing`: `Spec => []AtMostOneOngoing`. Not inductive alone:
  the strengthening says that a handler past the retirement and before the creation of
  its snapshot has no half-sent one.
* `KoboSyncProofs!BooksAreKept`: without the janitor, `Spec => NeverLosesBooks`.
  The inductive invariant has three parts: `mayLose` holds every book that is hidden,
  merged away or tombstoned (`ReasonsKept`); each half-sent snapshot holds every book of
  its parent that had no reason to go (`PointsSafe`); and a handler that drains is
  reading that snapshot against that parent, with no unreasoned removal among its items
  (`HandlersSafe`). Removals are `from \ to`, so none is unreasoned. The janitor breaks
  the third part.
* `KoboSyncProofs!CreditedIsHeld`: if no answer is given up, the server does not restart
  and the janitor does not run (`NothingIsLost`), `Spec => []SnapshotIsHeld`;
  `v_lost_answer` shows that it is false with a lost answer. The invariant says, of one
  device at a time: its one request or answer carries its token and reaches it
  (`OneRequest`); no snapshot is its own parent or the one its token holds
  (`TokensApart`); each book of a completed snapshot is on the device or in the answer on
  its way (`CompletedHeld`), and each of a half-sent one is there, or in the answer, or a
  new book the cursor has not passed (`OngoingHeld`); and a handler has taken a page
  without a gap between the cursor and the rest (`SentHeld`). Steps of other
  devices tell this one nothing (`TellsNoMore`).
* `KoboSyncProofs!NothingElseIsHeld`: where no answer is given up and nothing fails,
  restarts, is removed by the janitor or reset (`NothingGoesWrong`, a condition on
  `Happens`; everything else may happen), `Spec => []NothingExtra`, and with it
  `BaselineIsSingle`: between two syncs a device has one completed snapshot, that of its
  token. `Exact` says of a token (`TokenStands`), of an answer on its way (`AnswerStands`)
  and of a handler between two statements (`DrainStands`): the one completed snapshot is
  the one named, and whatever is on the device is in it, or, while another is half sent,
  its removal is still ahead of the cursor or on its way. Each event excluded breaks it: a
  removal in a lost answer, or in the pages sent of a snapshot that is forgotten, is not
  sent again; a handler that fails as it completes leaves a snapshot nobody's token names.
* `SchedulerProofs`: `Spec => []TypeOK`, `[]SkipIsSound` and `[]OnlyTheGoneAreMissing`,
  for any number of sources and scans. `Bounded` ties the signature to the changes made.
  `ScansOK` says what each scan knows: its signature was taken before its copy and
  signatures only grow, so if it is still the present one and nothing waits in the WAL,
  the copy is the present library, what it will write is the difference to the rows, and
  after the commit the rows match. That needs the rows to stay still between comparison
  and commit, hence `Alone`: the scans of a source that never overlapped are one at a
  time, by the slot for workers and by definition of `overlapped` for requests.
  `SavedOK` is the promise carried by the stored signature. `AbsentOK` and `GoneOK`
  follow a missing book back to a copy, and a copy to a mounted library; they need
  neither.
* `KepubCacheProofs`: `Spec => []TypeOK`, `[]OneConversion` and `[]NeverStale`, from one
  inductive invariant. A file may change between the request, its fingerprint and the
  conversion, so the invariant orders the versions: asked for, fingerprint, present
  (`CallersOK`), and says that a cached file is not older than the fingerprint in its
  name (`FilesOK`). Versions only grow, so each step keeps the order.
* `EbookCacheProofs!ConversionsOnDemand`: `Spec => GivenOnDemand`, the refinement. Most
  steps are unseen (`Unseen`, `SameRequests`), `Path` of an own EPUB included; asking is
  `Ask`, a failure, a cancelled or unopened file is `Refuse`, opening is `Answer`. What
  has to be shown is that the version opened lies between the one asked for and the
  present one. `CopiesOK` says it of a file, by the fingerprint in its name; `KeyOK` that
  the fingerprint of a caller is not older than its request; `CallersOK` has both for
  those who wait on another's conversion, whose file theirs is by name (`AllAreTold`).
* `EbookCacheProofs!NoStaleCover`: `Spec => []CoverIsAsNewAsItsId`. `CoversInOrder`
  orders what a book shows, what its row says and the picture there is. A request's id
  is no newer than the present picture, since it was told by what the book showed and
  covers are only replaced (`NewerCover`); what it rendered is no older than its id
  (`ViewerOK`); so no picture under an id is older than that (`ImagesOK`). A recovered
  cover goes to a book without one, so nothing is taken out of order.
* `EbookCacheProofs!IndexesAreOfTheirFile`: `Spec => []IndexIsOfItsFile`. The file of a
  conversion is replaced in place, so a fingerprint does not tell what was measured.
  Files are only replaced by newer ones, though: what an index was measured from is no
  older than its fingerprint says (`IndexOK`) and no newer than the file that has the name
  now (`NoNewer`, also of what the builder has in hand, `BuilderOK`); where the two ends
  meet, so does what lies between.
* `IngestProofs`: `Spec => []TypeOK`, `[]KeysLeadHome`, `[]SplitApart`,
  `[]OfferIsCurrent`, `[]KeptIsHere` and `RevisionsAreEarned`. A transaction makes several
  passes over the tables, so the invariant is a predicate of them (`Good`) and each pass
  has a lemma of its own: merging, claiming keys, attaching, resolving. `Leads` says that
  no key and no row leads to an alias, `Pins` that a book split off belongs to one copy
  and no key, `AtHome` is `KeysLeadHome` of one row. `Current` says that resolving a book
  that nobody owes a resolve would change nothing; it excuses fewer libraries than
  `OfferIsCurrent`, because removing a library forgets its missing copies. That a
  resolved book is settled rests on what leads being one row only (`LeadingIsOne`) and on
  `Resolved` reading only the copies of its book (`ServingAgrees`). Book ids are not
  assumed to suffice: an action that needs one more has the guard `HasRoom`.
* `CollectionsProofs`: `Spec => []TypeOK`, `[]ThrownAwayStaysGone`, `[]ShelvesFollow`,
  `[]SkippedScansMissNothing` and `RevMovesWithTheShelf`. `Unique` is the unique index on
  user and name, under which a shelf is one row; `ThrownInRows` ties what was thrown away
  to rows that are deleted and the library's; `Match` says that the shelves are those the
  library asks for, which a rebuild establishes row by row (`RebuiltRows`) and the other
  actions keep, or owe a rebuild, or are `adrift`. `ScansOK` follows a scan between
  its read and its commit: what it read is what Calibre says but for what changed
  `later`, and what it skipped had not changed. `CollectionsAssumption` has a row for
  every user and name; `RowsSuffice` shows by counting that a rebuild then never lacks
  one. `Resolves` shows that following aliases, bounded in the code, comes to a book.
* `ReaderProofs`, of `Access`: `Spec => []TypeOK`, `[]OneReaderOneRow` and
  `RevokedFallsSilent`, for any number of requests. A request that is about to insert has
  seen that there is nothing to adopt or to name (`Fine`), or else another is about to
  insert for the same token, and then whichever inserts first puts the token in `raced`
  (`InsertOK`). `Alone` is
  that a nameless row of a token which has not raced is its only one; `NamesUnique` is
  the constraint of the table; `RowsOwned` and `LatestOK` are needed because row numbers
  are used again. `SilentStep` shows that once a revoked token is out of the cache and no
  request has passed `LookUp` with it, no step puts it back.
* `ReaderProofs`, of `Reading`, for any books, readers, lengths of books and histories
  (`ReadingSpec => []...`): `ReadingTypeOK`, `PlaceFollows`, `MinutesAddUp`,
  `StreakIsRight` and `PagesAgree`.
  - `PlaceInv` says of every book that is not in `partial` or `merged`: a report on its way
    is of the place its reader is at, and the reader that wrote last, and any that has
    seen the revision and reports nothing, are at the place of the server. That a place
    told in percent and brought back is told in the same percent is `PlaceOfPercent`: the
    rounding up in `Brought` undoes the rounding down in `Percent`, for any length.
  - `MinutesInv`: the minutes of a reader in a book, with those its counter is ahead of its
    last event, are not more than were lived (`WithinLife`), and are the difference of the
    last counter and the first while all are there and none goes back (`Telescopes`). A sum
    is treated as the number of its units (`SumIsCount`), so that the theorems on
    cardinality apply to it.
  - Streaks, runs and pages are recursive. `StreakIs` and `LongestRunIs` show that the row
    lengths, defined without recursion (`RowsTo`, `RunsUpTo`), satisfy the recursion, and
    that whatever does is equal to them at every day: else there would be a first day where
    it is not (`LeastOf`).
  - `PagesAt` says of the two pages after the same number of reports that the figures of one
    are the sums of those of the other, that the reader's page remembers of each book and
    device what the book's page does (`Whereabouts`), and that days and hours share out the
    minutes with no day to come (`Calendar`); every report keeps it (`PagesGrow`), so there
    is no first one that breaks it. That no day is to come needs the invariant `Timely`: no
    report tells of a time that is still to come.
* `WebImportProofs`: `Spec => []TypeOK`, and, if links lead to different titles
  (`EachItsTitle`), `[]OneAtATime`, `[]KeepsChapters` and `NeverShorter`. `Claims` says
  that a working import holds its claim and shares its title with nobody. `Book` is
  `KeepsChapters` with what it rests on: chapters set aside include those the book
  holds, and an import that downloads again has put them there. `FromSite` bounds every
  copy by what the site has, which only grows, so that a download that ended whole has
  at least what was set aside and it may be dropped. `Work` follows one import: what it
  is about to record holds what the book holds, because it was taken from the cache over
  the same range.

Only model-checked: all liveness (`Answered`, `GetsConverted`, `Ingested`, `Converges`,
`SyncEnds`, `HiddenIsRetracted`, `ChaptersArrive`, `FileComesBack`), which is out of the
prover's reach; and `NothingMissed`, which is false outside its run's world. What the
recursions of `Reading` compute is not proved by an induction theorem, which the provers
cannot instantiate, but by the least counterexample, once for each of them.

## 5. Not modelled, and what is left

* Web sessions and passwords, the guard on the last administrator; the steps of storing
  a site token in the tables, in memory and in the registry of sites
  (`webimport/token.go`); staging of uploads and the naming of their files.
* Rendering, OPDS, the store proxy and configuration have no state of their own, and
  migrations run before anything else.
* The rewriting of EPUB and FB2 documents, the scaling of pictures and the splitting of
  text into words are pure transformations of large data; the contents of `metadata.db`
  are an external format.
* `sync_runs` is a log of what was sent; `epub_failures` is written and never read.
* In `Reading`: `times_started`, the time stamps of sections, the series of the charts.
  In `textindex`: that `BooksNeedingTextIndex` takes 20 books at a time, so that books
  which fail again and again may hold up others.
* Data races: `covers/pipeline.go:271-283` guards a placeholder made once by a flag
  without synchronisation, so that one of two first requests may be sent an empty picture.

Worth doing next, in this order: an abstract shelf (what a reader should hold) refined by
`KoboSync`; `NothingMissed` in a world without faults; sessions and the site token.
