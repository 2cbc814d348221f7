------------------------------ MODULE KoboSync ------------------------------
(***************************************************************************)
(* GET /v1/library/sync: what each device should hold is materialised as   *)
(* an immutable snapshot (a sync point), and the difference from the       *)
(* previous one is sent in pages.  The handler runs one step per database  *)
(* statement or transaction, under a lock of its device; the library, the  *)
(* janitor and the administrator move between any two of them.             *)
(***************************************************************************)
EXTENDS Library

CONSTANTS
  Points,     \* names for snapshots; a name nobody refers to may be issued again
  Batch       \* how many books or collections one page holds

ASSUME SyncAssumption == /\ Batch \in Nat \ {0}
                         /\ None \notin Points

VARIABLES
  point,      \* sync_points with their sync_point_books and sync_point_tags
  generation, \* sync_points.generation
  latest,     \* the completed snapshot with the newest completed_at, per device
  handler,    \* the sync request that holds the device's lock
  inbox,      \* requests waiting for that lock
  outbox,     \* the answer on its way to the device
  client      \* what the device itself holds and remembers

syncVars == <<point, generation, latest, handler, inbox, outbox, client>>
vars == <<libVars, syncVars>>

(***************************************************************************)
(* Snapshots.  A book or collection not in a snapshot has revision 0 in it.*)
(***************************************************************************)
CatNewBooks == 0
CatChangedBooks == 1
CatRemovedBooks == 2
CatReadingStates == 3
CatNewTags == 4
CatChangedTags == 5
CatDeletedTags == 6
CatDone == 7
SyncCategory == CatNewBooks .. CatDone

NoBooks == [b \in Books |-> 0]
NoTags == [t \in Tags |-> 0]
SyncPoint == [device : Devices \cup {None}, parent : Points \cup {None},
              state : {"none", "ongoing", "completed", "abandoned"},
              cat : SyncCategory, key : Nat, recent : BOOLEAN,
              books : [Books -> Nat], states : [Books -> Nat], tags : [Tags -> Nat]]
NoPoint == [device |-> None, parent |-> None, state |-> "none", cat |-> CatNewBooks,
            key |-> 0, recent |-> FALSE, books |-> NoBooks, states |-> NoBooks, tags |-> NoTags]

Content(p) == IF p = None THEN NoPoint ELSE point[p]
BooksOf(p) == {b \in Books : Content(p).books[b] > 0}
TagsOf(p) == {t \in Tags : Content(p).tags[t] > 0}

IsState(p, d, state) == p # None /\ point[p].device = d /\ point[p].state = state
PointsIn(d, state) == {p \in Points : IsState(p, d, state)}
LastCompleted(d) == IF PointsIn(d, "completed") = {} THEN {None}
                    ELSE IF latest[d] \in PointsIn(d, "completed") THEN {latest[d]}
                    ELSE PointsIn(d, "completed")

(***************************************************************************)
(* Requests, answers and devices.                                          *)
(***************************************************************************)
PointRef == Points \cup {None}
Item == [cat : SyncCategory, id : Books \cup Tags, rev : Nat, state : Nat]
Request == [last : PointRef, ongoing : PointRef, live : BOOLEAN]
Answer == [sent : BOOLEAN, last : PointRef, ongoing : PointRef, items : SUBSET Item]
Handler == [pc : {"idle", "check", "resolve", "parent", "create", "drain", "save", "complete", "drop"},
            last : PointRef, ongoing : PointRef, live : BOOLEAN, sp : PointRef, parent : PointRef,
            cat : SyncCategory, key : Nat, budget : Nat, items : SUBSET Item]
Client == [waiting : BOOLEAN, last : PointRef, ongoing : PointRef, saved : PointRef,
           books : [Books -> Nat], pos : [Books -> Nat], tags : [Tags -> Nat]]

Idle == [pc |-> "idle", last |-> None, ongoing |-> None, live |-> FALSE, sp |-> None,
         parent |-> None, cat |-> CatNewBooks, key |-> 0, budget |-> 0, items |-> {}]
NoAnswer == [sent |-> FALSE, last |-> None, ongoing |-> None, items |-> {}]
FreshClient == [waiting |-> FALSE, last |-> None, ongoing |-> None, saved |-> None,
                books |-> NoBooks, pos |-> NoBooks, tags |-> NoTags]

KoboInit ==
  /\ point = [p \in Points |-> NoPoint]
  /\ generation = [p \in Points |-> <<>>]
  /\ latest = [d \in Devices |-> None]
  /\ handler = [d \in Devices |-> Idle]
  /\ inbox = [d \in Devices |-> {}]
  /\ outbox = [d \in Devices |-> NoAnswer]
  /\ client = [d \in Devices |-> FreshClient]

Init == LibraryInit /\ KoboInit

(* A uuid nobody refers to: no snapshot, token, request or answer names it. *)
Unused(p) ==
  /\ point[p].state = "none"
  /\ \A q \in Points : point[q].parent # p
  /\ \A d \in Devices :
       /\ p \notin {latest[d], handler[d].last, handler[d].ongoing, handler[d].sp, handler[d].parent,
                    outbox[d].last, outbox[d].ongoing,
                    client[d].last, client[d].ongoing, client[d].saved}
       /\ \A q \in inbox[d] : p \notin {q.last, q.ongoing}

(* uuid.NewString: which of the unused names it is makes no difference. *)
NewPoint == CHOOSE p \in Points : Unused(p)

(***************************************************************************)
(* The handler.                                                            *)
(***************************************************************************)
At(d, pc) == handler[d].pc = pc

(* The answer reaches the connection it belongs to, if that is still open.  *)
Reply(d, last, ongoing, items) ==
  /\ handler' = [handler EXCEPT ![d] = Idle]
  /\ outbox' = IF handler[d].live
               THEN [outbox EXCEPT ![d] = [sent |-> TRUE, last |-> last, ongoing |-> ongoing,
                                           items |-> items]]
               ELSE outbox

(* deviceLocks.Lock, then the token of the request. *)
BeginSync(d) ==
  /\ At(d, "idle")
  /\ \E q \in inbox[d] :
       /\ inbox' = [inbox EXCEPT ![d] = @ \ {q}]
       /\ handler' = [handler EXCEPT ![d] = [Idle EXCEPT !.pc = "check", !.live = q.live,
                                                         !.last = q.last, !.ongoing = q.ongoing]]
  /\ UNCHANGED <<libVars, point, generation, latest, outbox, client>>

Unmoved(d) ==
  /\ handler[d].ongoing = None
  /\ IsState(handler[d].last, d, "completed")
  /\ generation[handler[d].last] = LibraryGeneration(Owner[d], d)

NothingToSay(d) ==
  /\ At(d, "check")
  /\ Unmoved(d)
  /\ Reply(d, handler[d].last, None, {})
  /\ UNCHANGED <<libVars, point, generation, latest, inbox, client>>

SomethingToSay(d) ==
  /\ At(d, "check")
  /\ ~Unmoved(d)
  /\ handler' = [handler EXCEPT ![d].pc = "resolve"]
  /\ UNCHANGED <<libVars, point, generation, latest, inbox, outbox, client>>

(* resolveSyncPoint: go on with the snapshot the token says is half sent ... *)
ResumeSync(d) ==
  LET sp == handler[d].ongoing IN
  /\ At(d, "resolve")
  /\ IsState(sp, d, "ongoing")
  /\ handler' = [handler EXCEPT ![d] = [@ EXCEPT !.pc = "drain", !.sp = sp,
                                                 !.parent = point[sp].parent, !.cat = point[sp].cat,
                                                 !.key = point[sp].key, !.budget = Batch]]
  /\ UNCHANGED <<libVars, point, generation, latest, inbox, outbox, client>>

LeaveOngoing(d) == \* seeded bug: a half-sent snapshot is left as it is
  /\ At(d, "resolve")
  /\ ~IsState(handler[d].ongoing, d, "ongoing")
  /\ handler' = [handler EXCEPT ![d].pc = "parent"]
  /\ UNCHANGED <<libVars, point, generation, latest, inbox, outbox, client>>

(* ... or retire the one this device left half sent, if there is one ... *)
AbandonSyncPoint(d) ==
  /\ At(d, "resolve")
  /\ ~IsState(handler[d].ongoing, d, "ongoing")
  /\ IF PointsIn(d, "ongoing") = {} THEN UNCHANGED point
     ELSE \E p \in PointsIn(d, "ongoing") :
            point' = [point EXCEPT ![p].state = "abandoned", ![p].recent = TRUE]
  /\ handler' = [handler EXCEPT ![d].pc = "parent"]
  /\ UNCHANGED <<libVars, generation, latest, inbox, outbox, client>>

(* ... and start from the snapshot of the token, or the last one completed. *)
ChooseParent(d) ==
  /\ At(d, "parent")
  /\ \E parent \in IF IsState(handler[d].last, d, "completed")
                   THEN {handler[d].last} ELSE LastCompleted(d) :
       handler' = [handler EXCEPT ![d].pc = "create", ![d].parent = parent]
  /\ UNCHANGED <<libVars, point, generation, latest, inbox, outbox, client>>

SnapshotWithoutCarryOver(d, parent) == \* seeded bug: only what is there now
  {b \in Roots : book[b].syncable /\ Visible(Owner[d], b) /\ b \notin tombs[d]}
SnapshotKeepingHidden(d, parent) == \* seeded bug: hidden books are carried over too
  {b \in Roots : /\ (book[b].syncable /\ Visible(Owner[d], b)) \/ b \in BooksOf(parent)
                 /\ b \notin tombs[d]}

(* The books of a new snapshot: syncable and visible, or carried over from  *)
(* the parent unless hidden, and never one this device deleted.             *)
SnapshotBooks(d, parent) ==
  {b \in Roots : /\ \/ book[b].syncable /\ Visible(Owner[d], b)
                    \/ ~book[b].hidden /\ b \in BooksOf(parent)
                 /\ b \notin tombs[d]}

NewSnapshot(d, parent) ==
  LET books == SnapshotBooks(d, parent)
  IN  [device |-> d, parent |-> parent, state |-> "ongoing", cat |-> CatNewBooks, key |-> 0,
       recent |-> TRUE,
       books |-> [b \in Books |-> IF b \in books THEN book[b].rev ELSE 0],
       states |-> [b \in Books |-> IF b \in books THEN reading[Owner[d]][b].rev ELSE 0],
       tags |-> [t \in Tags |-> IF TagUser[t] = Owner[d] /\ tag[t].live THEN tag[t].rev ELSE 0]]

CreateSyncPoint(d) ==
  /\ At(d, "create")
  /\ \E p \in Points :
       /\ Unused(p) /\ p = NewPoint
       /\ point' = [point EXCEPT ![p] = NewSnapshot(d, handler[d].parent)]
       /\ generation' = [generation EXCEPT ![p] = LibraryGeneration(Owner[d], d)]
       /\ handler' = [handler EXCEPT ![d] = [@ EXCEPT !.pc = "drain", !.sp = p, !.cat = CatNewBooks,
                                                      !.key = 0, !.budget = Batch]]
  /\ UNCHANGED <<libVars, latest, inbox, outbox, client>>

(* The diff queries between snapshot `from' and snapshot `to'. *)
NewBookIDs(from, to) == BooksOf(to) \ BooksOf(from)
ChangedBookIDs(from, to) ==
  {b \in BooksOf(from) \cap BooksOf(to) : Content(from).books[b] # Content(to).books[b]}
NoRemovedBookIDs(from, to) == {} \* seeded bug: removals are not sent
RemovedBookIDs(from, to) == BooksOf(from) \ BooksOf(to)
ChangedReadingStateIDs(d, from, to) ==
  {b \in BooksOf(from) \cap BooksOf(to) : /\ Content(from).states[b] # Content(to).states[b]
                                          /\ reading[Owner[d]][b].writer # d}
NewTagIDs(from, to) == TagsOf(to) \ TagsOf(from)
ChangedTagIDs(from, to) ==
  {t \in TagsOf(from) \cap TagsOf(to) : Content(from).tags[t] # Content(to).tags[t]}
NoDeletedTagIDs(from, to) == {} \* seeded bug: deleted collections are not sent
DeletedTagIDs(from, to) == TagsOf(from) \ TagsOf(to)

categoryIDs(d, cat, from, to) ==
  CASE cat = CatNewBooks      -> NewBookIDs(from, to)
    [] cat = CatChangedBooks  -> ChangedBookIDs(from, to)
    [] cat = CatRemovedBooks  -> RemovedBookIDs(from, to)
    [] cat = CatReadingStates -> ChangedReadingStateIDs(d, from, to)
    [] cat = CatNewTags       -> NewTagIDs(from, to)
    [] cat = CatChangedTags   -> ChangedTagIDs(from, to)
    [] cat = CatDeletedTags   -> DeletedTagIDs(from, to)
    [] OTHER                  -> {}

(* emit: the item is built from the book, position or collection as it is now. *)
Emit(d, cat, id) ==
  [cat |-> cat, id |-> id,
   rev |-> CASE cat \in {CatNewBooks, CatChangedBooks} -> book[id].rev
             [] cat \in {CatNewTags, CatChangedTags}   -> tag[id].rev
             [] OTHER                                  -> 0,
   state |-> IF cat \in {CatNewBooks, CatChangedBooks, CatReadingStates}
             THEN reading[Owner[d]][id].rev ELSE 0]

Largest(n, ids) == {i \in ids : Cardinality({j \in ids : j > i}) < n} \* seeded bug: ORDER BY ... DESC
Smallest(n, ids) == {i \in ids : Cardinality({j \in ids : j < i}) < n}

(* One turn of drain's loop: a category, as far as the budget goes. *)
Rest(h, d) == {i \in categoryIDs(d, h.cat, h.parent, h.sp) : i > h.key}
Page(h, d) == Smallest(h.budget, Rest(h, d))

Drained(h, d) ==
  LET page == Page(h, d)
      exhausted == page = Rest(h, d)
      cat == IF exhausted THEN h.cat + 1 ELSE h.cat
      budget == h.budget - Cardinality(page)
  IN  [h EXCEPT !.cat = cat,
                !.key = IF exhausted THEN 0 ELSE Max(page),
                !.budget = budget,
                !.items = h.items \cup {Emit(d, h.cat, i) : i \in page},
                !.pc = IF cat = CatDone THEN "complete"
                       ELSE IF ~exhausted \/ budget = 0 THEN "save" ELSE "drain"]

DrainCategory(d) ==
  /\ At(d, "drain")
  /\ handler' = [handler EXCEPT ![d] = Drained(handler[d], d)]
  /\ UNCHANGED <<libVars, point, generation, latest, inbox, outbox, client>>

ForgetCursor(d) == \* seeded bug: the cursor is not written
  /\ At(d, "save")
  /\ Reply(d, handler[d].parent, handler[d].sp, handler[d].items)
  /\ UNCHANGED <<libVars, point, generation, latest, inbox, client>>

(* The budget is spent: remember where, and ask the device to come back. *)
SaveSyncCursor(d) ==
  LET h == handler[d] IN
  /\ At(d, "save")
  /\ point' = IF point[h.sp].state = "none" THEN point
              ELSE [point EXCEPT ![h.sp].cat = h.cat, ![h.sp].key = h.key, ![h.sp].recent = TRUE]
  /\ Reply(d, h.parent, h.sp, h.items)
  /\ UNCHANGED <<libVars, generation, latest, inbox, client>>

(* CompleteSyncPoint's first statement marks the snapshot completed ... *)
CompleteSyncPoint(d) ==
  LET sp == handler[d].sp IN
  /\ At(d, "complete")
  /\ IF point[sp].state = "none"
     THEN UNCHANGED <<point, latest>>
     ELSE /\ point' = [point EXCEPT ![sp].state = "completed", ![sp].cat = CatDone,
                                    ![sp].recent = TRUE]
          /\ latest' = [latest EXCEPT ![d] = sp]
  /\ handler' = [handler EXCEPT ![d].pc = "drop"]
  /\ UNCHANGED <<libVars, generation, inbox, outbox, client>>

(* ... and its second deletes the parent. *)
DropParent(d) ==
  LET h == handler[d] IN
  /\ At(d, "drop")
  /\ point' = IF h.parent = None THEN point ELSE [point EXCEPT ![h.parent] = NoPoint]
  /\ Reply(d, h.sp, None, h.items)
  /\ UNCHANGED <<libVars, generation, latest, inbox, client>>

(***************************************************************************)
(* A statement fails: the request's context was cancelled with its         *)
(* connection, or the database refused.  Before anything is sent the       *)
(* answer is an empty list and the token the device came with; afterwards  *)
(* the failure is only logged.                                             *)
(***************************************************************************)
StepFails(d) ==
  LET h == handler[d] IN
  /\ IF h.live THEN Change("fail") ELSE UNCHANGED changes
  /\ \/ /\ At(d, "check")
        /\ handler' = [handler EXCEPT ![d].pc = "resolve"]
        /\ UNCHANGED outbox
     \/ /\ h.pc \in {"resolve", "parent", "create", "drain"}
        /\ Reply(d, h.last, h.ongoing, {})
     \/ /\ At(d, "save")
        /\ Reply(d, h.parent, h.sp, h.items)
     \/ /\ h.pc \in {"complete", "drop"}
        /\ Reply(d, h.sp, None, h.items)
  /\ UNCHANGED <<book, row, enabled, sharing, resolving, granting, reading, tag, tombs, mayLose,
                 point, generation, latest, inbox, client>>

HandlerStep(d) ==
  \/ BeginSync(d) \/ NothingToSay(d) \/ SomethingToSay(d)
  \/ ResumeSync(d) \/ AbandonSyncPoint(d) \/ ChooseParent(d) \/ CreateSyncPoint(d)
  \/ DrainCategory(d) \/ SaveSyncCursor(d) \/ CompleteSyncPoint(d) \/ DropParent(d)

(***************************************************************************)
(* The device.  It asks with the token it holds, applies a page whole, and *)
(* asks again at once while a sync is going on.                            *)
(***************************************************************************)
SendSync(d) ==
  /\ ~client[d].waiting
  /\ client' = [client EXCEPT ![d].waiting = TRUE]
  /\ inbox' = [inbox EXCEPT ![d] = @ \cup {[last |-> client[d].last, ongoing |-> client[d].ongoing,
                                            live |-> TRUE]}]
  /\ UNCHANGED <<libVars, point, generation, latest, handler, outbox>>

ItemsOf(items, cats, id) == {i \in items : i.cat \in cats /\ i.id = id}

(* A removed book leaves the shelf, a new or changed one is (re)placed on it. *)
ShelfAfter(books, items) ==
  [b \in Books |->
     IF ItemsOf(items, {CatRemovedBooks}, b) # {} THEN 0
     ELSE LET put == ItemsOf(items, {CatNewBooks, CatChangedBooks}, b)
          IN  IF put = {} THEN books[b] ELSE Max({i.rev : i \in put})]

(* A position moves forward only. *)
PositionsAfter(pos, items) ==
  [b \in Books |->
     Max({pos[b]} \cup {i.state : i \in ItemsOf(items, {CatNewBooks, CatChangedBooks,
                                                       CatReadingStates}, b)})]

CollectionsAfter(tags, items) ==
  [t \in Tags |->
     IF ItemsOf(items, {CatDeletedTags}, t) # {} THEN 0
     ELSE LET put == ItemsOf(items, {CatNewTags, CatChangedTags}, t)
          IN  IF put = {} THEN tags[t] ELSE Max({i.rev : i \in put})]

Receive(d) ==
  LET a == outbox[d] IN
  /\ a.sent
  /\ outbox' = [outbox EXCEPT ![d] = NoAnswer]
  /\ client' = [client EXCEPT ![d] =
       [waiting |-> FALSE, last |-> a.last, ongoing |-> a.ongoing,
        saved |-> IF a.ongoing = None THEN a.last ELSE @.saved,
        books |-> ShelfAfter(@.books, a.items),
        pos |-> PositionsAfter(@.pos, a.items),
        tags |-> CollectionsAfter(@.tags, a.items)]]
  /\ UNCHANGED <<libVars, point, generation, latest, handler, inbox>>

(* The connection is gone: the answer never arrives, the token stays. *)
HangUp(d) ==
  /\ client' = [client EXCEPT ![d].waiting = FALSE]
  /\ inbox' = [inbox EXCEPT ![d] = {[q EXCEPT !.live = FALSE] : q \in @}]
  /\ handler' = [handler EXCEPT ![d].live = FALSE]
  /\ outbox' = [outbox EXCEPT ![d] = NoAnswer]

GiveUp(d) ==
  /\ Change("giveup")
  /\ client[d].waiting
  /\ HangUp(d)
  /\ UNCHANGED <<book, row, enabled, sharing, resolving, granting, reading, tag, tombs, mayLose,
                 point, generation, latest>>

(* The device restarts between two pages, with the token of its last whole sync. *)
DeviceRestarts(d) ==
  /\ Change("devrestart")
  /\ ~client[d].waiting /\ client[d].ongoing # None
  /\ client' = [client EXCEPT ![d].last = client[d].saved, ![d].ongoing = None]
  /\ UNCHANGED <<book, row, enabled, sharing, resolving, granting, reading, tag, tombs, mayLose,
                 point, generation, latest, handler, inbox, outbox>>

(* DELETE /v1/library/{uuid} *)
DeleteOnDevice(d, b) ==
  /\ client[d].books[b] > 0
  /\ AddTombstone(d, b)
  /\ client' = [client EXCEPT ![d].books[b] = 0]
  /\ UNCHANGED <<point, generation, latest, handler, inbox, outbox>>

(* PUT /v1/library/{uuid}/state *)
ReadOnDevice(d, b) ==
  /\ client[d].books[b] > 0
  /\ \E r \in Books :
       /\ ResolvesTo(b, r)
       /\ SaveReadingState(d, r)
       /\ client' = [client EXCEPT ![d].pos[b] = reading[Owner[d]][r].rev + 1]
  /\ UNCHANGED <<point, generation, latest, handler, inbox, outbox>>

ForgetTombstone(d, b) ==
  /\ RemoveTombstone(d, b)
  /\ UNCHANGED syncVars

(***************************************************************************)
(* The administrator, the janitor, the process.                            *)
(***************************************************************************)
ResetDeviceSyncState(d) ==
  /\ Change("reset")
  /\ point' = [p \in Points |-> IF point[p].device = d THEN NoPoint ELSE point[p]]
  /\ latest' = [latest EXCEPT ![d] = None]
  /\ UNCHANGED <<book, row, enabled, sharing, resolving, granting, reading, tag, tombs, mayLose,
                 generation, handler, inbox, outbox, client>>

(* Seven days go by; a request takes less. *)
WeekPasses ==
  /\ Change("janitor")
  /\ \A d \in Devices : ~client[d].waiting /\ At(d, "idle") /\ inbox[d] = {}
  /\ point' = [p \in Points |-> [point[p] EXCEPT !.recent = FALSE]]
  /\ UNCHANGED <<book, row, enabled, sharing, resolving, granting, reading, tag, tombs, mayLose,
                 generation, latest, handler, inbox, outbox, client>>

GCSyncPoints ==
  /\ "janitor" \in Happens
  /\ \E p \in Points : point[p].state \in {"ongoing", "abandoned"} /\ ~point[p].recent
  /\ point' = [p \in Points |-> IF point[p].state \in {"ongoing", "abandoned"} /\ ~point[p].recent
                                THEN NoPoint ELSE point[p]]
  /\ UNCHANGED <<libVars, generation, latest, handler, inbox, outbox, client>>

(* The process stops and starts: every request, and every unfinished step, is gone. *)
ServerRestarts ==
  /\ Change("restart")
  /\ handler' = [d \in Devices |-> Idle]
  /\ inbox' = [d \in Devices |-> {}]
  /\ outbox' = [d \in Devices |-> NoAnswer]
  /\ client' = [d \in Devices |-> [client[d] EXCEPT !.waiting = FALSE]]
  /\ resolving' = {}
  /\ granting' = [s \in Sources |-> NothingToGrant]
  /\ UNCHANGED <<book, row, enabled, sharing, reading, tag, tombs, mayLose, point, generation, latest>>

DeviceStep(d) ==
  \/ SendSync(d) \/ Receive(d) \/ GiveUp(d) \/ DeviceRestarts(d)
  \/ \E b \in Books : DeleteOnDevice(d, b) \/ ReadOnDevice(d, b) \/ ForgetTombstone(d, b)
  \/ ResetDeviceSyncState(d)

Next ==
  \/ LibraryStep /\ UNCHANGED syncVars
  \/ \E d \in Devices : HandlerStep(d) \/ StepFails(d) \/ DeviceStep(d)
  \/ WeekPasses \/ GCSyncPoints \/ ServerRestarts

Spec == Init /\ [][Next]_vars

(* A handler that has begun goes on, a device keeps checking in and an      *)
(* answer that is not lost arrives; nothing makes the world do anything.    *)
Fairness ==
  /\ \A d \in Devices : /\ WF_vars(HandlerStep(d))
                        /\ WF_vars(SendSync(d))
                        /\ WF_vars(Receive(d))
  /\ \A s \in Sources : /\ WF_vars(ResolveSource(s) /\ UNCHANGED syncVars)
                        /\ WF_vars(ClearSourceACL(s) /\ UNCHANGED syncVars)
                        /\ \A u \in Users : WF_vars(GrantSource(s, u) /\ UNCHANGED syncVars)

FairSpec == Spec /\ Fairness

(***************************************************************************)
(* Properties.                                                             *)
(***************************************************************************)

(* Every variable keeps its type: in particular a page, a cursor and a      *)
(* snapshot only ever name snapshots, books and collections that can exist. *)
TypeOK ==
  /\ LibraryTypeOK
  /\ point \in [Points -> SyncPoint]
  /\ latest \in [Devices -> PointRef]
  /\ handler \in [Devices -> Handler]
  /\ inbox \in [Devices -> SUBSET Request]
  /\ outbox \in [Devices -> Answer]
  /\ client \in [Devices -> Client]

(* A device never has two half-sent snapshots.  resolveSyncPoint retires    *)
(* only the newest one it finds, so a second would escape it: one per       *)
(* device is what deviceLocks and the retirement before each new snapshot   *)
(* keep, whatever is lost, cancelled or restarted in between.               *)
AtMostOneOngoing ==
  \A d \in Devices : \A p, q \in PointsIn(d, "ongoing") : p = q

(* ``A device's single completed snapshot ... is the baseline its next sync *)
(* diffs against'': between two syncs a device has exactly one completed    *)
(* snapshot, the one its token names.                                       *)
OneBaseline ==
  \A d \in Devices : ~client[d].waiting /\ client[d].ongoing = None
                       => PointsIn(d, "completed") = {client[d].last} \ {None}

(* A book leaves a device only for a reason: it was hidden, deleted on the  *)
(* device or merged into another.  Files, rows and whole sources may vanish,*)
(* be switched off or withdrawn, and requests fail or be lost, without one. *)
NeverLosesBooks ==
  [][\A d \in Devices, b \in Books :
       client[d].books[b] > 0 /\ client'[d].books[b] = 0 => b \in mayLose'[d]]_vars

(* The device holds every book of the snapshot its token names as complete, *)
(* apart from those it had a reason to lose: the next difference is taken   *)
(* from that snapshot, so a book missing here is never sent again.          *)
SnapshotIsHeld ==
  \A d \in Devices : IsState(client[d].last, d, "completed") =>
    \A b \in BooksOf(client[d].last) : client[d].books[b] > 0 \/ b \in mayLose[d]

(* A device that is done with a sync holds nothing outside the snapshot of  *)
(* its token: the removals of a drain cover all that earlier ones brought.  *)
NothingExtra ==
  \A d \in Devices :
    ~client[d].waiting /\ client[d].ongoing = None /\ IsState(client[d].last, d, "completed")
      => \A b \in Books : client[d].books[b] > 0 => b \in BooksOf(client[d].last)

(* A book a device deleted is never offered to it again.                    *)
DeletedStaysDeleted ==
  [][\A d \in Devices, b \in Books :
       client[d].books[b] = 0 /\ client'[d].books[b] > 0 => b \notin tombs[d]]_vars

(* What a snapshot taken now would tell device d, after snapshot p. *)
WouldChange(d, p) ==
  \/ SnapshotBooks(d, p) # BooksOf(p)
  \/ \E b \in BooksOf(p) : \/ book[b].rev # point[p].books[b]
                           \/ /\ reading[Owner[d]][b].rev # point[p].states[b]
                              /\ reading[Owner[d]][b].writer # d
  \/ \E t \in Tags : /\ TagUser[t] = Owner[d]
                     /\ point[p].tags[t] # IF tag[t].live THEN tag[t].rev ELSE 0

(* An equal fingerprint means there is nothing to tell: nothingToSay never  *)
(* answers with an empty list a device that a new snapshot would have news  *)
(* for.                                                                     *)
NothingMissed ==
  [][\A d \in Devices : NothingToSay(d) => ~WouldChange(d, handler[d].last)]_vars

Offered(d, b) == IsRoot(b) /\ book[b].syncable /\ Visible(Owner[d], b) /\ b \notin tombs[d]

(* The device agrees with the server on the books it is offered, on the     *)
(* positions in the books it holds, and on its collections.                 *)
InSync(d) ==
  /\ \A b \in Books :
       /\ Offered(d, b) => client[d].books[b] = book[b].rev
       /\ client[d].books[b] > 0 => /\ IsRoot(b) /\ ~book[b].hidden /\ b \notin tombs[d]
                                    /\ client[d].pos[b] = reading[Owner[d]][b].rev
  /\ \A t \in Tags : TagUser[t] = Owner[d] =>
       client[d].tags[t] = IF tag[t].live THEN tag[t].rev ELSE 0

(* When the world comes to rest every device ends up in agreement with the  *)
(* library, however the edits fell between the pages of its syncs.          *)
Converges == <>[](\A d \in Devices : InSync(d))

(* A sync that has begun to be sent in pages comes to its last page.        *)
SyncEnds == \A d \in Devices : client[d].ongoing # None ~> client[d].ongoing = None

(* ``Take this off the device'': a hidden book does not stay on a device    *)
(* that keeps syncing.                                                      *)
HiddenIsRetracted ==
  \A d \in Devices, b \in Books :
    book[b].hidden /\ client[d].books[b] > 0 ~> ~book[b].hidden \/ client[d].books[b] = 0

(* A book on offer does not stay missing from a device that keeps syncing.  *)
OfferedArrives ==
  \A d \in Devices, b \in Books :
    Offered(d, b) /\ client[d].books[b] = 0 ~> ~Offered(d, b) \/ client[d].books[b] > 0
=============================================================================
