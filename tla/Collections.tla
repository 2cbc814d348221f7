----------------------------- MODULE Collections -----------------------------
(***************************************************************************)
(* Shelves: what readers make on their devices, and what is derived from   *)
(* the libraries' tags, series and chosen columns.  A rebuild takes two     *)
(* steps, for it reads the mode before its transaction; a scan takes two,   *)
(* for it remembers the choice of columns before the books are written.     *)
(* Each book has one row, and a scan's batches are one step.                *)
(***************************************************************************)
EXTENDS Integers, FiniteSets, FiniteSetsExt

CONSTANTS
  Users,        \* enabled users
  Readers,      \* those of them whose devices make collections
  Books,        \* canonical books
  Sources,      \* Calibre libraries
  BookSource,   \* the library a book's row is of
  Tags,         \* ids of tags rows
  Names,        \* what shelves, tags, series and column values are called
  Labels,       \* the libraries' custom columns
  Usable,       \* those of them that can name a shelf
  Says,         \* what its library may say of a book: [tags, series, columns]
  Modes,        \* of "off", "tags", "series", "both": those an operator tries
  LooseNames,   \* names an operator tries for the shelf of books in no series
  Happens,      \* the operations a run exercises
  MaxChanges    \* bound: how many of them a behaviour has

None == "none"
NoSeries == ""

(* The ids of rows do not run out before the names do.                     *)
ASSUME CollectionsAssumption ==
  /\ Readers \subseteq Users /\ None \notin Users
  /\ IsFiniteSet(Users) /\ IsFiniteSet(Names) /\ IsFiniteSet(Tags)
  /\ Cardinality(Tags) >= Cardinality(Users \X Names)
  /\ \A b \in Books : Says[b] \subseteq [tags : SUBSET Names, series : Names \cup {NoSeries},
                                         columns : [Labels -> SUBSET Names]]
  /\ BookSource \in [Books -> Sources] /\ Usable \subseteq Labels
  /\ Modes \subseteq {"off", "tags", "series", "both"} /\ "off" \in Modes
  /\ MaxChanges \in Nat

VARIABLES
  tag,       \* tags and tag_books
  book,      \* books: merged away into, hidden, the series set by hand
  row,       \* source_books and source_book_columns: the row of each book
  library,   \* external: what Calibre says of a book, and if it says so since we read it
  source,    \* sources and their settings in kv
  setting,   \* kv: collections:mode and collections:loose
  scan,      \* what a scan under way has read of a source
  due,       \* who is about to call Scanner.RebuildCollections
  begun,     \* the modes with which calls of it are about to write
  thrown,    \* history: shelves of the library that a reader threw away
  adrift,    \* history: shelves may differ from the library, and nobody is going to look
  missed,    \* history: sources whose change of columns was remembered and never read
  changes

vars == <<tag, book, row, library, source, setting, scan, due, begun, thrown, adrift, missed, changes>>

Idle == [running |-> FALSE]

(***************************************************************************)
(* Collections in the store.                                               *)
(***************************************************************************)
Unissued == [user |-> None, name |-> None, origin |-> None, live |-> FALSE, rev |-> 0, books |-> {}]
Issued(tags) == {t \in Tags : tags[t].user # None}
Named(tags, u, n) == {t \in Issued(tags) : tags[t].user = u /\ tags[t].name = n}

MaxAliasDepth == 8
ResolveBookID(b) ==
  LET chase[n \in 0 .. MaxAliasDepth] == IF n = 0 THEN b ELSE book[chase[n - 1]].into
  IN  chase[MaxAliasDepth]

(* A name that is there, deleted or not, is revived with what it has. *)
CreateTag(tags, u, n, origin) ==
  IF Named(tags, u, n) = {}
  THEN LET t == CHOOSE x \in Tags \ Issued(tags) : TRUE
       IN  [tags EXCEPT ![t] = [Unissued EXCEPT !.user = u, !.name = n, !.origin = origin,
                                                !.live = TRUE, !.rev = 1]]
  ELSE [tags EXCEPT ![CHOOSE x \in Named(tags, u, n) : TRUE].live = TRUE,
                    ![CHOOSE x \in Named(tags, u, n) : TRUE].rev = @ + 1]

TouchTag(t) == [t EXCEPT !.rev = @ + 1]
AddTagItemsUntouched(t, books) == \* seeded bug: the revision stays
  [t EXCEPT !.books = @ \cup {ResolveBookID(b) : b \in books}]
AddTagItems(t, books) == TouchTag([t EXCEPT !.books = @ \cup {ResolveBookID(b) : b \in books}])
RemoveTagItems(t, books) == TouchTag([t EXCEPT !.books = @ \ {ResolveBookID(b) : b \in books}])
DeleteTag(t) == IF t.live THEN TouchTag([t EXCEPT !.live = FALSE]) ELSE t

(***************************************************************************)
(* What the libraries ask for.                                             *)
(***************************************************************************)
SeriesOf(b) == IF book[b].override = None THEN row[b].series ELSE book[b].override

(* derive: a book is visible to u if it is offered and its library is shared. *)
Visible(u, b) ==
  LET s == source[BookSource[b]]
  IN  book[b].into = b /\ ~ book[b].hidden /\ s.enabled /\ (s.shareAll \/ u \in s.acl)

(* How often derive lists b under n: by its series, or the lack of one, as a *)
(* tag, and by each column whatever the mode.                               *)
Listings(b, n, mode) ==
  LET shelf == IF SeriesOf(b) # NoSeries THEN SeriesOf(b) ELSE setting.loose
  IN  (IF mode \in {"series", "both"} /\ n = shelf THEN 1 ELSE 0)
      + (IF mode \in {"tags", "both"} /\ n \in row[b].tags THEN 1 ELSE 0)
      + Cardinality({l \in Labels : n \in row[b].columns[l]})

Derived(u, n, mode) == {b \in Books : Visible(u, b) /\ Listings(b, n, mode) > 0}
ListedTwice(u, n, mode) == \E b \in Books : Visible(u, b) /\ Listings(b, n, mode) > 1

(* sameMembers compares a set with a list, which may name a book twice. *)
SameMembers(t, mode) == t.books = Derived(t.user, t.name, mode) /\ ~ ListedTwice(t.user, t.name, mode)

Refill(t, mode) ==
  IF SameMembers(t, mode) THEN t
  ELSE AddTagItems([t EXCEPT !.books = {}], Derived(t.user, t.name, mode))

ApplyToAll(t, mode) == \* seeded bug: a shelf is a shelf, whoever deleted it
  CASE Derived(t.user, t.name, mode) # {} /\ t.live /\ t.origin = "calibre" -> Refill(t, mode)
    [] Derived(t.user, t.name, mode) # {} /\ ~ (t.live /\ t.origin = "calibre") ->
         Refill(TouchTag([t EXCEPT !.live = TRUE, !.origin = "calibre"]), mode)
    [] Derived(t.user, t.name, mode) = {} /\ t.live /\ t.origin = "calibre" ->
         [DeleteTag([t EXCEPT !.books = {}]) EXCEPT !.origin = "server"]
    [] OTHER -> t

(* applyCollections, for a name that has a row.  A live shelf of the reader's *)
(* own is taken over when the library asks for its name.                      *)
Apply(t, mode) ==
  LET wanted == Derived(t.user, t.name, mode) # {}
      ours == t.live /\ t.origin = "calibre"
      deletedByDevice == ~ t.live /\ t.origin = "calibre"
  IN  CASE wanted /\ ours -> Refill(t, mode)
        [] wanted /\ ~ ours /\ ~ deletedByDevice ->
             Refill(TouchTag([t EXCEPT !.live = TRUE, !.origin = "calibre"]), mode)
        [] ~ wanted /\ ours -> [DeleteTag([t EXCEPT !.books = {}]) EXCEPT !.origin = "server"]
        [] OTHER -> t

(* applyCollections, for every user: the rows there are, then the names that  *)
(* have none.                                                                 *)
Rebuilt(mode) ==
  LET applied == [t \in Tags |-> IF t \in Issued(tag) THEN Apply(tag[t], mode) ELSE tag[t]]
      lacking == {p \in Users \X Names : Named(tag, p[1], p[2]) = {} /\ Derived(p[1], p[2], mode) # {}}
      ids == CHOOSE f \in [lacking -> Tags \ Issued(tag)] : \A p, q \in lacking : f[p] = f[q] => p = q
  IN  [t \in Tags |->
        IF \E p \in lacking : ids[p] = t
        THEN LET p == CHOOSE q \in lacking : ids[q] = t
             IN  Refill([Unissued EXCEPT !.user = p[1], !.name = p[2], !.origin = "calibre",
                                         !.live = TRUE, !.rev = 1], mode)
        ELSE applied[t]]

AnyShelfColumns == \E s \in Sources : source[s].chosen # {}

(* Books: what a read with these columns brings. *)
ReadAs(says, labels) ==
  [says EXCEPT !.columns = [l \in Labels |-> IF l \in labels THEN @[l] ELSE {}]]

(***************************************************************************)
(* Initial states, and how the operations are counted.                     *)
(***************************************************************************)
(* Every library has been scanned once, with collections off as they come.  *)
Init ==
  /\ tag = [t \in Tags |-> Unissued]
  /\ book = [b \in Books |-> [into |-> b, hidden |-> FALSE, override |-> None]]
  /\ library \in [Books -> [says : UNION {Says[b] : b \in Books}, changed : {FALSE}]]
  /\ \A b \in Books : library[b].says \in Says[b]
  /\ row = [b \in Books |-> ReadAs(library[b].says, {})]
  /\ source = [s \in Sources |-> [enabled |-> TRUE, shareAll |-> TRUE, acl |-> {}, known |-> Labels,
                                  chosen |-> {}, columnsRead |-> {}, signed |-> TRUE]]
  /\ setting = [mode |-> "off", loose |-> NoSeries]
  /\ scan = [s \in Sources |-> Idle]
  /\ due = {} /\ begun = {} /\ thrown = {} /\ adrift = FALSE /\ missed = {}
  /\ changes = 0

Change(kind) == kind \in Happens /\ changes < MaxChanges /\ changes' = changes + 1

libraryVars == <<library, scan, row, missed>>
shelfVars == <<tag, thrown, adrift>>
webVars == <<source, setting, book>>
rebuildVars == <<due, begun>>

(***************************************************************************)
(* A reader's device.  Each handler refuses a collection of another user's. *)
(***************************************************************************)
HandleCreateTag(u, n, books) ==
  /\ Change("device")
  /\ LET created == CreateTag(tag, u, n, "device")
         t == CHOOSE x \in Named(created, u, n) : TRUE
     IN  tag' = [created EXCEPT ![t] = AddTagItems(created[t], books)]
  /\ thrown' = thrown \ {<<u, n>>}
  /\ adrift' = TRUE
  /\ UNCHANGED <<libraryVars, webVars, rebuildVars>>

HandleRenameTag(u, t, n) ==
  /\ Change("device")
  /\ t \in Issued(tag) /\ tag[t].user = u /\ Named(tag, u, n) = {}
  /\ tag' = [tag EXCEPT ![t] = TouchTag([tag[t] EXCEPT !.name = n])]
  /\ thrown' = IF <<u, tag[t].name>> \in thrown \* a deleted row stands for the new name
               THEN (thrown \ {<<u, tag[t].name>>}) \cup {<<u, n>>} ELSE thrown
  /\ adrift' = TRUE
  /\ UNCHANGED <<libraryVars, webVars, rebuildVars>>

HandleDeleteTag(u, t) ==
  /\ Change("device")
  /\ t \in Issued(tag) /\ tag[t].user = u /\ tag[t].live
  /\ tag' = [tag EXCEPT ![t] = DeleteTag(tag[t])]
  /\ thrown' = IF tag[t].origin = "calibre" THEN thrown \cup {<<u, tag[t].name>>} ELSE thrown
  /\ adrift' = TRUE
  /\ UNCHANGED <<libraryVars, webVars, rebuildVars>>

HandleTagItems(u, t, change) ==
  /\ Change("device")
  /\ t \in Issued(tag) /\ tag[t].user = u
  /\ tag' = [tag EXCEPT ![t] = change]
  /\ adrift' = TRUE
  /\ UNCHANGED <<thrown, libraryVars, webVars, rebuildVars>>

HandleAddTagItems(u, t, books) == HandleTagItems(u, t, AddTagItems(tag[t], books))
HandleRemoveTagItems(u, t, books) == HandleTagItems(u, t, RemoveTagItems(tag[t], books))

(***************************************************************************)
(* The operator.  Hiding a book and turning a library off rebuild nothing.  *)
(***************************************************************************)
HandleSetCollections(mode, loose) ==
  /\ Change("setting")
  /\ setting' = [mode |-> mode, loose |-> loose]
  /\ due' = due \cup {"setting"}
  /\ UNCHANGED <<begun, source, book, libraryVars, shelfVars>>

HandleSetCollectionsFails(mode) ==
  /\ Change("fail")
  /\ setting' = [setting EXCEPT !.mode = mode]
  /\ adrift' = TRUE
  /\ UNCHANGED <<tag, thrown, source, book, libraryVars, rebuildVars>>

HandleSetSharing(s, users) ==
  /\ Change("sharing")
  /\ source' = [source EXCEPT ![s].shareAll = (users = {}), ![s].acl = users]
  /\ due' = due \cup {"sharing"}
  /\ UNCHANGED <<begun, setting, book, libraryVars, shelfVars>>

SeriesWithoutShelves(b, series) == \* seeded bug: the shelves do not follow
  /\ Change("series")
  /\ book' = [book EXCEPT ![b].override = series]
  /\ UNCHANGED <<due, begun, setting, source, libraryVars, shelfVars>>

HandleSetSeries(b, series) ==
  /\ Change("series")
  /\ book' = [book EXCEPT ![b].override = series]
  /\ due' = due \cup {"series"}
  /\ UNCHANGED <<begun, setting, source, libraryVars, shelfVars>>

HandleHide(b) ==
  /\ Change("hide")
  /\ book[b].into = b
  /\ book' = [book EXCEPT ![b].hidden = ~ @]
  /\ adrift' = TRUE
  /\ UNCHANGED <<tag, thrown, setting, source, libraryVars, rebuildVars>>

HandleToggleSource(s) ==
  /\ Change("toggle")
  /\ source' = [source EXCEPT ![s].enabled = ~ @]
  /\ adrift' = TRUE
  /\ UNCHANGED <<tag, thrown, setting, book, libraryVars, rebuildVars>>

(* SetShelfColumns keeps what the last scan found and a shelf can be named by. *)
SetShelfColumns(s, labels) ==
  /\ Change("columns")
  /\ source' = [source EXCEPT ![s].chosen = labels \cap source[s].known \cap Usable]
  /\ UNCHANGED <<setting, book, libraryVars, rebuildVars, shelfVars>>

(***************************************************************************)
(* Calibre, and the scan.                                                  *)
(***************************************************************************)
CalibreEdits(b, says) ==
  /\ Change("edit")
  /\ says # library[b].says
  /\ library' = [library EXCEPT ![b] = [says |-> says, changed |-> TRUE]]
  /\ source' = [source EXCEPT ![BookSource[b]].signed = FALSE]
  /\ scan' = [s \in Sources |-> IF s = BookSource[b] /\ scan[s].running
                                THEN [scan[s] EXCEPT !.current = FALSE, !.later = @ \cup {b}]
                                ELSE scan[s]]
  /\ UNCHANGED <<row, missed, setting, book, rebuildVars, shelfVars>>

ReadsWhatChanged(s, labels) == \* seeded bug: a new choice is no reason to read a book again
  {b \in Books : BookSource[b] = s /\ library[b].changed}

(* What scan reads in full: what changed, or everything if rememberColumns   *)
(* finds another choice of columns than the last scan read.                  *)
ToRead(s, labels) ==
  {b \in Books : BookSource[b] = s /\ (library[b].changed \/ labels # source[s].columnsRead)}

ScanReads(s) ==
  LET labels == source[s].chosen \cap Labels \cap Usable
  IN  /\ ~ scan[s].running
      /\ scan' = [scan EXCEPT ![s] = [running |-> TRUE,
                                      books |-> [b \in ToRead(s, labels) |-> ReadAs(library[b].says, labels)],
                                      current |-> TRUE, later |-> {},
                                      all |-> labels # source[s].columnsRead]]
      /\ source' = [source EXCEPT ![s].known = Labels, ![s].columnsRead = labels, ![s].signed = FALSE]
      /\ UNCHANGED <<library, row, missed, setting, book, rebuildVars, shelfVars>>

(* A library whose signature has not moved since a scan that ended well is    *)
(* skipped, unless the operator asks.                                         *)
Scan(s) == ~ source[s].signed /\ ScanReads(s) /\ UNCHANGED changes
HandleScanSource(s) == source[s].signed /\ Change("force") /\ ScanReads(s)

(* MergeBooks, when two books turn out to be one: the members of shelves move *)
(* and the shelves' revisions do not.                                         *)
MergeBooks(loser, survivor) ==
  /\ book' = [book EXCEPT ![loser].into = survivor]
  /\ tag' = [t \in Tags |->
        IF loser \in tag[t].books
        THEN [tag[t] EXCEPT !.books = (@ \ {loser}) \cup {survivor}] ELSE tag[t]]

ScanWrites(s) ==
  /\ scan[s].running
  /\ LET read == scan[s]
     IN  /\ row' = [b \in Books |-> IF b \in DOMAIN read.books THEN read.books[b] ELSE row[b]]
         /\ library' = [b \in Books |->
              IF b \in DOMAIN read.books \ read.later
              THEN [library[b] EXCEPT !.changed = FALSE] ELSE library[b]]
         /\ source' = [source EXCEPT ![s].signed = read.current]
         /\ missed' = IF read.all THEN missed \ {s} ELSE missed
         /\ \/ UNCHANGED <<book, tag, changes>>
            \/ \E l \in DOMAIN read.books, w \in Books :
                  /\ Change("merge") /\ l # w /\ book[l].into = l /\ book[w].into = w
                  /\ MergeBooks(l, w)
  /\ scan' = [scan EXCEPT ![s] = Idle]
  /\ due' = due \cup {"scan"}
  /\ UNCHANGED <<setting, begun, thrown, adrift>>

(* The library or the database gives out: what was remembered stays.          *)
ScanFails(s) ==
  /\ Change("fail")
  /\ scan[s].running
  /\ scan' = [scan EXCEPT ![s] = Idle]
  /\ missed' = IF scan[s].all THEN missed \cup {s} ELSE missed
  /\ UNCHANGED <<library, row, webVars, rebuildVars, shelfVars>>

(***************************************************************************)
(* Scanner.RebuildCollections.                                             *)
(***************************************************************************)
RebuildBegins(who) ==
  /\ who \in due
  /\ due' = due \ {who}
  /\ IF setting.mode = "off" /\ ~ AnyShelfColumns
     THEN adrift' = TRUE /\ UNCHANGED begun
     ELSE begun' = begun \cup {setting.mode} /\ UNCHANGED adrift
  /\ UNCHANGED <<tag, thrown, libraryVars, webVars, changes>>

RebuildWrites(mode) ==
  /\ mode \in begun
  /\ tag' = Rebuilt(mode)
  /\ begun' = begun \ {mode}
  /\ adrift' = (mode # setting.mode)
  /\ UNCHANGED <<due, thrown, libraryVars, webVars, changes>>

RebuildFails(mode) ==
  /\ Change("fail")
  /\ mode \in begun
  /\ begun' = begun \ {mode}
  /\ adrift' = TRUE
  /\ UNCHANGED <<tag, thrown, due, libraryVars, webVars>>

Restart ==
  /\ Change("restart")
  /\ due' = {} /\ begun' = {}
  /\ adrift' = (adrift \/ due \cup begun # {})
  /\ scan' = [s \in Sources |-> Idle]
  /\ missed' = missed \cup {s \in Sources : scan[s].running /\ scan[s].all}
  /\ UNCHANGED <<tag, thrown, library, row, webVars>>

Device ==
  \E u \in Readers :
    \/ \E n \in Names, b \in Books : HandleCreateTag(u, n, {}) \/ HandleCreateTag(u, n, {b})
    \/ \E t \in Tags :
         \/ \E n \in Names : HandleRenameTag(u, t, n)
         \/ HandleDeleteTag(u, t)
         \/ \E b \in Books : HandleAddTagItems(u, t, {b}) \/ HandleRemoveTagItems(u, t, {b})

Web ==
  \/ \E mode \in Modes :
       \/ \E loose \in LooseNames : HandleSetCollections(mode, loose)
       \/ HandleSetCollectionsFails(mode)
  \/ \E b \in Books : HandleHide(b) \/ \E n \in Names \cup {NoSeries, None} : HandleSetSeries(b, n)
  \/ \E s \in Sources :
       \/ HandleToggleSource(s) \/ HandleScanSource(s)
       \/ \E users \in SUBSET Users : HandleSetSharing(s, users)
       \/ \E labels \in SUBSET Labels : SetShelfColumns(s, labels)

Next ==
  \/ Device \/ Web \/ Restart
  \/ \E b \in Books : \E says \in Says[b] : CalibreEdits(b, says)
  \/ \E s \in Sources : Scan(s) \/ ScanWrites(s) \/ ScanFails(s)
  \/ \E who \in due : RebuildBegins(who)
  \/ \E mode \in begun : RebuildWrites(mode) \/ RebuildFails(mode)

Spec == Init /\ [][Next]_vars

-----------------------------------------------------------------------------
(***************************************************************************)
(* Properties.                                                             *)
(***************************************************************************)
(* Every variable has its type, and no user has two collections of one name, *)
(* live or deleted.                                                          *)
TypeOK ==
  /\ \A t \in Issued(tag) :
       /\ tag[t].user \in Users /\ tag[t].name \in Names /\ tag[t].rev \in Nat \ {0}
       /\ tag[t].origin \in {"device", "calibre", "server"} /\ tag[t].books \subseteq Books
       /\ Named(tag, tag[t].user, tag[t].name) = {t}
  /\ \A b \in Books : book[b].into \in Books
  /\ \A s \in Sources : source[s].chosen \subseteq source[s].known \cap Usable
  /\ begun \subseteq Modes /\ due \subseteq {"setting", "sharing", "series", "scan"}
  /\ thrown \subseteq Users \X Names /\ adrift \in BOOLEAN /\ missed \subseteq Sources

(* A shelf of the library that a reader threw away stays away, whatever is    *)
(* scanned, set or rebuilt in whatever order, until a reader makes a          *)
(* collection of that name (applyCollections, collections.go:196-205).        *)
ThrownAwayStaysGone == \A t \in Issued(tag) : tag[t].live => <<tag[t].user, tag[t].name>> \notin thrown

(* Once no rebuild is on its way, the shelves of the library are those it     *)
(* asks for and hold the books it says, for each user those he may see: no    *)
(* order of scans, settings, sharing and series loses a rebuild.  Where the   *)
(* code does not look again (`adrift') nothing is promised.                   *)
ShelvesFollow ==
  due = {} /\ begun = {} /\ ~ adrift /\ (\A s \in Sources : ~ scan[s].running) =>
    \A u \in Users, n \in Names :
      LET ours == {t \in Named(tag, u, n) : tag[t].live /\ tag[t].origin = "calibre"}
          asked == Derived(u, n, setting.mode)
      IN  (setting.mode # "off" \/ AnyShelfColumns) =>
            IF asked = {} \/ <<u, n>> \in thrown THEN ours = {}
            ELSE \E t \in ours : tag[t].books = asked

(* A library the next scan would skip as unchanged has nothing left to tell:  *)
(* every row says what Calibre says, with the columns remembered as read.  A  *)
(* scan that failed after it remembered them is excepted (`missed').          *)
SkippedScansMissNothing ==
  \A s \in Sources : source[s].signed /\ s \notin missed =>
    \A b \in Books : BookSource[b] = s => row[b] = ReadAs(library[b].says, source[s].columnsRead)

(* A device hears of a collection by its revision: it moves when the name,    *)
(* the members or the life of a collection do, and a rebuild moves it for no  *)
(* other reason, but that the library lists a book twice.  A merge moves      *)
(* members and no revision.                                                   *)
RevMovesWithTheShelf ==
  [][\A t \in Issued(tag) :
       LET seen(x) == <<x.name, x.live, x.books>>
           rebuilt == \E m \in begun \ begun' : changes' = changes
                        /\ ~ ListedTwice(tag[t].user, tag[t].name, m)
       IN  /\ seen(tag'[t]) # seen(tag[t]) /\ book' = book => tag'[t].rev > tag[t].rev
           /\ rebuilt /\ seen(tag'[t]) = seen(tag[t]) /\ tag'[t].origin = tag[t].origin
                => tag'[t].rev = tag[t].rev]_vars
=============================================================================
