------------------------------- MODULE Ingest -------------------------------
(***************************************************************************)
(* How the rows of several libraries become one canonical library: the     *)
(* identity keys of a row, Attach with its merges, Resolve with its choice  *)
(* of metadata, cover and file, splitting and rejoining by hand, purging,   *)
(* the copies kept of a library's files, and removing a library.  One       *)
(* action per transaction; a handler that takes several leaves the rest of  *)
(* its work in `owed' and `deleting', where a restart loses it.  A scan     *)
(* carries one row; reading the library and writing the row are one step.   *)
(***************************************************************************)
EXTENDS Integers, Sequences, FiniteSets, FiniteSetsExt, SequencesExt

CONSTANTS
  Books,       \* canonical ids; numbers, in the order they are issued
  Rows,        \* source_books rows; numbers, in the order of source and Calibre id
  Sources,     \* numbers, in the order of their ids
  RowSource,   \* the source a row belongs to
  FirstKinds,  \* the kinds a source may be created with: "calibre", "web", "upload"
  Format,      \* the format of a row's file: "FIXED", "EPUB", "KEPUB" or another
  Convertible, \* the other formats this machine's converter can read
  Editions,    \* what may be said of a row: its keys, a cover, a file that is there
  Series,      \* series an operator may choose
  Happens,     \* the operations a run exercises
  MaxChanges   \* bound: how many of them a behaviour has

NoText == "" \* what a row does not say

ASSUME IngestAssumption ==
  /\ Books \subseteq Nat \ {0} /\ IsFiniteSet(Books)
  /\ Rows \subseteq Nat \ {0} /\ IsFiniteSet(Rows)
  /\ Sources \subseteq Nat \ {0} /\ RowSource \in [Rows -> Sources]
  /\ FirstKinds \in [Sources -> SUBSET {"calibre", "web", "upload"}]
  /\ \A r \in Rows : \A e \in Editions[r] :
       /\ e = [uuid |-> e.uuid, isbn |-> e.isbn, title |-> e.title, authors |-> e.authors,
               link |-> e.link, cover |-> e.cover, present |-> e.present]
       /\ e.cover \in BOOLEAN /\ e.present \in BOOLEAN
  /\ MaxChanges \in Nat

VARIABLES
  book,      \* books, with book_series_overrides
  row,       \* source_books and source_book_files, with our copy of the file
  owner,     \* book_identities: the book a key leads to, 0 if nobody claimed it
  source,    \* sources: kind, enabled, priority, and whether files are read from our copy
  owed,      \* <<source, why>>: the handlers that have still to run ResolveSource
  deleting,  \* how far handleDeleteSource has come with a source
  stale,     \* history: books whose contributors changed and nobody is going to resolve
  refused,   \* history: the books whose purge the database refused
  changes

vars == <<book, row, owner, source, owed, deleting, stale, refused, changes>>

(***************************************************************************)
(* Identity keys.                                                          *)
(***************************************************************************)
Articles == {"a", "an", "the", "le", "la", "les", "el", "los", "las", "der", "die", "das",
             "il", "lo", "de", "het", "und"}

(* A title is its folded words and a trailing parenthetical; the latter and *)
(* a leading article do not count, unless the article is all there is.      *)
NormalizeTitle(title) ==
  IF Len(title.words) > 1 /\ Head(title.words) \in Articles THEN Tail(title.words)
  ELSE title.words

(* Only the first author counts. *)
NormalizeAuthor(authors) == IF authors = <<>> THEN NoText ELSE Head(authors)

X == 10 \* the check digit of an ISBN-10 that is not a digit

Weighted13(d, n) == FoldLeft(+, 0, [i \in 1 .. n |-> IF i % 2 = 0 THEN 3 * d[i] ELSE d[i]])
ValidISBN10(d) == /\ \A i \in 1 .. 9 : d[i] # X
                  /\ FoldLeft(+, 0, [i \in 1 .. 10 |-> (11 - i) * d[i]]) % 11 = 0
ValidISBN13(d) == (\A i \in 1 .. 13 : d[i] # X) /\ Weighted13(d, 13) % 10 = 0
ISBN10To13(d) ==
  LET body == <<9, 7, 8>> \o SubSeq(d, 1, 9)
  IN  Append(body, (10 - (Weighted13(body, 12) % 10)) % 10)

(* The thirteen digits of a number that is a valid ISBN, else <<>>. *)
NormalizeISBN(d) ==
  IF Len(d) = 10 /\ ValidISBN10(d) THEN ISBN10To13(d)
  ELSE IF Len(d) = 13 /\ ValidISBN13(d) THEN d
  ELSE <<>>

(* identityRows and Keys. *)
Keys(e) ==
  { <<"weburl", u>> : u \in {e.link} \ {NoText} }
    \cup { <<"calibre_uuid", u>> : u \in {e.uuid} \ {NoText} }
    \cup { <<"isbn", i>> : i \in {NormalizeISBN(e.isbn)} \ {<<>>} }
    \cup { <<"titleauthor", t, NormalizeAuthor(e.authors)>> : t \in {NormalizeTitle(e.title)} \ {<<>>} }

NoEdition == [uuid |-> NoText, isbn |-> <<>>, title |-> [words |-> <<>>, aside |-> FALSE],
              authors |-> <<>>, link |-> NoText, cover |-> FALSE, present |-> FALSE]
AllEditions == UNION {Editions[r] : r \in Rows}
Stored(e) == [e EXCEPT !.link = NoText]
KeysOf == [e \in {NoEdition} \cup AllEditions \cup {Stored(e) : e \in AllEditions} |-> Keys(e)]
AllKeys == UNION {KeysOf[e] : e \in AllEditions}

(***************************************************************************)
(* The tables of one transaction, and what the code does to them.          *)
(***************************************************************************)
Tables == [book |-> book, row |-> row, owner |-> owner]
Commit(t) == book' = t.book /\ row' = t.row /\ owner' = t.owner

NotServed == [title |-> NoEdition.title, series |-> NoText, cover |-> 0, file |-> 0]
NoBook == [state |-> "unused", into |-> 0, hidden |-> FALSE, available |-> FALSE,
           syncable |-> FALSE, served |-> NotServed, rev |-> 0, override |-> {}]
Unseen == [book |-> 0, pinned |-> 0, missing |-> FALSE, edition |-> NoEdition,
           present |-> FALSE, cover |-> FALSE, copy |-> FALSE]

IsRoot(t, b) == t.book[b].state = "known" /\ t.book[b].into = 0

(* ResolveBookID, where it does not fail: what the alias chain of b ends in. *)
MaxAliasDepth == 8
ResolveBookID(t, b) ==
  LET chase[n \in 0 .. MaxAliasDepth] ==
        IF n = 0 THEN b
        ELSE IF t.book[chase[n - 1]].into = 0 THEN chase[n - 1] ELSE t.book[chase[n - 1]].into
  IN  IF t.book[b].into = 0 THEN b ELSE chase[MaxAliasDepth - 1]

LookupIdentities(t, keys) == {ResolveBookID(t, t.owner[k]) : k \in {q \in keys : t.owner[q] # 0}}

(* CreateBook issues the next id. *)
Unissued(t) == {b \in Books : t.book[b].state = "unused"}
CreateBook(t, b) == [t EXCEPT !.book[b] = [NoBook EXCEPT !.state = "known", !.rev = 1]]

AddIdentitiesOfNewBook(t, b, keys) == \* seeded bug: a known book claims nothing more
  [t EXCEPT !.owner = [k \in AllKeys |->
     IF k \in keys /\ b \notin {t.owner[q] : q \in keys} THEN b ELSE t.owner[k]]]

(* INSERT OR IGNORE: the first claim of a key wins. *)
AddIdentities(t, b, keys) ==
  [t EXCEPT !.owner = [k \in AllKeys |-> IF k \in keys /\ t.owner[k] = 0 THEN b ELSE t.owner[k]]]

(* MergeBooks for each loser: rows and keys move, a series chosen by hand    *)
(* follows unless the survivor has its own, and the loser becomes an alias.  *)
MergeBooks(t, b, losers) ==
  LET chosen == {c \in losers : t.book[c].override # {}} IN
  [book  |-> [c \in Books |->
                IF c \in losers
                THEN [t.book[c] EXCEPT !.into = b, !.available = FALSE, !.syncable = FALSE,
                                       !.override = {}]
                ELSE IF c = b /\ t.book[b].override = {} /\ chosen # {}
                THEN [t.book[b] EXCEPT !.override = t.book[Min(chosen)].override]
                ELSE t.book[c]],
   row   |-> [r \in Rows |-> IF t.row[r].book \in losers THEN [t.row[r] EXCEPT !.book = b]
                             ELSE t.row[r]],
   owner |-> [k \in AllKeys |-> IF t.owner[k] \in losers THEN b ELSE t.owner[k]]]

(* Attach: the tables once row r, unpinned and saying e, belongs to a book. *)
AttachByKeys(t, r, keys) ==
  LET matches == LookupIdentities(t, keys)
      b == IF matches = {} THEN Min(Unissued(t)) ELSE Min(matches) \* PickSurvivor: the oldest
      home == IF matches = {} THEN CreateBook(t, b) ELSE MergeBooks(t, b, matches \ {b})
  IN  [AddIdentities(home, b, keys) EXCEPT !.row[r].book = b]

(* A copy whose keys lead nowhere needs a new id, and there are only Books.  *)
HasRoom(t, r, keys) == t.row[r].pinned # 0 \/ LookupIdentities(t, keys) # {} \/ Unissued(t) # {}

AttachIgnoringPins(t, r, keys) == AttachByKeys(t, r, keys) \* seeded bug

Attach(t, r, keys) ==
  IF t.row[r].pinned # 0
  THEN [t EXCEPT !.row[r].book = ResolveBookID(t, t.row[r].pinned)]
  ELSE AttachByKeys(t, r, keys)

(***************************************************************************)
(* Resolve: a book recomputed from its live rows.                          *)
(***************************************************************************)
Candidates(t, src, b) ==
  {r \in Rows : t.row[r].book = b /\ ~t.row[r].missing /\ src[RowSource[r]].enabled}

(* The ORDER BY of Candidates: a row with a file, the source's priority, ids. *)
Ranks(t, src, rs) == [r \in rs |-> << IF t.row[r].present THEN 0 ELSE 1, src[RowSource[r]].priority, r >>]
Before(x, y) == \E i \in 1 .. 3 : x[i] < y[i] /\ \A j \in 1 .. i - 1 : x[j] = y[j]
Leading(rank) == CHOOSE r \in DOMAIN rank : \A q \in DOMAIN rank \ {r} : Before(rank[r], rank[q])
First(t, src, rs) == Leading(Ranks(t, src, rs))

(* applyCover: the first candidate that has a cover. *)
CoverOf(t, src, rs) ==
  LET covered == {r \in rs : t.row[r].cover} IN IF covered = {} THEN 0 ELSE First(t, src, covered)

(* applyDownload: fixed-layout EPUB, KEPUB, EPUB, then whatever converts. *)
Preference == << {"FIXED"}, {"KEPUB"}, {"EPUB"}, Convertible >>
Tier(t, rs, i) == {r \in rs : t.row[r].present /\ Format[r] \in Preference[i]}
FileOf(t, src, rs) ==
  LET tiers == {i \in 1 .. 4 : Tier(t, rs, i) # {}}
  IN  IF tiers = {} THEN 0 ELSE First(t, src, Tier(t, rs, Min(tiers)))

(* The fields of servingFields: what a device can observe. *)
Serving(t, src, b) ==
  LET rs == Candidates(t, src, b) IN
  [title  |-> t.row[First(t, src, rs)].edition.title,
   series |-> IF t.book[b].override = {} THEN NoText ELSE CHOOSE s \in t.book[b].override : TRUE,
   cover  |-> CoverOf(t, src, rs),
   file   |-> FileOf(t, src, rs)]

ResolvedClearing(t, src, b) == \* seeded bug: a book nobody has any more is blanked
  LET served == IF Candidates(t, src, b) = {} THEN NotServed ELSE Serving(t, src, b)
      was == t.book[b]
  IN  [was EXCEPT !.available = Candidates(t, src, b) # {},
                  !.syncable = ~was.hidden /\ served.file # 0, !.served = served,
                  !.rev = IF was.served \notin {NotServed, served} THEN was.rev + 1 ELSE was.rev]

Resolved(t, src, b) ==
  LET was == t.book[b]
      served == Serving(t, src, b)
  IN  IF was.into # 0 THEN was
      ELSE IF Candidates(t, src, b) = {} THEN [was EXCEPT !.available = FALSE, !.syncable = FALSE]
      ELSE [was EXCEPT !.available = TRUE, !.syncable = ~was.hidden /\ served.file # 0,
                       !.served = served,
                       !.rev = IF was.served \notin {NotServed, served} THEN was.rev + 1 ELSE was.rev]

Resolve(t, src, bs) ==
  [t EXCEPT !.book = [b \in Books |-> IF b \in bs THEN Resolved(t, src, b) ELSE t.book[b]]]

Init ==
  /\ book = [b \in Books |-> NoBook]
  /\ row = [r \in Rows |-> Unseen]
  /\ owner = [k \in AllKeys |-> 0]
  /\ source \in {[s \in Sources |-> [kind |-> kind[s], enabled |-> TRUE, priority |-> 100, own |-> FALSE]] :
                 kind \in {k \in [Sources -> {"calibre", "web", "upload"}] : \A s \in Sources : k[s] \in FirstKinds[s]}}
  /\ owed = {} /\ deleting = [s \in Sources |-> "no"]
  /\ stale = {} /\ refused = {}
  /\ changes = 0

Change(kind) ==
  /\ kind \in Happens
  /\ changes < MaxChanges
  /\ changes' = changes + 1

(***************************************************************************)
(* A scan.                                                                 *)
(***************************************************************************)
(* copyWholeSource: every file the library still has, into our own copy. *)
CopyWholeSource(t, s) ==
  [t EXCEPT !.row = [r \in Rows |-> IF RowSource[r] = s /\ ~t.row[r].missing /\ t.row[r].present
                                    THEN [t.row[r] EXCEPT !.copy = TRUE] ELSE t.row[r]]]

(* The end of a scan of a source whose files are not read from our copy yet; *)
(* copying may fail, and then the next scan tries again.                     *)
AfterScan(t, s, copied) ==
  /\ Commit(IF copied /\ ~source[s].own THEN CopyWholeSource(t, s) ELSE t)
  /\ source' = [source EXCEPT ![s].own = @ \/ copied]

(* The row as UpsertSourceBook leaves it: the INSERT has no web_url, so the  *)
(* link is among the keys of the first Attach and then forgotten.  A file    *)
(* that changed is copied before, when our own copy is what is read.         *)
Written(r, e) ==
  [Tables EXCEPT !.row[r] =
     [row[r] EXCEPT !.edition = Stored(e), !.missing = FALSE, !.present = e.present, !.cover = e.cover,
                    !.copy = row[r].copy \/ (e.present /\ source[RowSource[r]].own)]]

(* ingestBook and the end of Scanner.scan, for a row that is new, edited or  *)
(* back.  A row edited beyond recognition leaves its former book, and that   *)
(* one is not among the books resolved.                                      *)
IngestBook(r, e, copied) ==
  LET attached == Attach(Written(r, e), r, KeysOf[e])
      b == attached.row[r].book
      left == {ResolveBookID(attached, c) : c \in {row[r].book} \ {0}} \ {b}
  IN  /\ Change("ingest")
      /\ source[RowSource[r]].kind = "calibre"
      /\ HasRoom(Written(r, e), r, KeysOf[e])
      /\ AfterScan(Resolve(attached, source, {b}), RowSource[r], copied)
      /\ stale' = (stale \ {b}) \cup left
      /\ UNCHANGED <<owed, deleting, refused>>

(* An import is filed by the same steps, without a scan, and filed again     *)
(* whenever its text has grown.                                              *)
FileBook(r, e) ==
  LET attached == Attach(Written(r, e), r, KeysOf[e])
      b == attached.row[r].book
      left == {ResolveBookID(attached, c) : c \in {row[r].book} \ {0}} \ {b}
  IN  /\ Change("file")
      /\ source[RowSource[r]].kind = "web"
      /\ HasRoom(Written(r, e), r, KeysOf[e])
      /\ Commit(Resolve(attached, source, {b}))
      /\ stale' = (stale \ {b}) \cup left
      /\ UNCHANGED <<source, owed, deleting, refused>>

(* So is an upload, but once: Add gives every file a directory of its own, so *)
(* the same file sent again is another row.                                  *)
NewUpload(r) == source[RowSource[r]].kind = "upload" /\ row[r] = Unseen

Upload(r, e) ==
  LET attached == Attach(Written(r, e), r, KeysOf[e])
      b == attached.row[r].book
  IN  /\ Change("file")
      /\ NewUpload(r) /\ HasRoom(Written(r, e), r, KeysOf[e])
      /\ Commit(Resolve(attached, source, {b}))
      /\ stale' = stale \ {b}
      /\ UNCHANGED <<source, owed, deleting, refused>>

Missing(r) == [Tables EXCEPT !.row[r].missing = TRUE]

(* The row is marked missing, as if a library had lost the book, and the file *)
(* removed.                                                                  *)
RemoveUpload(r) ==
  LET b == ResolveBookID(Tables, row[r].book)
  IN  /\ Change("vanish")
      /\ source[RowSource[r]].kind = "upload"
      /\ row[r].book # 0
      /\ Commit(Resolve(Missing(r), source, {b}))
      /\ stale' = stale \ {b}
      /\ UNCHANGED <<source, owed, deleting, refused>>

(* A row the library no longer has: MarkSourceBooksMissing, then Resolve. *)
Vanish(r, copied) ==
  LET t == Missing(r)
      b == ResolveBookID(t, row[r].book)
  IN  /\ Change("vanish")
      /\ source[RowSource[r]].kind = "calibre"
      /\ row[r].book # 0 /\ ~row[r].missing
      /\ AfterScan(Resolve(t, source, {b}), RowSource[r], copied)
      /\ stale' = stale \ {b}
      /\ UNCHANGED <<owed, deleting, refused>>

(***************************************************************************)
(* Split and Rejoin.                                                       *)
(***************************************************************************)
(* ErrAlreadySplit and ErrNothingToSplit are the guards. *)
Split(r) ==
  LET b == Min(Unissued(Tables))
      t == [CreateBook(Tables, b) EXCEPT !.row[r].book = b, !.row[r].pinned = b]
      both == {ResolveBookID(Tables, row[r].book), b}
  IN  /\ Change("split")
      /\ row[r].pinned = 0 /\ row[r].book # 0
      /\ \E q \in Rows \ {r} : row[q].book = row[r].book
      /\ Unissued(Tables) # {}
      /\ Commit(Resolve(t, source, both))
      /\ stale' = stale \ both
      /\ UNCHANGED <<source, owed, deleting, refused>>

Unpinned(r) == [Tables EXCEPT !.row[r].pinned = 0]

RejoinLeaving(r) == \* seeded bug: the book the copy leaves is not resolved
  LET t == AttachByKeys(Unpinned(r), r, KeysOf[row[r].edition])
      b == t.row[r].book
  IN  /\ Change("rejoin")
      /\ row[r].pinned # 0 /\ KeysOf[row[r].edition] # {}
      /\ HasRoom(Unpinned(r), r, KeysOf[row[r].edition])
      /\ Commit(Resolve(t, source, {b}))
      /\ stale' = stale \ {b}
      /\ UNCHANGED <<source, owed, deleting, refused>>

Rejoin(r) ==
  LET t == Attach(Unpinned(r), r, KeysOf[row[r].edition])
      both == {ResolveBookID(t, row[r].book), t.row[r].book}
  IN  /\ Change("rejoin")
      /\ row[r].pinned # 0 /\ KeysOf[row[r].edition] # {}
      /\ HasRoom(Unpinned(r), r, KeysOf[row[r].edition])
      /\ Commit(Resolve(t, source, both))
      /\ stale' = stale \ both
      /\ UNCHANGED <<source, owed, deleting, refused>>

(***************************************************************************)
(* What an operator changes about a book.                                  *)
(***************************************************************************)
SetBookHidden(b) ==
  /\ Change("hide")
  /\ IsRoot(Tables, b)
  /\ book' = [book EXCEPT ![b].hidden = ~@,
                          ![b].syncable = book[b].available /\ book[b].hidden /\ book[b].served.file # 0]
  /\ UNCHANGED <<row, owner, source, owed, deleting, stale, refused>>

(* handleSetSeries: the override is written, then the book is resolved in a *)
(* transaction of its own, which may not happen.                            *)
SetSeries(b, chosen, resolved) ==
  LET t == [Tables EXCEPT !.book[b].override = chosen] IN
  /\ Change("series")
  /\ IsRoot(Tables, b) /\ book[b].override # chosen
  /\ Commit(IF resolved THEN Resolve(t, source, {b}) ELSE t)
  /\ stale' = IF resolved THEN stale \ {b} ELSE stale \cup {b}
  /\ UNCHANGED <<source, owed, deleting, refused>>

(* PurgeBook takes the book and the ids merged into it, the book first; a    *)
(* DELETE of a book some alias still points at breaks a foreign key, and the *)
(* transaction is undone.                                                    *)
Aliases(b) == {c \in Books : book[c].into = b}
PurgeRows(b) ==
  /\ book' = [book EXCEPT ![b] = [NoBook EXCEPT !.state = "purged"]]
  /\ row' = [r \in Rows |-> IF row[r].book = b THEN Unseen ELSE row[r]]
  /\ owner' = [k \in AllKeys |-> IF owner[k] = b THEN 0 ELSE owner[k]]
  /\ UNCHANGED refused
PurgeBook(b) ==
  /\ Change("purge")
  /\ IsRoot(Tables, b)
  /\ IF Aliases(b) = {} THEN PurgeRows(b)
     ELSE refused' = refused \cup {b} /\ UNCHANGED <<book, row, owner>>
  /\ UNCHANGED <<source, owed, deleting, stale>>

(***************************************************************************)
(* What an operator changes about a library.                               *)
(***************************************************************************)
BooksTouchedBySource(s) ==
  {ResolveBookID(Tables, row[r].book) : r \in {q \in Rows : RowSource[q] = s /\ row[q].book # 0}}

ResolveSource(s, why) ==
  /\ <<s, why>> \in owed
  /\ owed' = owed \ {<<s, why>>}
  /\ Commit(Resolve(Tables, source, BooksTouchedBySource(s)))
  /\ stale' = stale \ BooksTouchedBySource(s)
  /\ UNCHANGED <<source, deleting, refused, changes>>

(* It fails (a book of the list it read was purged since, or the disk), and  *)
(* nobody tries again: handleEditSource only logs it.  A deletion stops.     *)
ResolveSourceFails(s, why) ==
  /\ Change("fail")
  /\ <<s, why>> \in owed
  /\ owed' = owed \ {<<s, why>>}
  /\ stale' = stale \cup BooksTouchedBySource(s)
  /\ deleting' = IF why = "delete" THEN [deleting EXCEPT ![s] = "no"] ELSE deleting
  /\ UNCHANGED <<book, row, owner, source, refused>>

SetSourceEnabled(s, on) ==
  /\ Change("toggle")
  /\ source[s].kind # "gone" /\ source[s].enabled # on
  /\ source' = [source EXCEPT ![s].enabled = on]
  /\ owed' = owed \cup {<<s, "edit">>}
  /\ UNCHANGED <<book, row, owner, deleting, stale, refused>>

(* handleEditSource: here, how early its rows win. *)
EditSource(s, priority) ==
  /\ Change("edit")
  /\ source[s].kind # "gone" /\ source[s].priority # priority
  /\ source' = [source EXCEPT ![s].priority = priority]
  /\ owed' = owed \cup {<<s, "edit">>}
  /\ UNCHANGED <<book, row, owner, deleting, stale, refused>>

(* KeepBooksOf: a library that was not copied yet is copied, as far as it    *)
(* can be; files we have no copy of are gone, the source becomes `kept'.     *)
SourceFiles(t, s) == {r \in Rows : RowSource[r] = s /\ t.row[r].book # 0 /\ ~t.row[r].missing /\ t.row[r].present}
CopySome(s, rs) == [Tables EXCEPT !.row = [r \in Rows |-> IF r \in rs THEN [row[r] EXCEPT !.copy = TRUE] ELSE row[r]]]
Absent(t, s) == {r \in SourceFiles(t, s) : ~t.row[r].copy}

KeepUncopied(s, rs) == \* seeded bug: files that could not be copied stay on the books
  /\ SourceFiles(Tables, s) # Absent(CopySome(s, rs), s)
  /\ Commit(CopySome(s, rs))
  /\ source' = [source EXCEPT ![s].kind = "kept", ![s].own = TRUE]
  /\ owed' = owed \cup {<<s, "edit">>}
  /\ UNCHANGED deleting

Keep(s, rs) ==
  LET t == CopySome(s, rs) IN
  /\ SourceFiles(t, s) # Absent(t, s)
  /\ Commit([t EXCEPT !.row = [r \in Rows |-> IF r \in Absent(t, s) THEN [t.row[r] EXCEPT !.present = FALSE]
                                              ELSE t.row[r]]])
  /\ source' = [source EXCEPT ![s].kind = "kept", ![s].own = TRUE]
  /\ owed' = owed \cup {<<s, "edit">>}
  /\ UNCHANGED deleting

(* handleDeleteSource: keep what can be kept, else turn the library off,     *)
(* re-resolve (ResolveSource) and only then delete it.                       *)
HandleDeleteSource(s, rs) ==
  /\ Change("remove")
  /\ source[s].kind # "gone" /\ deleting[s] = "no"
  /\ rs \subseteq (IF source[s].kind = "calibre" /\ ~source[s].own THEN SourceFiles(Tables, s) ELSE {})
  /\ \/ source[s].kind = "calibre" /\ Keep(s, rs)
     \/ /\ source[s].kind = "calibre" => SourceFiles(Tables, s) = Absent(CopySome(s, rs), s)
        /\ source' = [source EXCEPT ![s].enabled = FALSE]
        /\ owed' = owed \cup {<<s, "delete">>}
        /\ deleting' = [deleting EXCEPT ![s] = "disabled"]
        /\ UNCHANGED <<book, row, owner>>
  /\ UNCHANGED <<stale, refused>>

(* DeleteSource: its rows go with it.  Books its rows were offering because  *)
(* the library was turned on again meanwhile are left as they are.           *)
DeleteSource(s) ==
  LET offered == {row[r].book : r \in {q \in Rows : RowSource[q] = s /\ row[q].book # 0 /\ ~row[q].missing}}
  IN  /\ deleting[s] = "disabled" /\ <<s, "delete">> \notin owed
      /\ deleting' = [deleting EXCEPT ![s] = "no"]
      /\ source' = [source EXCEPT ![s].kind = "gone", ![s].enabled = FALSE]
      /\ row' = [r \in Rows |-> IF RowSource[r] = s THEN Unseen ELSE row[r]]
      /\ stale' = IF source[s].enabled \/ <<s, "edit">> \in owed THEN stale \cup offered ELSE stale
      /\ UNCHANGED <<book, owner, owed, refused, changes>>

(* The process is restarted, whatever was owed; an upgrade also looks once   *)
(* for covers inside the files of uploads and imports, and resolves every    *)
(* book again.                                                               *)
CanBackfill(r) == /\ source[RowSource[r]].kind \notin {"calibre", "gone"}
                  /\ row[r].book # 0 /\ ~row[r].missing /\ ~row[r].cover /\ row[r].present
                  /\ Format[r] \in {"FIXED", "EPUB", "KEPUB"}
Restart ==
  /\ Change("restart")
  /\ stale' = stale \cup UNION {BooksTouchedBySource(o[1]) : o \in owed}
  /\ owed' = {} /\ deleting' = [s \in Sources |-> "no"]
  /\ UNCHANGED <<book, row, owner, source, refused>>
Upgrade(found) ==
  LET t == [Tables EXCEPT !.row = [r \in Rows |-> IF r \in found THEN [row[r] EXCEPT !.cover = TRUE] ELSE row[r]]]
  IN  /\ Change("upgrade")
      /\ Commit(Resolve(t, source, {b \in Books : IsRoot(t, b)}))
      /\ stale' = {} /\ owed' = {} /\ deleting' = [s \in Sources |-> "no"]
      /\ UNCHANGED <<source, refused>>

Next ==
  \/ \E r \in Rows, copied \in BOOLEAN : \E e \in Editions[r] : IngestBook(r, e, copied)
  \/ \E r \in Rows : RemoveUpload(r) \/ \E e \in Editions[r] : FileBook(r, e) \/ Upload(r, e)
  \/ \E r \in Rows, copied \in BOOLEAN : Vanish(r, copied)
  \/ \E r \in Rows : Split(r) \/ Rejoin(r)
  \/ \E b \in Books : SetBookHidden(b) \/ PurgeBook(b)
  \/ \E b \in Books, chosen \in {{}} \cup {{x} : x \in Series}, resolved \in BOOLEAN : SetSeries(b, chosen, resolved)
  \/ \E s \in Sources, why \in {"edit", "delete"} : ResolveSource(s, why) \/ ResolveSourceFails(s, why)
  \/ \E s \in Sources : DeleteSource(s)
  \/ \E s \in Sources, on \in BOOLEAN : SetSourceEnabled(s, on)
  \/ \E s \in Sources, priority \in {50, 100} : EditSource(s, priority)
  \/ \E s \in Sources, rs \in SUBSET Rows : HandleDeleteSource(s, rs)
  \/ Restart
  \/ \E found \in SUBSET {r \in Rows : CanBackfill(r)} : Upgrade(found)

Spec == Init /\ [][Next]_vars

(***************************************************************************)
(* Properties.                                                             *)
(***************************************************************************)
TypeOK ==
  /\ book \in [Books -> [state : {"unused", "known", "purged"}, into : Books \cup {0}, hidden : BOOLEAN,
                         available : BOOLEAN, syncable : BOOLEAN, rev : Nat, override : SUBSET Series,
                         served : [title : {NoEdition.title} \cup {e.title : e \in AllEditions},
                                   series : Series \cup {NoText}, cover : Rows \cup {0}, file : Rows \cup {0}]]]
  /\ \A r \in Rows : /\ row[r].book \in Books \cup {0} /\ row[r].pinned \in Books \cup {0}
                     /\ row[r].book # 0 => book[row[r].book].state = "known" /\ book[row[r].book].into = 0
  /\ owner \in [AllKeys -> Books \cup {0}]
  /\ source \in [Sources -> [kind : {"calibre", "web", "upload", "kept", "gone"}, enabled : BOOLEAN,
                             priority : Nat, own : BOOLEAN]]
  /\ owed \subseteq Sources \X {"edit", "delete"}
  /\ deleting \in [Sources -> {"no", "disabled"}]
  /\ stale \subseteq Books /\ refused \subseteq Books /\ changes \in Nat

(* Every identity key of a row leads to the book the row is attached to      *)
(* (Attach, AddIdentities, MergeBooks, PurgeBook), unless the row was split  *)
(* off: however rows are edited, merged, split, rejoined and purged, the     *)
(* same copy scanned again finds the same book.                              *)
KeysLeadHome ==
  \A r \in Rows : row[r].book # 0 /\ row[r].pinned = 0 =>
    \A k \in KeysOf[row[r].edition] : owner[k] # 0 /\ ResolveBookID(Tables, owner[k]) = row[r].book

(* A copy that was split off shares its book with no copy that was not, and  *)
(* with none split off to another book: no later scan, merge or purge of     *)
(* the other copies brings the two together again (Attach, Split).           *)
SplitApart ==
  \A r, q \in Rows : r # q /\ row[r].pinned # 0 /\ row[q].book # 0 => row[q].book # row[r].book

(* Whenever no handler owes a ResolveSource, every book says what its live   *)
(* rows say: it is offered if and only if one of them has a servable file,   *)
(* and with the metadata, cover and file the ranking picks (Resolve).  Not   *)
(* so the books of `stale': a failed or forgotten re-resolve, a row edited   *)
(* into another book, a library turned on while it is being deleted.         *)
OfferIsCurrent ==
  \A b \in Books \ stale :
    IsRoot(Tables, b) /\ (\A o \in owed : b \notin BooksTouchedBySource(o[1]))
      => Resolved(Tables, source, b) = book[b]

(* A revision is what makes a device fetch a book again, so it moves exactly *)
(* when what a device can observe moves, and never for a book that is only   *)
(* gone, hidden or back (Resolve, apply, servingHash).                       *)
RevisionsAreEarned ==
  [][\A b \in Books : IsRoot(Tables, b) /\ IsRoot(Tables, b)' =>
       /\ book'[b].rev # book[b].rev <=> book'[b].served # book[b].served /\ book[b].served # NotServed
       /\ book'[b].rev # book[b].rev => book'[b].available]_vars

(* What a removed library leaves behind can be delivered: a file still on    *)
(* the books of a kept source is one we hold a copy of (KeepBooksOf).        *)
KeptIsHere ==
  \A r \in Rows : source[RowSource[r]].kind = "kept" /\ row[r].book # 0 /\ ~row[r].missing /\ row[r].present
    => row[r].copy

(* The comment at purge.go:57 takes the ids of earlier merges to go with     *)
(* the book; no purge is refused because of them.                            *)
PurgeIsNeverRefused == refused = {}
=============================================================================
