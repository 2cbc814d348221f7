------------------------------ MODULE Library ------------------------------
(***************************************************************************)
(* The server's library as one SQLite file: the canonical books, the       *)
(* source rows behind them, which sources are on and who may see them,     *)
(* reading positions, collections and per-device tombstones.  One action   *)
(* per transaction (or per autocommitted statement, where the code does    *)
(* not use a transaction).                                                 *)
(***************************************************************************)
EXTENDS Integers, FiniteSets, FiniteSetsExt

CONSTANTS
  Books,      \* canonical book ids; numbers, in the order of their uuids
  Rows,       \* source_books rows
  Sources,
  RowSource,  \* the source a row belongs to
  Users,
  Devices,
  Owner,      \* the user a device belongs to
  Tags,       \* collection ids; numbers, in the order of their uuids
  TagUser,    \* the user a collection belongs to
  Seed,       \* [row |-> book]: what the first scan found
  None,       \* no device, no snapshot: SQL's NULL and the empty string
  Happens,    \* the operations of the world a run exercises
  MaxChanges  \* bound: how many of them a behaviour has

ASSUME LibraryAssumption ==
  /\ Books \subseteq Nat \ {0} /\ IsFiniteSet(Books)
  /\ Tags \subseteq Nat \ {0} /\ IsFiniteSet(Tags)
  /\ RowSource \in [Rows -> Sources]
  /\ Owner \in [Devices -> Users]
  /\ TagUser \in [Tags -> Users]
  /\ DOMAIN Seed \subseteq Rows
  /\ \A r \in DOMAIN Seed : Seed[r] \in Books
  /\ \A r, s \in DOMAIN Seed : Seed[r] = Seed[s] => r = s
  /\ None \notin Devices
  /\ MaxChanges \in Nat

VARIABLES
  book,       \* books
  row,        \* source_books: the canonical book of a row, and `missing'
  enabled,    \* sources.enabled
  sharing,    \* sources.share_all and source_acl
  resolving,  \* sources whose SetSourceEnabled has flipped the flag and not re-resolved yet
  granting,   \* what SetSourceSharing has still to write
  reading,    \* reading_states: revision and last writer, per user and book
  tag,        \* tags
  tombs,      \* device_tombstones
  mayLose,    \* history: the books each device had a reason to lose
  changes     \* how many operations of the world have happened

libVars == <<book, row, enabled, sharing, resolving, granting, reading, tag, tombs, mayLose, changes>>

BookRec == [known : BOOLEAN, into : Books \cup {0}, hidden : BOOLEAN, available : BOOLEAN,
            syncable : BOOLEAN, hashed : BOOLEAN, rev : Nat]
RowRec == [book : Books \cup {0}, missing : BOOLEAN]
SharingRec == [all : BOOLEAN, users : SUBSET Users]
GrantingRec == [clear : BOOLEAN, users : SUBSET Users]
ReadingRec == [rev : Nat, writer : Devices \cup {None}]
TagRec == [live : BOOLEAN, rev : Nat]

NothingToGrant == [clear |-> FALSE, users |-> {}]
NeverRead == [rev |-> 0, writer |-> None]

(* A book is a root when it is no alias of another. *)
IsRoot(b) == book[b].known /\ book[b].into = 0
Roots == {b \in Books : IsRoot(b)}

MaxAliasDepth == 8

(* ResolveBookID: r is what the alias chain of b ends in. *)
ResolvesTo(b, r) ==
  LET chase[n \in 0 .. MaxAliasDepth] ==
        IF n = 0 THEN b
        ELSE IF book[chase[n - 1]].into = 0 THEN chase[n - 1] ELSE book[chase[n - 1]].into
  IN  r = chase[MaxAliasDepth - 1] /\ IsRoot(r)

(* Candidates: the live source rows of book b, with rows rw and sources en. *)
Candidates(rw, en, b) ==
  {r \in Rows : rw[r].book = b /\ ~rw[r].missing /\ en[RowSource[r]]}

(* Resolve and apply: book b recomputed from its candidates.  `changed' says *)
(* whether the serving hash moves; with no candidate left it is frozen.      *)
Resolved(bk, rw, en, b, changed) ==
  IF bk[b].into # 0 THEN bk[b]
  ELSE IF Candidates(rw, en, b) = {}
  THEN [bk[b] EXCEPT !.available = FALSE, !.syncable = FALSE]
  ELSE [bk[b] EXCEPT !.available = TRUE, !.syncable = ~bk[b].hidden, !.hashed = TRUE,
                     !.rev = IF changed /\ bk[b].hashed THEN bk[b].rev + 1 ELSE bk[b].rev]

(* The books a user may be offered: the EXISTS of CreateSyncPoint. *)
Visible(u, b) ==
  \E r \in Candidates(row, enabled, b) :
    sharing[RowSource[r]].all \/ u \in sharing[RowSource[r]].users

SyncableRoots == {b \in Roots : book[b].syncable}

GenerationOfCounts(u, d) == \* seeded bug: edits do not move the fingerprint
  << Cardinality(SyncableRoots), Cardinality({b \in Books : reading[u][b].rev > 0}),
     Cardinality({t \in Tags : TagUser[t] = u /\ tag[t].rev > 0}), Cardinality(tombs[d]),
     Cardinality({s \in Sources : enabled[s]}),
     Cardinality({s \in Sources : sharing[s].all}) >>

(* LibraryGeneration: counts and revision sums, one per table. *)
LibraryGeneration(u, d) ==
  LET mine == {t \in Tags : TagUser[t] = u /\ tag[t].rev > 0}
      read == {b \in Books : reading[u][b].rev > 0}
  IN  << Cardinality(SyncableRoots), MapThenSumSet(LAMBDA b : book[b].rev, SyncableRoots),
         Cardinality(read),          MapThenSumSet(LAMBDA b : reading[u][b].rev, read),
         Cardinality(mine),          MapThenSumSet(LAMBDA t : tag[t].rev, mine),
         Cardinality(tombs[d]),
         Cardinality({s \in Sources : enabled[s]}),
         MapThenSumSet(LAMBDA s : Cardinality(sharing[s].users), Sources)
           + Cardinality({s \in Sources : sharing[s].all}) >>

LibraryInit ==
  LET seeded == {Seed[r] : r \in DOMAIN Seed} IN
  /\ book = [b \in Books |-> [known |-> b \in seeded, into |-> 0, hidden |-> FALSE,
                              available |-> b \in seeded, syncable |-> b \in seeded,
                              hashed |-> b \in seeded, rev |-> IF b \in seeded THEN 1 ELSE 0]]
  /\ row = [r \in Rows |-> [book |-> IF r \in DOMAIN Seed THEN Seed[r] ELSE 0, missing |-> FALSE]]
  /\ enabled = [s \in Sources |-> TRUE]
  /\ sharing = [s \in Sources |-> [all |-> TRUE, users |-> {}]]
  /\ resolving = {}
  /\ granting = [s \in Sources |-> NothingToGrant]
  /\ reading = [u \in Users |-> [b \in Books |-> NeverRead]]
  /\ tag = [t \in Tags |-> [live |-> FALSE, rev |-> 0]]
  /\ tombs = [d \in Devices |-> {}]
  /\ mayLose = [d \in Devices |-> {}]
  /\ changes = 0

(* One more operation of the world, of a kind this run exercises. *)
Change(kind) ==
  /\ kind \in Happens
  /\ changes < MaxChanges
  /\ changes' = changes + 1

(***************************************************************************)
(* A scan's transaction over one row that is new, edited or back: upsert,  *)
(* Attach and, after every row is in place, Resolve.  `matches' are the    *)
(* books its identity keys lead to; a row of a Calibre library keeps its   *)
(* uuid among them, so they include the book it is already attached to.   *)
(* Bound: a row bridges at most two books.                                 *)
(***************************************************************************)
Matches(r) ==
  {m \in SUBSET Roots : /\ Cardinality(m) <= 2
                        /\ row[r].book # 0 => \E b \in m : ResolvesTo(row[r].book, b)}

(* MergeBooks over reading_states: the larger revision stays, on the survivor. *)
ReadingAfterMerge(b, losers) ==
  [u \in Users |-> [c \in Books |->
     IF c \in losers THEN NeverRead
     ELSE IF c = b /\ \E l \in losers : reading[u][l].rev > reading[u][b].rev
     THEN reading[u][CHOOSE l \in losers : reading[u][l].rev > reading[u][b].rev]
     ELSE reading[u][c]]]

(* MergeBooks over device_tombstones: whoever deleted a loser deleted the survivor. *)
TombsAfterMerge(b, losers) ==
  [d \in Devices |-> IF tombs[d] \cap losers = {} THEN tombs[d]
                     ELSE (tombs[d] \ losers) \cup {b}]

(* The source rows once row r is attached to book b, and the books once the *)
(* losers are aliases of b, which is new if no book matched.                *)
RowsAfterAttach(r, b, losers) ==
  [q \in Rows |-> IF q = r THEN [book |-> b, missing |-> FALSE]
                  ELSE IF row[q].book \in losers THEN [book |-> b, missing |-> row[q].missing]
                  ELSE row[q]]
BooksAfterMerge(b, losers, new) ==
  [c \in Books |->
     IF c \in losers THEN [book[c] EXCEPT !.into = b, !.available = FALSE, !.syncable = FALSE]
     ELSE IF c = b /\ new THEN [book[c] EXCEPT !.known = TRUE, !.rev = 1]
     ELSE book[c]]

AttachRow(r, m, b, changed) ==
  LET losers == m \ {b}
      merged == BooksAfterMerge(b, losers, m = {})
  IN  /\ IF m = {} THEN ~book[b].known ELSE b \in m
      /\ "merge" \in Happens \/ losers = {}
      /\ row' = RowsAfterAttach(r, b, losers)
      /\ book' = [merged EXCEPT ![b] = Resolved(merged, row', enabled, b, changed)]
      /\ reading' = ReadingAfterMerge(b, losers)
      /\ tombs' = TombsAfterMerge(b, losers)
      /\ mayLose' = [d \in Devices |-> mayLose[d] \cup losers
                       \cup (IF tombs[d] \cap losers = {} THEN {} ELSE {b})]

Ingest(r) ==
  /\ Change("ingest")
  /\ \E m \in Matches(r), b \in Books, changed \in BOOLEAN : AttachRow(r, m, b, changed)
  /\ UNCHANGED <<enabled, sharing, resolving, granting, tag>>

(* A scan that no longer finds a row: MarkSourceBooksMissing, then Resolve. *)
Vanish(r) ==
  /\ Change("vanish")
  /\ row[r].book # 0 /\ ~row[r].missing
  /\ row' = [row EXCEPT ![r].missing = TRUE]
  /\ \E b \in Books, changed \in BOOLEAN :
       /\ ResolvesTo(row[r].book, b)
       /\ book' = [book EXCEPT ![b] = Resolved(book, row', enabled, b, changed)]
  /\ UNCHANGED <<enabled, sharing, resolving, granting, reading, tag, tombs, mayLose>>

(* The admin's "do not offer" flag. *)
SetBookHidden(b) ==
  /\ Change(IF book[b].hidden THEN "unhide" ELSE "hide")
  /\ IsRoot(b)
  /\ book' = [book EXCEPT ![b].hidden = ~book[b].hidden,
                          ![b].syncable = book[b].available /\ book[b].hidden /\ book[b].hashed]
  /\ mayLose' = [d \in Devices |-> IF book[b].hidden THEN mayLose[d] ELSE mayLose[d] \cup {b}]
  /\ UNCHANGED <<row, enabled, sharing, resolving, granting, reading, tag, tombs>>

(* SetSourceEnabled, first half: the flag. *)
SetSourceEnabled(s) ==
  /\ Change("toggle")
  /\ s \notin resolving
  /\ enabled' = [enabled EXCEPT ![s] = ~enabled[s]]
  /\ resolving' = resolving \cup {s}
  /\ UNCHANGED <<book, row, sharing, granting, reading, tag, tombs, mayLose>>

(* SetSourceEnabled, second half: one transaction over every book it touches. *)
BooksTouchedBySource(s) ==
  {b \in Roots : \E r \in Rows : /\ RowSource[r] = s /\ row[r].book # 0
                                /\ ResolvesTo(row[r].book, b)}
ResolveSource(s) ==
  /\ s \in resolving
  /\ resolving' = resolving \ {s}
  /\ \E changed \in SUBSET BooksTouchedBySource(s) :
       book' = [b \in Books |-> IF b \in BooksTouchedBySource(s)
                                THEN Resolved(book, row, enabled, b, b \in changed)
                                ELSE book[b]]
  /\ UNCHANGED <<row, enabled, sharing, granting, reading, tag, tombs, mayLose, changes>>

(* SetSourceSharing writes share_all, clears the list, then adds one person  *)
(* at a time, each on its own.  Restricting to nobody means sharing with all.*)
SetSourceSharing(s, all, users) ==
  /\ Change("share")
  /\ granting[s] = NothingToGrant
  /\ LET everyone == all \/ users = {} IN
       /\ sharing' = [sharing EXCEPT ![s].all = everyone]
       /\ granting' = [granting EXCEPT ![s] = [clear |-> TRUE,
                                               users |-> IF everyone THEN {} ELSE users]]
  /\ UNCHANGED <<book, row, enabled, resolving, reading, tag, tombs, mayLose>>

ClearSourceACL(s) ==
  /\ granting[s].clear
  /\ granting' = [granting EXCEPT ![s].clear = FALSE]
  /\ sharing' = [sharing EXCEPT ![s].users = {}]
  /\ UNCHANGED <<book, row, enabled, resolving, reading, tag, tombs, mayLose, changes>>

GrantSource(s, u) ==
  /\ ~granting[s].clear /\ u \in granting[s].users
  /\ granting' = [granting EXCEPT ![s].users = @ \ {u}]
  /\ sharing' = [sharing EXCEPT ![s].users = @ \cup {u}]
  /\ UNCHANGED <<book, row, enabled, resolving, reading, tag, tombs, mayLose, changes>>

(* CreateTag makes a collection, or revives the deleted one of that name. *)
CreateTag(t) ==
  /\ Change("tag")
  /\ tag' = [tag EXCEPT ![t] = [live |-> TRUE, rev |-> tag[t].rev + 1]]
  /\ UNCHANGED <<book, row, enabled, sharing, resolving, granting, reading, tombs, mayLose>>

(* RenameTag, AddTagItems, RemoveTagItems: whatever they write, rev + 1. *)
TouchTag(t) ==
  /\ Change("tag")
  /\ tag[t].live
  /\ tag' = [tag EXCEPT ![t].rev = tag[t].rev + 1]
  /\ UNCHANGED <<book, row, enabled, sharing, resolving, granting, reading, tombs, mayLose>>

DeleteTag(t) ==
  /\ Change("tag")
  /\ tag[t].live
  /\ tag' = [tag EXCEPT ![t] = [live |-> FALSE, rev |-> tag[t].rev + 1]]
  /\ UNCHANGED <<book, row, enabled, sharing, resolving, granting, reading, tombs, mayLose>>

(* handleDeleteBook: device d deleted book b on itself. *)
AddTombstone(d, b) ==
  /\ Change("delete")
  /\ \E r \in Books :
       /\ ResolvesTo(b, r)
       /\ tombs' = [tombs EXCEPT ![d] = @ \cup {r}]
       /\ mayLose' = [mayLose EXCEPT ![d] = @ \cup {b, r}]
  /\ UNCHANGED <<book, row, enabled, sharing, resolving, granting, reading, tag>>

(* handleForgetTombstone: undo an accidental deletion. *)
RemoveTombstone(d, b) ==
  /\ Change("forget")
  /\ b \in tombs[d]
  /\ tombs' = [tombs EXCEPT ![d] = @ \ {b}]
  /\ UNCHANGED <<book, row, enabled, sharing, resolving, granting, reading, tag, mayLose>>

SaveReadingStateOfOwner(d, r) == \* seeded bug: records the user as the last writer
  /\ Change("read")
  /\ reading' = [reading EXCEPT ![Owner[d]][r] = [rev |-> @.rev + 1, writer |-> Owner[d]]]
  /\ UNCHANGED <<book, row, enabled, sharing, resolving, granting, tag, tombs, mayLose>>

(* saveReadingState, as far as a sync can tell: a new revision and its writer. *)
SaveReadingState(d, r) ==
  /\ Change("read")
  /\ reading' = [reading EXCEPT ![Owner[d]][r] = [rev |-> @.rev + 1, writer |-> d]]
  /\ UNCHANGED <<book, row, enabled, sharing, resolving, granting, tag, tombs, mayLose>>

(* The operations no device takes part in. *)
LibraryStep ==
  \/ \E r \in Rows : Ingest(r) \/ Vanish(r)
  \/ \E b \in Books : SetBookHidden(b)
  \/ \E s \in Sources : SetSourceEnabled(s) \/ ResolveSource(s) \/ ClearSourceACL(s)
  \/ \E s \in Sources, all \in BOOLEAN, users \in SUBSET Users : SetSourceSharing(s, all, users)
  \/ \E s \in Sources, u \in Users : GrantSource(s, u)
  \/ \E t \in Tags : CreateTag(t) \/ TouchTag(t) \/ DeleteTag(t)

LibraryTypeOK ==
  /\ book \in [Books -> BookRec]
  /\ row \in [Rows -> RowRec]
  /\ enabled \in [Sources -> BOOLEAN]
  /\ sharing \in [Sources -> SharingRec]
  /\ resolving \subseteq Sources
  /\ granting \in [Sources -> GrantingRec]
  /\ reading \in [Users -> [Books -> ReadingRec]]
  /\ tag \in [Tags -> TagRec]
  /\ tombs \in [Devices -> SUBSET Books]
  /\ mayLose \in [Devices -> SUBSET Books]
  /\ changes \in Nat
=============================================================================
