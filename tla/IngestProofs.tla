---------------------------- MODULE IngestProofs ----------------------------
(***************************************************************************)
(* Keys lead home, copies split off stay apart, and every book says what    *)
(* its live rows say, for any books, rows, keys, libraries and editions.    *)
(*                                                                         *)
(* The invariant is about the tables of one transaction: what a key or a    *)
(* row names is never an alias, so no lookup depends on the alias chains;   *)
(* and a book split off for one copy is led to by no key, so no merge       *)
(* reaches it.                                                             *)
(***************************************************************************)
EXTENDS Ingest, WellFoundedInduction, TLAPS

StoredEditions == {NoEdition} \cup {Stored(e) : e \in AllEditions}
Titles == {NoEdition.title} \cup {e.title : e \in AllEditions}
Servings == [title : Titles, series : Series \cup {NoText}, cover : Rows \cup {0}, file : Rows \cup {0}]
BookRecords == [state : {"unused", "known", "purged"}, into : Books \cup {0}, hidden : BOOLEAN,
                available : BOOLEAN, syncable : BOOLEAN, served : Servings, rev : Nat,
                override : SUBSET Series]
RowRecords == [book : Books \cup {0}, pinned : Books \cup {0}, missing : BOOLEAN,
               edition : StoredEditions, present : BOOLEAN, cover : BOOLEAN, copy : BOOLEAN]
SourceRecords == [kind : {"calibre", "web", "upload", "kept", "gone"}, enabled : BOOLEAN,
                  priority : Nat, own : BOOLEAN]
TableTypes == [book : [Books -> BookRecords], row : [Rows -> RowRecords],
               owner : [AllKeys -> Books \cup {0}]]

(* Nothing leads to an alias: MergeBooks moves all that led to the loser.    *)
Leads(t) ==
  /\ \A k \in AllKeys : t.owner[k] # 0 => IsRoot(t, t.owner[k])
  /\ \A r \in Rows : t.row[r].book # 0 => IsRoot(t, t.row[r].book)

(* A book split off for one copy is its own and no key's.                   *)
Pins(t) ==
  \A r \in Rows : t.row[r].pinned # 0 =>
    /\ t.row[r].book = t.row[r].pinned
    /\ \A k \in AllKeys : t.owner[k] # t.row[r].pinned
    /\ \A q \in Rows \ {r} : t.row[q].book # t.row[r].pinned

AtHome(t, r) ==
  t.row[r].book # 0 /\ t.row[r].pinned = 0 =>
    \A k \in KeysOf[t.row[r].edition] : t.owner[k] = t.row[r].book

Sound(t) == t \in TableTypes /\ Leads(t) /\ Pins(t) /\ \A r \in Rows : AtHome(t, r)

Kept(t, src) ==
  \A r \in Rows : src[RowSource[r]].kind = "kept" /\ t.row[r].book # 0 /\ ~t.row[r].missing /\ t.row[r].present
    => t.row[r].copy

(* What Resolve would leave of a book is what the book is: unless its copies *)
(* changed and nobody looks, or a library of a live copy of it is still to   *)
(* be resolved.  OfferIsCurrent excuses the libraries of missing copies too, *)
(* and then DeleteSource, which forgets those copies, would not preserve it. *)
Settled(t, src, b) == Resolved(t, src, b) = t.book[b]
Free(t, owe, b) ==
  \A r \in Rows : t.row[r].book = b /\ ~t.row[r].missing => \A o \in owe : o[1] # RowSource[r]
Current(t, src, owe, st) == \A b \in Books \ st : IsRoot(t, b) /\ Free(t, owe, b) => Settled(t, src, b)

Good(t, src, owe, st) ==
  /\ Sound(t) /\ src \in [Sources -> SourceRecords] /\ st \in SUBSET Books
  /\ Kept(t, src) /\ Current(t, src, owe, st)

Rest == /\ owed \subseteq Sources \X {"edit", "delete"}
        /\ deleting \in [Sources -> {"no", "disabled"}]
        /\ refused \subseteq Books /\ changes \in Nat

Inv == Good(Tables, source, owed, stale) /\ Rest
-----------------------------------------------------------------------------
(* Least elements, keys and records. *)

LEMMA LeastOf ==
  ASSUME NEW S \in SUBSET Nat, S # {}
  PROVE  \E m \in S : \A y \in S : m <= y
<1>1. PICK m \in S : \A y \in S : ~(<<y, m>> \in OpToRel(<, Nat))
  BY NatLessThanWellFounded, WFMin, Zenon
<1>2. ASSUME NEW y \in S PROVE m <= y
  <2>1. ~(<<y, m>> \in OpToRel(<, Nat))
    BY <1>1
  <2>2. y \in Nat /\ m \in Nat
    OBVIOUS
  <2>3. ~(y < m)
    BY <2>1, <2>2 DEF OpToRel
  <2> QED BY <2>2, <2>3
<1> QED BY <1>2

LEMMA MinOf ==
  ASSUME NEW S \in SUBSET Nat, S # {}
  PROVE  Min(S) \in S /\ \A y \in S : Min(S) <= y
<1>1. PICK m \in S : \A y \in S : m <= y
  BY LeastOf
<1> QED BY <1>1 DEF Min

LEMMA Numbers ==
  /\ Books \subseteq Nat /\ Rows \subseteq Nat /\ 0 \notin Books /\ 0 \notin Rows
  /\ \A r \in Rows : RowSource[r] \in Sources
BY IngestAssumption

(* A row is stored without its link, and its other keys are what they were.  *)
LEMMA StoredKeys ==
  ASSUME NEW r \in Rows, NEW e \in Editions[r]
  PROVE  /\ Stored(e) \in StoredEditions /\ KeysOf[Stored(e)] \subseteq KeysOf[e]
         /\ KeysOf[e] \subseteq AllKeys /\ Stored(e).title = e.title
         /\ e.cover \in BOOLEAN /\ e.present \in BOOLEAN
<1>1. e \in AllEditions
  BY DEF AllEditions
<1>2. /\ e = [uuid |-> e.uuid, isbn |-> e.isbn, title |-> e.title, authors |-> e.authors,
              link |-> e.link, cover |-> e.cover, present |-> e.present]
      /\ e.cover \in BOOLEAN /\ e.present \in BOOLEAN
  BY IngestAssumption
<1>3. /\ Stored(e).uuid = e.uuid /\ Stored(e).isbn = e.isbn /\ Stored(e).title = e.title
      /\ Stored(e).authors = e.authors /\ Stored(e).link = NoText
  BY <1>2 DEF Stored
<1>4. Keys(Stored(e)) \subseteq Keys(e)
  BY <1>3, Zenon DEF Keys
<1>5. KeysOf[e] = Keys(e) /\ KeysOf[Stored(e)] = Keys(Stored(e))
  BY <1>1 DEF KeysOf
<1>6. KeysOf[e] \subseteq AllKeys
  BY <1>1 DEF AllKeys
<1> QED BY <1>1, <1>2, <1>3, <1>4, <1>5, <1>6 DEF StoredEditions

LEMMA TitlesKnown ==
  ASSUME NEW e \in StoredEditions
  PROVE  e.title \in Titles
<1>1. CASE e = NoEdition
  BY <1>1 DEF Titles
<1>2. ASSUME NEW x \in AllEditions, e = Stored(x) PROVE e.title \in Titles
  <2>1. PICK r \in Rows : x \in Editions[r]
    BY DEF AllEditions
  <2> QED BY <1>2, <2>1, StoredKeys DEF Titles
<1> QED BY <1>1, <1>2 DEF StoredEditions

LEMMA NoKeys == KeysOf[NoEdition] = {}
<1>1. KeysOf[NoEdition] = Keys(NoEdition)
  BY DEF KeysOf
<1>2. /\ NoEdition.uuid = NoText /\ NoEdition.isbn = <<>> /\ NoEdition.link = NoText
      /\ NoEdition.title = [words |-> <<>>, aside |-> FALSE] /\ Len(<<>>) = 0
  BY DEF NoEdition
<1>3. NormalizeISBN(NoEdition.isbn) = <<>>
  BY <1>2 DEF NormalizeISBN
<1>4. NormalizeTitle(NoEdition.title) = <<>>
  BY <1>2 DEF NormalizeTitle
<1> QED BY <1>1, <1>2, <1>3, <1>4, Zenon DEF Keys

LEMMA KeysKnown ==
  ASSUME NEW e \in StoredEditions
  PROVE  KeysOf[e] \subseteq AllKeys
<1>1. CASE e = NoEdition
  BY <1>1, NoKeys
<1>2. ASSUME NEW x \in AllEditions, e = Stored(x) PROVE KeysOf[e] \subseteq AllKeys
  <2>1. PICK r \in Rows : x \in Editions[r]
    BY DEF AllEditions
  <2> QED BY <1>2, <2>1, StoredKeys
<1> QED BY <1>1, <1>2 DEF StoredEditions

LEMMA Blank ==
  /\ NoBook \in BookRecords /\ NoBook.into = 0 /\ NoBook.state = "unused" /\ NotServed \in Servings
  /\ Unseen \in RowRecords /\ Unseen.book = 0 /\ Unseen.pinned = 0 /\ ~Unseen.present
<1>1. NotServed \in Servings
  BY DEF NotServed, Servings, Titles
<1>2. NoBook \in BookRecords /\ NoBook.into = 0 /\ NoBook.state = "unused"
  BY <1>1 DEF NoBook, BookRecords
<1>3. /\ Unseen \in RowRecords /\ Unseen.book = 0 /\ Unseen.pinned = 0 /\ ~Unseen.present
  BY DEF Unseen, RowRecords, StoredEditions
<1> QED BY <1>1, <1>2, <1>3
-----------------------------------------------------------------------------
(* Alias chains. *)

LEMMA RootIsItself ==
  ASSUME NEW t, NEW b, t.book[b].into = 0
  PROVE  ResolveBookID(t, b) = b
BY DEF ResolveBookID

(* The loser of a merge leads to the survivor in one step, and stays there.  *)
LEMMA LoserLeadsHome ==
  ASSUME NEW t, NEW c, NEW b, t.book[c].into = b, b # 0, t.book[b].into = 0
  PROVE  ResolveBookID(t, c) = b
<1> DEFINE F(f) == [n \in 0 .. 8 |->
                      IF n = 0 THEN c
                      ELSE IF t.book[f[n - 1]].into = 0 THEN f[n - 1] ELSE t.book[f[n - 1]].into]
           g == [n \in 0 .. 8 |-> IF n = 0 THEN c ELSE b]
           chase == CHOOSE f : f = F(f)
<1>1. ResolveBookID(t, c) = chase[7]
  BY DEF ResolveBookID, MaxAliasDepth
<1>2. g = F(g)
  OBVIOUS
<1>3. chase = F(chase)
  <2> HIDE DEF F, g
  <2> QED BY <1>2
<1> HIDE DEF chase
<1>4. chase[0] = c
  BY <1>3
<1>5. \A n \in 1 .. 8 : chase[n] = IF t.book[chase[n - 1]].into = 0 THEN chase[n - 1]
                                   ELSE t.book[chase[n - 1]].into
  <2>1. \A n \in 0 .. 8 : F(chase)[n] = IF n = 0 THEN c
                      ELSE IF t.book[chase[n - 1]].into = 0 THEN chase[n - 1] ELSE t.book[chase[n - 1]].into
    OBVIOUS
  <2> HIDE DEF F
  <2> QED BY <1>3, <2>1
<1>6. chase[1] = b
  BY <1>4, <1>5
<1>7. chase[2] = b
  BY <1>5, <1>6
<1>8. chase[3] = b
  BY <1>5, <1>7
<1>9. chase[4] = b
  BY <1>5, <1>8
<1>10. chase[5] = b
  BY <1>5, <1>9
<1>11. chase[6] = b
  BY <1>5, <1>10
<1>12. chase[7] = b
  BY <1>5, <1>11
<1> QED BY <1>1, <1>12
-----------------------------------------------------------------------------
(* Attach, on the tables of one transaction. *)

LEMMA TableFields ==
  ASSUME NEW t \in TableTypes
  PROVE  /\ t.book \in [Books -> BookRecords] /\ t.row \in [Rows -> RowRecords]
         /\ t.owner \in [AllKeys -> Books \cup {0}]
         /\ \A b \in Books : /\ t.book[b] \in BookRecords /\ t.book[b].into \in Books \cup {0}
                             /\ t.book[b].served \in Servings /\ t.book[b].rev \in Nat
         /\ \A r \in Rows : /\ t.row[r] \in RowRecords /\ t.row[r].book \in Books \cup {0}
                            /\ t.row[r].pinned \in Books \cup {0} /\ t.row[r].edition \in StoredEditions
         /\ \A k \in AllKeys : t.owner[k] \in Books \cup {0}
BY DEF TableTypes, BookRecords, RowRecords

LEMMA RootsResolve ==
  ASSUME NEW t, Leads(t)
  PROVE  /\ \A k \in AllKeys : t.owner[k] # 0 => ResolveBookID(t, t.owner[k]) = t.owner[k]
         /\ \A r \in Rows : t.row[r].book # 0 => ResolveBookID(t, t.row[r].book) = t.row[r].book
BY RootIsItself DEF Leads, IsRoot

(* What a survivor of a merge, or a new book, is when the key's rows are put to it. *)
Ready(t, home, b) ==
  /\ home \in TableTypes /\ Leads(home) /\ Pins(home)
  /\ b \in Books /\ IsRoot(home, b)
  /\ \A r \in Rows : home.row[r].pinned # b
  /\ \A r \in Rows : \/ home.row[r] = t.row[r]
                     \/ /\ home.row[r] = [t.row[r] EXCEPT !.book = b]
                        /\ t.row[r].book # 0 /\ ~IsRoot(home, t.row[r].book)
  /\ \A c \in Books \ {b} : IsRoot(home, c) => home.book[c] = t.book[c]
  /\ \A c \in Books \ {b} : IsRoot(t, c) /\ ~IsRoot(home, c) => home.book[c].into = b
  /\ \A r \in Rows : AtHome(t, r) => AtHome(home, r)

LEMMA MergeFits ==
  ASSUME NEW t \in TableTypes, Leads(t), Pins(t), NEW b \in Books, IsRoot(t, b),
         NEW losers \in SUBSET (Books \ {b}), \A c \in losers : IsRoot(t, c),
         \A r \in Rows : t.row[r].pinned \notin losers \cup {b}
  PROVE  /\ Ready(t, MergeBooks(t, b, losers), b)
         /\ \A k \in AllKeys : MergeBooks(t, b, losers).owner[k] = IF t.owner[k] \in losers THEN b ELSE t.owner[k]
         /\ LET x == t.book[b]  y == MergeBooks(t, b, losers).book[b]
            IN  y = x \/ y = [x EXCEPT !.override = y.override]
<1> DEFINE u == MergeBooks(t, b, losers)
           chosen == {c \in losers : t.book[c].override # {}}
<1>1. /\ t.book \in [Books -> BookRecords] /\ t.row \in [Rows -> RowRecords]
      /\ t.owner \in [AllKeys -> Books \cup {0}] /\ 0 \notin Books /\ 0 \notin losers
  BY TableFields, Numbers
<1>2. u.book = [c \in Books |->
                     IF c \in losers
                     THEN [t.book[c] EXCEPT !.into = b, !.available = FALSE, !.syncable = FALSE, !.override = {}]
                     ELSE IF c = b /\ t.book[b].override = {} /\ chosen # {}
                     THEN [t.book[b] EXCEPT !.override = t.book[Min(chosen)].override]
                     ELSE t.book[c]]
  BY DEF MergeBooks
<1>0. /\ u.row = [r \in Rows |-> IF t.row[r].book \in losers THEN [t.row[r] EXCEPT !.book = b] ELSE t.row[r]]
      /\ u.owner = [k \in AllKeys |-> IF t.owner[k] \in losers THEN b ELSE t.owner[k]]
      /\ u = [book |-> u.book, row |-> u.row, owner |-> u.owner]
  BY DEF MergeBooks
<1> HIDE DEF u
<1>3. /\ \A k \in AllKeys : u.owner[k] = IF t.owner[k] \in losers THEN b ELSE t.owner[k]
      /\ u.owner \in [AllKeys -> Books \cup {0}]
  BY <1>1, <1>0
<1>4. /\ \A r \in Rows : u.row[r] = IF t.row[r].book \in losers THEN [t.row[r] EXCEPT !.book = b] ELSE t.row[r]
      /\ u.row \in [Rows -> RowRecords]
      /\ \A r \in Rows : /\ u.row[r].pinned = t.row[r].pinned /\ u.row[r].edition = t.row[r].edition
                         /\ u.row[r].book = IF t.row[r].book \in losers THEN b ELSE t.row[r].book
  BY <1>1, <1>0 DEF RowRecords
<1>5. chosen # {} => t.book[Min(chosen)].override \in SUBSET Series
  <2>1. chosen \in SUBSET Nat /\ chosen \subseteq Books
    BY Numbers
  <2>2. chosen # {} => Min(chosen) \in Books
    <3> HIDE DEF chosen
    <3> QED BY <2>1, MinOf
  <2> HIDE DEF chosen
  <2> QED BY <1>1, <2>2 DEF BookRecords
<1>6. /\ \A c \in losers : u.book[c] \in BookRecords /\ u.book[c].into = b
      /\ u.book[b] \in BookRecords /\ u.book[b].into = t.book[b].into /\ u.book[b].state = t.book[b].state
      /\ u.book[b] = t.book[b] \/ u.book[b] = [t.book[b] EXCEPT !.override = u.book[b].override]
      /\ \A c \in Books \ (losers \cup {b}) : u.book[c] = t.book[c]
      /\ u.book \in [Books -> BookRecords]
  <2>1. ASSUME NEW c \in losers PROVE u.book[c] \in BookRecords /\ u.book[c].into = b
    <3>1. u.book[c] = [t.book[c] EXCEPT !.into = b, !.available = FALSE, !.syncable = FALSE, !.override = {}]
      BY <1>2
    <3>2. t.book[c] \in BookRecords
      BY <1>1
    <3> QED BY <3>1, <3>2 DEF BookRecords
  <2>2. /\ u.book[b] \in BookRecords /\ u.book[b].into = t.book[b].into /\ u.book[b].state = t.book[b].state
        /\ u.book[b] = t.book[b] \/ u.book[b] = [t.book[b] EXCEPT !.override = u.book[b].override]
    <3>1. t.book[b] \in BookRecords
      BY <1>1
    <3>2. CASE t.book[b].override = {} /\ chosen # {}
      <4>1. u.book[b] = [t.book[b] EXCEPT !.override = t.book[Min(chosen)].override]
        BY <1>2, <3>2
      <4> QED BY <1>5, <3>1, <3>2, <4>1 DEF BookRecords
    <3>3. CASE ~(t.book[b].override = {} /\ chosen # {})
      <4>1. u.book[b] = t.book[b]
        BY <1>2, <3>3
      <4> QED BY <3>1, <4>1
    <3> QED BY <3>2, <3>3
  <2>3. \A c \in Books \ (losers \cup {b}) : u.book[c] = t.book[c]
    BY <1>2
  <2>4. u.book = [c \in Books |-> u.book[c]] /\ \A c \in Books : u.book[c] \in BookRecords
    BY <1>1, <1>2, <2>1, <2>2, <2>3
  <2> QED BY <2>1, <2>2, <2>3, <2>4
<1>7. /\ IsRoot(u, b) /\ \A c \in losers : ~IsRoot(u, c)
      /\ \A c \in Books : IsRoot(t, c) /\ c \notin losers => IsRoot(u, c)
      /\ \A c \in Books \ {b} : IsRoot(u, c) => c \notin losers
  BY <1>1, <1>6 DEF IsRoot
<1>8. u \in TableTypes
  BY <1>0, <1>3, <1>4, <1>6 DEF TableTypes
<1>9. Leads(u)
  <2>1. \A k \in AllKeys : u.owner[k] # 0 => IsRoot(u, u.owner[k])
    BY <1>1, <1>3, <1>7 DEF Leads
  <2>2. \A r \in Rows : u.row[r].book # 0 => IsRoot(u, u.row[r].book)
    <3> TAKE r \in Rows
    <3>1. t.row[r].book \in Books \cup {0}
      BY TableFields
    <3> QED BY <1>1, <1>4, <1>7, <3>1 DEF Leads
  <2> QED BY <2>1, <2>2 DEF Leads
<1>10. Pins(u)
  BY <1>3, <1>4 DEF Pins
<1>11. ASSUME NEW r \in Rows
       PROVE  \/ u.row[r] = t.row[r]
              \/ /\ u.row[r] = [t.row[r] EXCEPT !.book = b]
                 /\ t.row[r].book # 0 /\ ~IsRoot(u, t.row[r].book)
  BY <1>1, <1>4, <1>7
<1>12. ASSUME NEW r \in Rows, AtHome(t, r) PROVE AtHome(u, r)
  <2>1. KeysOf[t.row[r].edition] \subseteq AllKeys
    BY TableFields, KeysKnown
  <2> QED BY <1>1, <1>3, <1>4, <1>12, <2>1 DEF AtHome
<1>13. \A r \in Rows : u.row[r].pinned # b
  BY <1>4
<1> QED BY <1>3, <1>6, <1>7, <1>8, <1>9, <1>10, <1>11, <1>12, <1>13 DEF Ready, u

LEMMA CreateFits ==
  ASSUME NEW t \in TableTypes, Leads(t), Pins(t), NEW b \in Books, t.book[b].state = "unused"
  PROVE  /\ Ready(t, CreateBook(t, b), b) /\ CreateBook(t, b).owner = t.owner
         /\ CreateBook(t, b).book = [t.book EXCEPT ![b] = [NoBook EXCEPT !.state = "known", !.rev = 1]]
         /\ CreateBook(t, b).row = t.row
<1> DEFINE new == [NoBook EXCEPT !.state = "known", !.rev = 1]
           u == CreateBook(t, b)
<1>1. /\ t.book \in [Books -> BookRecords] /\ t.row \in [Rows -> RowRecords] /\ t.owner \in [AllKeys -> Books \cup {0}]
      /\ t = [book |-> t.book, row |-> t.row, owner |-> t.owner]
  BY TableFields DEF TableTypes
<1>2. new \in BookRecords /\ new.into = 0 /\ new.state = "known"
  BY Blank DEF BookRecords
<1>3. u = [t EXCEPT !.book = [t.book EXCEPT ![b] = new]]
  BY DEF CreateBook
<1> HIDE DEF new, u
<1>4. u.book = [t.book EXCEPT ![b] = new] /\ u.row = t.row /\ u.owner = t.owner /\ u \in TableTypes
  <2>1. [t.book EXCEPT ![b] = new] \in [Books -> BookRecords]
    BY <1>1, <1>2
  <2> QED BY <1>1, <1>3, <2>1 DEF TableTypes
<1>5. /\ u.book[b] = new /\ \A c \in Books \ {b} : u.book[c] = t.book[c]
      /\ IsRoot(u, b) /\ ~IsRoot(t, b) /\ \A c \in Books \ {b} : IsRoot(u, c) <=> IsRoot(t, c)
  BY <1>1, <1>2, <1>4 DEF IsRoot
<1>6. \A c \in Books : IsRoot(t, c) => IsRoot(u, c)
  BY <1>5
<1>7. Leads(u)
  <2>1. \A k \in AllKeys : t.owner[k] \in Books \cup {0}
    BY TableFields
  <2>2. \A r \in Rows : t.row[r].book \in Books \cup {0}
    BY TableFields
  <2> QED BY <1>4, <1>6, <2>1, <2>2 DEF Leads
<1>8. Pins(u) /\ \A r \in Rows : AtHome(t, r) => AtHome(u, r)
  BY <1>4 DEF Pins, AtHome
<1>9. ASSUME NEW r \in Rows PROVE u.row[r].pinned # b
  <2>1. CASE t.row[r].pinned # 0
    <3>1. IsRoot(t, t.row[r].pinned)
      BY <2>1 DEF Pins, Leads
    <3> QED BY <1>4, <1>5, <3>1
  <2>2. CASE t.row[r].pinned = 0
    BY <1>4, <2>2, Numbers
  <2> QED BY <2>1, <2>2
<1>10. Ready(t, u, b)
  BY <1>4, <1>5, <1>6, <1>7, <1>8, <1>9 DEF Ready
<1> QED BY <1>4, <1>10 DEF u, new

Put(t, r, b) == [t EXCEPT !.row[r].book = b]

(* The book's keys, claimed or not, and the row put to it. *)
LEMMA ClaimFits ==
  ASSUME NEW t \in TableTypes, NEW home, NEW b, Ready(t, home, b), NEW r \in Rows,
         t.row[r].pinned = 0, NEW keys \in SUBSET AllKeys, KeysOf[t.row[r].edition] \subseteq keys,
         \A k \in keys : home.owner[k] \in {0, b}, \A q \in Rows \ {r} : AtHome(t, q),
         NEW u, u = Put(AddIdentities(home, b, keys), r, b)
  PROVE  /\ u \in TableTypes /\ Leads(u) /\ Pins(u) /\ \A q \in Rows : AtHome(u, q)
         /\ u.book = home.book /\ u.row[r] = [t.row[r] EXCEPT !.book = b]
         /\ \A q \in Rows \ {r} : u.row[q] = home.row[q]
<1> DEFINE o == [k \in AllKeys |-> IF k \in keys /\ home.owner[k] = 0 THEN b ELSE home.owner[k]]
           w == [home.row EXCEPT ![r].book = b]
<1>1. /\ home \in TableTypes /\ b \in Books /\ b # 0 /\ IsRoot(home, b) /\ Leads(home) /\ Pins(home)
      /\ home = [book |-> home.book, row |-> home.row, owner |-> home.owner]
      /\ home.book \in [Books -> BookRecords] /\ home.row \in [Rows -> RowRecords]
      /\ home.owner \in [AllKeys -> Books \cup {0}] /\ t.row[r] \in RowRecords
  BY TableFields, Numbers DEF Ready, TableTypes
<1>2. u.book = home.book /\ u.row = w /\ u.owner = o /\ u = [book |-> u.book, row |-> u.row, owner |-> u.owner]
  <2>1. AddIdentities(home, b, keys) = [home EXCEPT !.owner = o]
    BY DEF AddIdentities
  <2> HIDE DEF o
  <2>2. [home EXCEPT !.owner = o] = [book |-> home.book, row |-> home.row, owner |-> o]
    BY <1>1
  <2> QED BY <2>1, <2>2 DEF Put
<1>3. /\ o \in [AllKeys -> Books \cup {0}]
      /\ \A k \in AllKeys : o[k] = home.owner[k] \/ (home.owner[k] = 0 /\ o[k] = b)
      /\ \A k \in keys : o[k] = b
  BY <1>1
<1>4. /\ w \in [Rows -> RowRecords] /\ w[r] = [home.row[r] EXCEPT !.book = b]
      /\ w[r].book = b /\ w[r].pinned = home.row[r].pinned /\ w[r].edition = home.row[r].edition
      /\ \A q \in Rows \ {r} : w[q] = home.row[q]
  BY <1>1 DEF RowRecords
<1>5. home.row[r].pinned = 0 /\ home.row[r].edition = t.row[r].edition /\ w[r] = [t.row[r] EXCEPT !.book = b]
  <2>1. home.row[r] = t.row[r] \/ home.row[r] = [t.row[r] EXCEPT !.book = b]
    BY DEF Ready
  <2> QED BY <1>1, <1>4, <2>1 DEF RowRecords
<1> HIDE DEF o, w
<1>6. u \in TableTypes
  BY <1>1, <1>2, <1>3, <1>4 DEF TableTypes
<1>10. /\ \A k \in AllKeys : u.owner[k] = home.owner[k] \/ (home.owner[k] = 0 /\ u.owner[k] = b)
       /\ \A k \in keys : u.owner[k] = b
       /\ u.row[r].book = b /\ u.row[r].pinned = 0 /\ u.row[r].edition = t.row[r].edition
       /\ \A q \in Rows \ {r} : u.row[q] = home.row[q]
       /\ \A c : IsRoot(u, c) <=> IsRoot(home, c)
  BY <1>2, <1>3, <1>4, <1>5 DEF IsRoot
<1>7. Leads(u)
  <2>1. ASSUME NEW k \in AllKeys, u.owner[k] # 0 PROVE IsRoot(u, u.owner[k])
    BY <1>1, <1>10, <2>1 DEF Leads
  <2>2. ASSUME NEW q \in Rows, u.row[q].book # 0 PROVE IsRoot(u, u.row[q].book)
    BY <1>1, <1>10, <2>2 DEF Leads
  <2> QED BY <2>1, <2>2 DEF Leads
<1>8. Pins(u)
  <2> SUFFICES ASSUME NEW q \in Rows, u.row[q].pinned # 0
               PROVE  /\ u.row[q].book = u.row[q].pinned
                      /\ \A k \in AllKeys : u.owner[k] # u.row[q].pinned
                      /\ \A x \in Rows \ {q} : u.row[x].book # u.row[q].pinned
    BY DEF Pins
  <2>1. q # r /\ u.row[q] = home.row[q] /\ home.row[q].pinned # b
    BY <1>10 DEF Ready
  <2>2. /\ home.row[q].book = home.row[q].pinned
        /\ \A k \in AllKeys : home.owner[k] # home.row[q].pinned
        /\ \A x \in Rows \ {q} : home.row[x].book # home.row[q].pinned
    BY <1>1, <2>1 DEF Pins
  <2>3. \A k \in AllKeys : u.owner[k] # u.row[q].pinned
    BY <1>10, <2>1, <2>2
  <2>4. \A x \in Rows \ {q} : u.row[x].book # u.row[q].pinned
    BY <1>10, <2>1, <2>2
  <2> QED BY <2>1, <2>2, <2>3, <2>4
<1>9. ASSUME NEW q \in Rows PROVE AtHome(u, q)
  <2>1. CASE q = r
    <3>1. \A k \in KeysOf[u.row[r].edition] : u.owner[k] = b
      BY <1>10
    <3> QED BY <1>10, <2>1, <3>1 DEF AtHome
  <2>2. CASE q # r
    <3>1. AtHome(home, q) /\ u.row[q] = home.row[q]
      BY <1>10, <2>2 DEF Ready
    <3>2. \A k \in KeysOf[home.row[q].edition] : k \in AllKeys
      BY <1>1, TableFields, KeysKnown
    <3>3. ASSUME u.row[q].book # 0, u.row[q].pinned = 0, NEW k \in KeysOf[u.row[q].edition]
          PROVE  u.owner[k] = u.row[q].book
      <4>1. k \in AllKeys /\ home.owner[k] = home.row[q].book /\ home.row[q].book # 0
        BY <3>1, <3>2, <3>3 DEF AtHome
      <4> QED BY <1>10, <3>1, <4>1
    <3> QED BY <3>3 DEF AtHome
  <2> QED BY <2>1, <2>2
<1> QED BY <1>2, <1>4, <1>5, <1>6, <1>7, <1>8, <1>9

(* What Attach leaves: the row in book b, and the others where they were, or *)
(* where the losers' rows go.                                               *)
Attached(t, u, r, b) ==
  /\ u \in TableTypes /\ Leads(u) /\ Pins(u) /\ \A q \in Rows : AtHome(u, q)
  /\ b \in Books /\ IsRoot(u, b) /\ u.row[r] = [t.row[r] EXCEPT !.book = b]
  /\ \A q \in Rows \ {r} : \/ u.row[q] = t.row[q]
                           \/ /\ u.row[q] = [t.row[q] EXCEPT !.book = b]
                              /\ t.row[q].book # 0 /\ ~IsRoot(u, t.row[q].book)
  /\ \A c \in Books \ {b} : IsRoot(u, c) => u.book[c] = t.book[c]
  /\ \A c \in Books \ {b} : IsRoot(t, c) /\ ~IsRoot(u, c) => u.book[c].into = b
  /\ IsRoot(t, b) => u.book[b].served = t.book[b].served /\ u.book[b].rev = t.book[b].rev

LEMMA AttachFits ==
  ASSUME NEW t \in TableTypes, Leads(t), Pins(t), NEW r \in Rows, \A q \in Rows \ {r} : AtHome(t, q),
         NEW keys \in SUBSET AllKeys, KeysOf[t.row[r].edition] \subseteq keys, HasRoom(t, r, keys)
  PROVE  Attached(t, Attach(t, r, keys), r, Attach(t, r, keys).row[r].book)
<1>1. /\ t.book \in [Books -> BookRecords] /\ t.row \in [Rows -> RowRecords] /\ t.owner \in [AllKeys -> Books \cup {0}]
      /\ t = [book |-> t.book, row |-> t.row, owner |-> t.owner] /\ 0 \notin Books /\ Books \subseteq Nat
      /\ t.row[r].book \in Books \cup {0} /\ t.row[r] \in RowRecords
  BY TableFields, Numbers DEF TableTypes
<1>2. CASE t.row[r].pinned # 0
  <2> DEFINE p == t.row[r].pinned
  <2>1. t.row[r].book = p /\ IsRoot(t, p) /\ p \in Books /\ ResolveBookID(t, p) = p
    BY <1>1, <1>2, RootsResolve DEF Pins, Leads
  <2>2. [t.row EXCEPT ![r].book = p] = t.row /\ [t.row[r] EXCEPT !.book = p] = t.row[r]
    BY <1>1, <2>1 DEF RowRecords
  <2>3. Attach(t, r, keys) = t
    BY <1>1, <1>2, <2>1, <2>2 DEF Attach
  <2>4. AtHome(t, r)
    BY <1>2 DEF AtHome
  <2> QED BY <2>1, <2>2, <2>3, <2>4 DEF Attached
<1>3. CASE t.row[r].pinned = 0
  <2> DEFINE matches == LookupIdentities(t, keys)
             b == IF matches = {} THEN Min(Unissued(t)) ELSE Min(matches)
             home == IF matches = {} THEN CreateBook(t, b) ELSE MergeBooks(t, b, matches \ {b})
             u == Attach(t, r, keys)
  <2>1. u = Put(AddIdentities(home, b, keys), r, b)
    BY <1>3 DEF Attach, AttachByKeys, Put
  <2>2. matches = {t.owner[k] : k \in {x \in keys : t.owner[x] # 0}}
    <3>1. \A k \in keys : t.owner[k] # 0 => ResolveBookID(t, t.owner[k]) = t.owner[k]
      BY RootsResolve
    <3> QED BY <3>1 DEF LookupIdentities
  <2>3. matches \in SUBSET Books /\ \A c \in matches : IsRoot(t, c)
    BY <1>1, <2>2 DEF Leads
  <2>4. \A q \in Rows : t.row[q].pinned \notin matches
    <3> SUFFICES ASSUME NEW q \in Rows, NEW k \in keys, t.owner[k] # 0, t.row[q].pinned = t.owner[k] PROVE FALSE
      BY <2>2
    <3> QED BY DEF Pins
  <2>5. /\ Ready(t, home, b) /\ \A k \in keys : home.owner[k] \in {0, b}
        /\ IsRoot(t, b) => home.book[b].served = t.book[b].served /\ home.book[b].rev = t.book[b].rev
    <3>1. CASE matches = {}
      <4>1. Unissued(t) # {} /\ Unissued(t) \in SUBSET Nat
        BY <1>1, <1>3, <3>1 DEF HasRoom, Unissued
      <4>2. b \in Books /\ t.book[b].state = "unused"
        <5>1. Min(Unissued(t)) \in Unissued(t)
          BY <4>1, MinOf
        <5> QED BY <3>1, <5>1 DEF Unissued
      <4>3. Ready(t, CreateBook(t, b), b) /\ CreateBook(t, b).owner = t.owner
        <5> HIDE DEF b
        <5> QED BY <4>2, CreateFits
      <4>4. \A k \in keys : t.owner[k] = 0
        BY <2>2, <3>1
      <4>5. ~IsRoot(t, b)
        BY <4>2 DEF IsRoot
      <4> HIDE DEF b, matches
      <4> QED BY <3>1, <4>3, <4>4, <4>5
    <3>2. CASE matches # {}
      <4>1. b \in matches
        <5>1. matches \in SUBSET Nat
          BY <1>1, <2>3
        <5>2. Min(matches) \in matches
          <6> HIDE DEF matches
          <6> QED BY <3>2, <5>1, MinOf
        <5> QED BY <3>2, <5>2
      <4> DEFINE losers == matches \ {b}
      <4>2. /\ b \in Books /\ IsRoot(t, b) /\ losers \in SUBSET (Books \ {b}) /\ \A c \in losers : IsRoot(t, c)
            /\ \A q \in Rows : t.row[q].pinned \notin losers \cup {b}
            /\ \A k \in keys : t.owner[k] \in losers \cup {b, 0}
        <5>1. \A k \in keys : t.owner[k] # 0 => t.owner[k] \in matches
          BY <2>2
        <5> HIDE DEF b, matches
        <5> QED BY <2>3, <2>4, <4>1, <5>1
      <4>3. home = MergeBooks(t, b, losers)
        BY <3>2
      <4> HIDE DEF b, home, losers
      <4>4. /\ Ready(t, home, b)
            /\ \A k \in AllKeys : home.owner[k] = IF t.owner[k] \in losers THEN b ELSE t.owner[k]
            /\ home.book[b] = t.book[b] \/ home.book[b] = [t.book[b] EXCEPT !.override = home.book[b].override]
        BY <4>2, <4>3, MergeFits
      <4>5. t.book[b] \in BookRecords
        BY <1>1, <4>2
      <4>6. home.book[b].served = t.book[b].served /\ home.book[b].rev = t.book[b].rev
        BY <4>4, <4>5 DEF BookRecords
      <4> QED BY <4>2, <4>4, <4>6
    <3> QED BY <3>1, <3>2
  <2> HIDE DEF b, home, u, matches
  <2>6. /\ u \in TableTypes /\ Leads(u) /\ Pins(u) /\ \A q \in Rows : AtHome(u, q)
        /\ u.book = home.book /\ u.row[r] = [t.row[r] EXCEPT !.book = b]
        /\ \A q \in Rows \ {r} : u.row[q] = home.row[q]
    BY <1>3, <2>1, <2>5, ClaimFits
  <2>7. \A c : IsRoot(u, c) <=> IsRoot(home, c)
    BY <2>6 DEF IsRoot
  <2>8. u.row[r].book = b
    BY <1>1, <2>6 DEF RowRecords
  <2>9. Attached(t, u, r, b)
    BY <2>5, <2>6, <2>7 DEF Attached, Ready
  <2> QED BY <2>8, <2>9 DEF u
<1> QED BY <1>2, <1>3
-----------------------------------------------------------------------------
(* Resolve, on the tables of one transaction. *)

(* The ranking has a first row: the ids settle what the rest leaves open.    *)
LEMMA LeadingIsOne ==
  ASSUME NEW rs \in SUBSET Rows, rs # {}, NEW x \in [rs -> Nat], NEW y \in [rs -> Nat]
  PROVE  Leading([r \in rs |-> <<x[r], y[r], r>>]) \in rs
<1> DEFINE rank == [r \in rs |-> <<x[r], y[r], r>>]
           X1 == {x[r] : r \in rs}
           Y1 == {y[r] : r \in {q \in rs : x[q] = Min(X1)}}
           Z1 == {r \in rs : x[r] = Min(X1) /\ y[r] = Min(Y1)}
<1>1. Min(X1) \in X1 /\ \A n \in X1 : Min(X1) <= n
  <2>1. X1 \in SUBSET Nat /\ X1 # {}
    OBVIOUS
  <2> HIDE DEF X1
  <2> QED BY <2>1, MinOf
<1>2. Min(Y1) \in Y1 /\ \A n \in Y1 : Min(Y1) <= n
  <2>1. Y1 \in SUBSET Nat /\ Y1 # {}
    BY <1>1
  <2> HIDE DEF Y1
  <2> QED BY <2>1, MinOf
<1>3. Min(Z1) \in Z1 /\ \A n \in Z1 : Min(Z1) <= n
  <2>1. Z1 \in SUBSET Nat /\ Z1 # {}
    BY <1>2, Numbers
  <2> HIDE DEF Z1
  <2> QED BY <2>1, MinOf
<1>4. PICK m \in rs : /\ \A q \in rs : x[m] <= x[q]
                      /\ \A q \in rs : x[q] = x[m] => y[m] <= y[q]
                      /\ \A q \in rs : x[q] = x[m] /\ y[q] = y[m] => m <= q
  <2>1. Min(Z1) \in rs /\ x[Min(Z1)] = Min(X1) /\ y[Min(Z1)] = Min(Y1)
    BY <1>3
  <2>2. \A q \in rs : Min(X1) <= x[q]
    BY <1>1
  <2>3. \A q \in rs : x[q] = Min(X1) => Min(Y1) <= y[q]
    BY <1>2
  <2>4. \A q \in rs : x[q] = Min(X1) /\ y[q] = Min(Y1) => Min(Z1) <= q
    BY <1>3
  <2> HIDE DEF X1, Y1, Z1
  <2> QED BY <2>1, <2>2, <2>3, <2>4
<1>5. ASSUME NEW q \in rs \ {m} PROVE Before(rank[m], rank[q])
  <2>1. /\ rank[m] = <<x[m], y[m], m>> /\ rank[q] = <<x[q], y[q], q>>
        /\ x[m] \in Nat /\ x[q] \in Nat /\ y[m] \in Nat /\ y[q] \in Nat /\ m \in Nat /\ q \in Nat /\ m # q
    BY Numbers
  <2>2. CASE x[m] < x[q]
    <3>1. rank[m][1] < rank[q][1] /\ \A j \in 1 .. 1 - 1 : rank[m][j] = rank[q][j]
      BY <2>1, <2>2
    <3> QED BY <3>1 DEF Before
  <2>3. CASE x[m] = x[q] /\ y[m] < y[q]
    <3>1. rank[m][2] < rank[q][2] /\ \A j \in 1 .. 2 - 1 : rank[m][j] = rank[q][j]
      BY <2>1, <2>3
    <3> QED BY <3>1 DEF Before
  <2>4. CASE x[m] = x[q] /\ y[m] = y[q] /\ m < q
    <3>1. rank[m][3] < rank[q][3] /\ \A j \in 1 .. 3 - 1 : rank[m][j] = rank[q][j]
      BY <2>1, <2>4
    <3> QED BY <3>1 DEF Before
  <2> QED BY <1>4, <2>1, <2>2, <2>3, <2>4
<1>6. DOMAIN rank = rs
  OBVIOUS
<1> HIDE DEF rank
<1>7. \E r \in DOMAIN rank : \A q \in DOMAIN rank \ {r} : Before(rank[r], rank[q])
  BY <1>5, <1>6
<1>8. Leading(rank) \in DOMAIN rank
  BY <1>7 DEF Leading
<1> QED BY <1>6, <1>8 DEF rank

LEMMA FirstIsOne ==
  ASSUME NEW t \in TableTypes, NEW src \in [Sources -> SourceRecords], NEW rs \in SUBSET Rows, rs # {}
  PROVE  First(t, src, rs) \in rs
<1> DEFINE x == [r \in rs |-> IF t.row[r].present THEN 0 ELSE 1]
           y == [r \in rs |-> src[RowSource[r]].priority]
<1>1. x \in [rs -> Nat]
  OBVIOUS
<1>2. y \in [rs -> Nat]
  BY Numbers DEF SourceRecords
<1>3. Ranks(t, src, rs) = [r \in rs |-> <<x[r], y[r], r>>]
  BY DEF Ranks
<1> HIDE DEF x, y
<1>4. Leading([r \in rs |-> <<x[r], y[r], r>>]) \in rs
  BY <1>1, <1>2, LeadingIsOne
<1> QED BY <1>3, <1>4, Zenon DEF First

LEMMA ServingFits ==
  ASSUME NEW t \in TableTypes, NEW src \in [Sources -> SourceRecords], NEW b \in Books,
         Candidates(t, src, b) # {}
  PROVE  Serving(t, src, b) \in Servings
<1> DEFINE rs == Candidates(t, src, b)
           covered == {r \in rs : t.row[r].cover}
           tiers == {i \in 1 .. 4 : Tier(t, rs, i) # {}}
<1>1. rs \in SUBSET Rows /\ rs # {}
  BY DEF Candidates
<1>2. First(t, src, rs) \in Rows
  <2> HIDE DEF rs
  <2> QED BY <1>1, FirstIsOne
<1>3. t.row[First(t, src, rs)].edition.title \in Titles
  <2> HIDE DEF rs
  <2> QED BY <1>2, TableFields, TitlesKnown
<1>4. CoverOf(t, src, rs) \in Rows \cup {0}
  <2>1. covered \in SUBSET Rows /\ (covered # {} => First(t, src, covered) \in covered)
    <3>1. covered \in SUBSET Rows
      BY <1>1
    <3> HIDE DEF covered
    <3> QED BY <3>1, FirstIsOne
  <2>2. CoverOf(t, src, rs) = IF covered = {} THEN 0 ELSE First(t, src, covered)
    BY DEF CoverOf
  <2> HIDE DEF covered
  <2> QED BY <2>1, <2>2
<1>5. FileOf(t, src, rs) \in Rows \cup {0}
  <2>1. CASE tiers # {}
    <3>1. Min(tiers) \in tiers
      <4>1. tiers \in SUBSET Nat
        OBVIOUS
      <4> HIDE DEF tiers
      <4> QED BY <2>1, <4>1, MinOf
    <3>2. Tier(t, rs, Min(tiers)) # {} /\ Tier(t, rs, Min(tiers)) \in SUBSET Rows
      <4>1. Tier(t, rs, Min(tiers)) # {}
        BY <3>1
      <4>2. Tier(t, rs, Min(tiers)) \in SUBSET Rows
        BY <1>1 DEF Tier
      <4> QED BY <4>1, <4>2
    <3>3. FileOf(t, src, rs) = First(t, src, Tier(t, rs, Min(tiers)))
      BY <2>1 DEF FileOf
    <3> HIDE DEF tiers, rs
    <3> QED BY <3>2, <3>3, FirstIsOne
  <2>2. CASE tiers = {}
    BY <2>2 DEF FileOf
  <2> QED BY <2>1, <2>2
<1>6. (IF t.book[b].override = {} THEN NoText ELSE CHOOSE s \in t.book[b].override : TRUE) \in Series \cup {NoText}
  <2>1. t.book[b].override \in SUBSET Series
    BY TableFields DEF BookRecords
  <2> QED BY <2>1
<1> HIDE DEF rs
<1> QED BY <1>3, <1>4, <1>5, <1>6 DEF Serving, Servings, rs
(* What Resolve may change about a book, and when the revision moves.        *)
Earned(x, y) ==
  /\ y.rev # x.rev <=> y.served # x.served /\ x.served # NotServed
  /\ y.rev # x.rev => y.available

LEMMA ResolvedFits ==
  ASSUME NEW t \in TableTypes, NEW src \in [Sources -> SourceRecords], NEW b \in Books
  PROVE  LET v == Resolved(t, src, b)
         IN  /\ v \in BookRecords /\ v.state = t.book[b].state /\ v.into = t.book[b].into
             /\ v.hidden = t.book[b].hidden /\ v.override = t.book[b].override
             /\ Earned(t.book[b], v)
<1> DEFINE was == t.book[b]
           served == Serving(t, src, b)
           v == Resolved(t, src, b)
           gone == [was EXCEPT !.available = FALSE, !.syncable = FALSE]
           here == [was EXCEPT !.available = TRUE, !.syncable = ~was.hidden /\ served.file # 0,
                               !.served = served,
                               !.rev = IF was.served \notin {NotServed, served} THEN was.rev + 1 ELSE was.rev]
<1>1. was \in BookRecords
  BY TableFields
<1>2. v = IF was.into # 0 THEN was ELSE IF Candidates(t, src, b) = {} THEN gone ELSE here
  BY DEF Resolved
<1>3. CASE was.into # 0
  BY <1>1, <1>2, <1>3 DEF Earned
<1>4. CASE was.into = 0 /\ Candidates(t, src, b) = {}
  <2>1. v = gone
    BY <1>2, <1>4
  <2>2. /\ gone \in BookRecords /\ gone.state = was.state /\ gone.into = was.into
        /\ gone.hidden = was.hidden /\ gone.override = was.override
        /\ gone.rev = was.rev /\ gone.served = was.served
    BY <1>1 DEF BookRecords
  <2> QED BY <2>1, <2>2 DEF Earned
<1>5. CASE was.into = 0 /\ Candidates(t, src, b) # {}
  <2>1. v = here
    BY <1>2, <1>5
  <2>2. served \in Servings
    BY <1>5, ServingFits
  <2> HIDE DEF served
  <2>3. /\ here.state = was.state /\ here.into = was.into /\ here.served = served /\ here.available = TRUE
        /\ here.hidden = was.hidden /\ here.override = was.override /\ was.rev \in Nat
        /\ here.rev = IF was.served \notin {NotServed, served} THEN was.rev + 1 ELSE was.rev
    BY <1>1 DEF BookRecords
  <2>4. here \in BookRecords
    <3> DEFINE n == IF was.served \notin {NotServed, served} THEN was.rev + 1 ELSE was.rev
               on == ~was.hidden /\ served.file # 0
    <3>1. n \in Nat /\ on \in BOOLEAN
      <4>1. was.rev \in Nat /\ was.rev + 1 \in Nat
        BY <2>3
      <4> QED BY <4>1
    <3>2. here = [was EXCEPT !.available = TRUE, !.syncable = on, !.served = served, !.rev = n]
      OBVIOUS
    <3> HIDE DEF n, on, here, was
    <3> QED BY <1>1, <2>2, <3>1, <3>2 DEF BookRecords
  <2>5. here.rev # was.rev <=> was.served # NotServed /\ served # was.served
    BY <2>3
  <2>6. Earned(was, here)
    BY <2>3, <2>5 DEF Earned
  <2> QED BY <2>1, <2>3, <2>4, <2>6
<1> QED BY <1>3, <1>4, <1>5

(* What Resolve reads of a book's rows is the same in both.                  *)
SameRows(t, src, u, dst, b) ==
  /\ Candidates(u, dst, b) = Candidates(t, src, b)
  /\ \A r \in Candidates(t, src, b) :
       /\ u.row[r].present = t.row[r].present /\ u.row[r].cover = t.row[r].cover
       /\ u.row[r].edition = t.row[r].edition
       /\ dst[RowSource[r]].priority = src[RowSource[r]].priority

LEMMA FirstAgrees ==
  ASSUME NEW t, NEW src, NEW u, NEW dst, NEW b, SameRows(t, src, u, dst, b),
         NEW rs \in SUBSET Candidates(t, src, b)
  PROVE  First(u, dst, rs) = First(t, src, rs)
<1>1. \A r \in rs : /\ u.row[r].present = t.row[r].present
                    /\ dst[RowSource[r]].priority = src[RowSource[r]].priority
  BY DEF SameRows
<1>2. Ranks(u, dst, rs) = Ranks(t, src, rs)
  BY <1>1 DEF Ranks
<1> QED BY <1>2 DEF First

LEMMA ServingAgrees ==
  ASSUME NEW t \in TableTypes, NEW src \in [Sources -> SourceRecords], NEW u, NEW dst, NEW b \in Books,
         SameRows(t, src, u, dst, b), u.book[b].override = t.book[b].override, Candidates(t, src, b) # {}
  PROVE  Serving(u, dst, b) = Serving(t, src, b)
<1> DEFINE rs == Candidates(t, src, b)
           covered == {r \in rs : t.row[r].cover}
           tiers == {i \in 1 .. 4 : Tier(t, rs, i) # {}}
<1>1. rs \in SUBSET Rows /\ rs # {} /\ Candidates(u, dst, b) = rs
  BY DEF Candidates, SameRows
<1>2. First(u, dst, rs) = First(t, src, rs) /\ First(t, src, rs) \in rs
  <2>1. First(u, dst, rs) = First(t, src, rs)
    BY FirstAgrees
  <2> HIDE DEF rs
  <2> QED BY <1>1, <2>1, FirstIsOne
<1>3. u.row[First(u, dst, rs)].edition.title = t.row[First(t, src, rs)].edition.title
  BY <1>2 DEF SameRows
<1>4. CoverOf(u, dst, rs) = CoverOf(t, src, rs)
  <2>1. {r \in rs : u.row[r].cover} = covered
    BY DEF SameRows
  <2>2. First(u, dst, covered) = First(t, src, covered)
    <3>1. covered \in SUBSET Candidates(t, src, b)
      OBVIOUS
    <3> HIDE DEF covered
    <3> QED BY <3>1, FirstAgrees
  <2> HIDE DEF rs
  <2> QED BY <2>1, <2>2 DEF CoverOf
<1>5. FileOf(u, dst, rs) = FileOf(t, src, rs)
  <2>1. \A i : Tier(u, rs, i) = Tier(t, rs, i)
    BY DEF SameRows, Tier
  <2>2. {i \in 1 .. 4 : Tier(u, rs, i) # {}} = tiers
    BY <2>1
  <2>3. First(u, dst, Tier(t, rs, Min(tiers))) = First(t, src, Tier(t, rs, Min(tiers)))
    <3>1. Tier(t, rs, Min(tiers)) \in SUBSET Candidates(t, src, b)
      BY DEF Tier
    <3> HIDE DEF rs, tiers
    <3> QED BY <3>1, FirstAgrees
  <2>4. Tier(u, rs, Min(tiers)) = Tier(t, rs, Min(tiers))
    BY <2>1
  <2>5. FileOf(u, dst, rs) = IF tiers = {} THEN 0 ELSE First(u, dst, Tier(u, rs, Min(tiers)))
    BY <2>2 DEF FileOf
  <2>6. FileOf(t, src, rs) = IF tiers = {} THEN 0 ELSE First(t, src, Tier(t, rs, Min(tiers)))
    BY DEF FileOf
  <2> HIDE DEF rs, tiers
  <2> QED BY <2>3, <2>4, <2>5, <2>6
<1> HIDE DEF rs
<1>6. Serving(u, dst, b) = [title  |-> u.row[First(u, dst, rs)].edition.title,
                            series |-> IF u.book[b].override = {} THEN NoText ELSE CHOOSE s \in u.book[b].override : TRUE,
                            cover  |-> CoverOf(u, dst, rs),
                            file   |-> FileOf(u, dst, rs)]
  BY <1>1 DEF Serving
<1>7. Serving(t, src, b) = [title  |-> t.row[First(t, src, rs)].edition.title,
                            series |-> IF t.book[b].override = {} THEN NoText ELSE CHOOSE s \in t.book[b].override : TRUE,
                            cover  |-> CoverOf(t, src, rs),
                            file   |-> FileOf(t, src, rs)]
  BY DEF Serving, rs
<1> QED BY <1>3, <1>4, <1>5, <1>6, <1>7

LEMMA StaysSettled ==
  ASSUME NEW t \in TableTypes, NEW src \in [Sources -> SourceRecords], NEW u, NEW dst, NEW b \in Books,
         SameRows(t, src, u, dst, b), u.book[b] = t.book[b], Settled(t, src, b)
  PROVE  Settled(u, dst, b)
<1>1. Candidates(u, dst, b) = Candidates(t, src, b)
  BY DEF SameRows
<1>2. Candidates(t, src, b) # {} => Serving(u, dst, b) = Serving(t, src, b)
  BY ServingAgrees
<1>3. Resolved(u, dst, b) = Resolved(t, src, b)
  BY <1>1, <1>2 DEF Resolved
<1> QED BY <1>3 DEF Settled

(* A book that was resolved is settled: resolving it again changes nothing.  *)
LEMMA ResolveSettles ==
  ASSUME NEW t \in TableTypes, NEW src \in [Sources -> SourceRecords], NEW bs \in SUBSET Books, NEW b \in bs
  PROVE  Settled(Resolve(t, src, bs), src, b)
<1> DEFINE u == Resolve(t, src, bs)
           was == t.book[b]
           served == Serving(t, src, b)
<1>1. u.row = t.row /\ u.book[b] = Resolved(t, src, b) /\ was \in BookRecords
  <2>1. t = [book |-> t.book, row |-> t.row, owner |-> t.owner] /\ b \in Books
    BY DEF TableTypes
  <2> QED BY <2>1, TableFields DEF Resolve
<1> HIDE DEF u
<1>2. Candidates(u, src, b) = Candidates(t, src, b) /\ SameRows(t, src, u, src, b)
  BY <1>1 DEF Candidates, SameRows
<1>3. u.book[b].override = was.override /\ u.book[b].into = was.into /\ u.book[b].hidden = was.hidden
  BY <1>1, ResolvedFits
<1>4. Candidates(t, src, b) # {} => Serving(u, src, b) = served
  BY <1>2, <1>3, ServingAgrees
<1>5. Resolved(u, src, b) = u.book[b]
  <2>1. CASE was.into # 0
    BY <1>3, <2>1 DEF Resolved
  <2>2. CASE was.into = 0 /\ Candidates(t, src, b) = {}
    <3>1. u.book[b] = [was EXCEPT !.available = FALSE, !.syncable = FALSE]
      BY <1>1, <2>2 DEF Resolved
    <3>2. Resolved(u, src, b) = [u.book[b] EXCEPT !.available = FALSE, !.syncable = FALSE]
      BY <1>2, <1>3, <2>2 DEF Resolved
    <3> QED BY <1>1, <3>1, <3>2 DEF BookRecords
  <2>3. CASE was.into = 0 /\ Candidates(t, src, b) # {}
    <3>1. /\ u.book[b].served = served /\ u.book[b].available = TRUE
          /\ u.book[b].syncable = (~was.hidden /\ served.file # 0) /\ u.book[b] \in BookRecords
      <4>1. u.book[b] = [was EXCEPT !.available = TRUE, !.syncable = ~was.hidden /\ served.file # 0,
                                    !.served = served,
                                    !.rev = IF was.served \notin {NotServed, served} THEN was.rev + 1 ELSE was.rev]
        BY <1>1, <2>3 DEF Resolved
      <4>2. u.book[b] \in BookRecords
        BY <1>1, ResolvedFits
      <4> HIDE DEF served
      <4> QED BY <1>1, <4>1, <4>2 DEF BookRecords
    <3>2. Resolved(u, src, b) = [u.book[b] EXCEPT !.available = TRUE,
                                   !.syncable = ~u.book[b].hidden /\ served.file # 0,
                                   !.served = served,
                                   !.rev = IF u.book[b].served \notin {NotServed, served} THEN u.book[b].rev + 1
                                           ELSE u.book[b].rev]
      BY <1>2, <1>3, <1>4, <2>3 DEF Resolved
    <3> HIDE DEF served
    <3>3. Resolved(u, src, b) = [u.book[b] EXCEPT !.available = u.book[b].available,
                                   !.syncable = u.book[b].syncable, !.served = u.book[b].served,
                                   !.rev = u.book[b].rev]
      BY <1>3, <3>1, <3>2
    <3> QED BY <3>1, <3>3 DEF BookRecords
  <2> QED BY <2>1, <2>2, <2>3
<1> QED BY <1>5 DEF Settled, u
SameRow(x, y) ==
  /\ x.book = y.book /\ x.missing = y.missing /\ x.present = y.present
  /\ x.cover = y.cover /\ x.edition = y.edition

LEMMA RowsAgree ==
  ASSUME NEW t, NEW src, NEW u, NEW dst, NEW b,
         \A q \in Rows : (t.row[q].book = b /\ ~t.row[q].missing) \/ (u.row[q].book = b /\ ~u.row[q].missing) =>
           /\ SameRow(t.row[q], u.row[q])
           /\ dst[RowSource[q]].enabled = src[RowSource[q]].enabled
           /\ dst[RowSource[q]].priority = src[RowSource[q]].priority
  PROVE  SameRows(t, src, u, dst, b)
<1>1. \A q \in Rows : q \in Candidates(u, dst, b) <=> q \in Candidates(t, src, b)
  BY DEF Candidates, SameRow
<1>2. Candidates(u, dst, b) = Candidates(t, src, b)
  BY <1>1 DEF Candidates
<1>3. ASSUME NEW q \in Candidates(t, src, b)
      PROVE  /\ u.row[q].present = t.row[q].present /\ u.row[q].cover = t.row[q].cover
             /\ u.row[q].edition = t.row[q].edition
             /\ dst[RowSource[q]].priority = src[RowSource[q]].priority
  BY DEF Candidates, SameRow
<1> QED BY <1>2, <1>3 DEF SameRows

LEMMA ResolveFits ==
  ASSUME NEW t, Sound(t), NEW src \in [Sources -> SourceRecords], NEW bs \in SUBSET Books
  PROVE  LET u == Resolve(t, src, bs)
         IN  /\ Sound(u) /\ u.row = t.row /\ u.owner = t.owner
             /\ \A b \in Books : IsRoot(u, b) <=> IsRoot(t, b)
             /\ \A b \in Books : u.book[b].into = t.book[b].into /\ u.book[b].state = t.book[b].state
             /\ \A b \in Books \ bs : u.book[b] = t.book[b]
             /\ \A b \in Books : Earned(t.book[b], u.book[b])
<1> DEFINE u == Resolve(t, src, bs)
           g == [b \in Books |-> IF b \in bs THEN Resolved(t, src, b) ELSE t.book[b]]
<1>1. t \in TableTypes /\ t = [book |-> t.book, row |-> t.row, owner |-> t.owner]
  BY DEF Sound, TableTypes
<1>2. u = [t EXCEPT !.book = g]
  BY DEF Resolve
<1> HIDE DEF u
<1>3. /\ \A b \in Books : /\ g[b] \in BookRecords /\ g[b].state = t.book[b].state
                          /\ g[b].into = t.book[b].into /\ Earned(t.book[b], g[b])
      /\ \A b \in Books \ bs : g[b] = t.book[b]
  <2>1. ASSUME NEW b \in Books
        PROVE  /\ g[b] \in BookRecords /\ g[b].state = t.book[b].state
               /\ g[b].into = t.book[b].into /\ Earned(t.book[b], g[b])
    <3>1. CASE b \in bs
      BY <1>1, <3>1, ResolvedFits
    <3>2. CASE b \notin bs
      BY <1>1, <3>2, TableFields DEF Earned
    <3> QED BY <3>1, <3>2
  <2> QED BY <2>1
<1>4. g \in [Books -> BookRecords]
  BY <1>3
<1> HIDE DEF g
<1>5. u = [book |-> g, row |-> t.row, owner |-> t.owner]
  BY <1>1, <1>2
<1>6. u.book = g /\ u.row = t.row /\ u.owner = t.owner /\ u \in TableTypes
  BY <1>1, <1>4, <1>5, TableFields DEF TableTypes
<1>7. \A b \in Books : IsRoot(u, b) <=> IsRoot(t, b)
  BY <1>3, <1>6 DEF IsRoot
<1>8. Leads(u)
  <2>1. /\ \A k \in AllKeys : t.owner[k] \in Books \cup {0}
        /\ \A r \in Rows : t.row[r].book \in Books \cup {0}
    BY <1>1, TableFields
  <2> QED BY <1>6, <1>7, <2>1 DEF Leads, Sound
<1>9. Pins(u) /\ \A r \in Rows : AtHome(u, r)
  BY <1>6 DEF Pins, AtHome, Sound
<1> QED BY <1>3, <1>6, <1>7, <1>8, <1>9 DEF Sound, u

LEMMA ResolveGood ==
  ASSUME NEW t, Sound(t), NEW src \in [Sources -> SourceRecords], Kept(t, src), NEW owe,
         NEW bs \in SUBSET Books, NEW st \in SUBSET Books,
         \A b \in Books \ (st \cup bs) : IsRoot(t, b) /\ Free(t, owe, b) => Settled(t, src, b)
  PROVE  Good(Resolve(t, src, bs), src, owe, st)
<1> DEFINE u == Resolve(t, src, bs)
<1>1. /\ Sound(u) /\ u.row = t.row /\ \A b \in Books : IsRoot(u, b) <=> IsRoot(t, b)
      /\ \A b \in Books \ bs : u.book[b] = t.book[b]
  BY ResolveFits
<1>2. \A b \in bs : Settled(u, src, b)
  BY ResolveSettles DEF Sound
<1> HIDE DEF u
<1>3. ASSUME NEW b \in Books \ st, IsRoot(u, b), Free(u, owe, b) PROVE Settled(u, src, b)
  <2>1. CASE b \in bs
    BY <1>2, <2>1
  <2>2. CASE b \notin bs
    <3>1. IsRoot(t, b) /\ Free(t, owe, b)
      BY <1>1, <1>3 DEF Free
    <3>2. SameRows(t, src, u, src, b)
      BY <1>1 DEF SameRows, Candidates
    <3> QED BY <1>1, <2>2, <3>1, <3>2, StaysSettled DEF Sound
  <2> QED BY <2>1, <2>2
<1>4. Kept(u, src)
  BY <1>1 DEF Kept
<1> QED BY <1>1, <1>3, <1>4 DEF Good, Current, u

(* Which files are copied, and where a library's files are read from, is     *)
(* nothing Resolve looks at.                                                *)
Copied(t, rs) ==
  [t EXCEPT !.row = [r \in Rows |-> IF r \in rs THEN [t.row[r] EXCEPT !.copy = TRUE] ELSE t.row[r]]]

LEMMA CopyGood ==
  ASSUME NEW t, NEW src, NEW owe, NEW st, Good(t, src, owe, st), NEW rs \in SUBSET Rows,
         NEW dst \in [Sources -> SourceRecords],
         \A s \in Sources : /\ dst[s].kind = src[s].kind /\ dst[s].enabled = src[s].enabled
                            /\ dst[s].priority = src[s].priority,
         NEW u, u = Copied(t, rs)
  PROVE  Good(u, dst, owe, st) /\ u.book = t.book
<1> DEFINE g == [r \in Rows |-> IF r \in rs THEN [t.row[r] EXCEPT !.copy = TRUE] ELSE t.row[r]]
<1>1. t \in TableTypes /\ t = [book |-> t.book, row |-> t.row, owner |-> t.owner]
  BY DEF Good, Sound, TableTypes
<1>2. \A r \in Rows : /\ g[r] \in RowRecords /\ g[r].pinned = t.row[r].pinned /\ SameRow(t.row[r], g[r])
                      /\ t.row[r].copy => g[r].copy
  <2> TAKE r \in Rows
  <2>1. t.row[r] \in RowRecords
    BY <1>1, TableFields
  <2>2. CASE r \in rs
    <3>1. g[r] = [t.row[r] EXCEPT !.copy = TRUE]
      BY <2>2
    <3> QED BY <2>1, <3>1 DEF RowRecords, SameRow
  <2>3. CASE r \notin rs
    BY <2>1, <2>3 DEF SameRow
  <2> QED BY <2>2, <2>3
<1>3. g \in [Rows -> RowRecords]
  BY <1>2
<1> HIDE DEF g
<1>4. u = [book |-> t.book, row |-> g, owner |-> t.owner]
  BY <1>1 DEF g, Copied
<1>5. u.book = t.book /\ u.row = g /\ u.owner = t.owner /\ u \in TableTypes
  <2>1. t.book \in [Books -> BookRecords] /\ t.owner \in [AllKeys -> Books \cup {0}]
    BY <1>1, TableFields
  <2>2. [book |-> t.book, row |-> g, owner |-> t.owner] \in TableTypes
    BY <1>3, <2>1 DEF TableTypes
  <2>3. u \in TableTypes
    BY <1>4, <2>2, Zenon
  <2>4. u.book = t.book /\ u.row = g /\ u.owner = t.owner
    BY <1>4
  <2> QED BY <2>3, <2>4
<1>6. Sound(u)
  <2>1. Leads(u)
    BY <1>2, <1>5 DEF Good, Sound, Leads, IsRoot, SameRow
  <2>2. Pins(u) /\ \A r \in Rows : AtHome(u, r)
    BY <1>2, <1>5 DEF Good, Sound, Pins, AtHome, SameRow
  <2> QED BY <1>5, <2>1, <2>2 DEF Sound
<1>7. Kept(u, dst)
  BY <1>2, <1>5, Numbers DEF Good, Kept, SameRow
<1>8. ASSUME NEW b \in Books \ st, IsRoot(u, b), Free(u, owe, b) PROVE Settled(u, dst, b)
  <2>1. IsRoot(t, b) /\ Free(t, owe, b)
    BY <1>2, <1>5, <1>8 DEF IsRoot, Free, SameRow
  <2>2. SameRows(t, src, u, dst, b)
    BY <1>2, <1>5, RowsAgree, Numbers
  <2> QED BY <1>1, <1>5, <2>1, <2>2, StaysSettled DEF Good, Current
<1> QED BY <1>5, <1>6, <1>7, <1>8 DEF Good, Current
(* Where the book a row leaves has gone.                                    *)
LEMMA LeftKnown ==
  ASSUME NEW t, NEW u, NEW r \in Rows, NEW b, Attached(t, u, r, b), NEW c \in Books, IsRoot(t, c)
  PROVE  ResolveBookID(u, c) = IF IsRoot(u, c) THEN c ELSE b
<1>1. CASE IsRoot(u, c)
  BY <1>1, RootIsItself DEF IsRoot
<1>2. CASE ~IsRoot(u, c)
  <2>1. c # b /\ u.book[c].into = b /\ b # 0 /\ u.book[b].into = 0
    BY <1>2, Numbers DEF Attached, IsRoot
  <2> QED BY <1>2, <2>1, LoserLeadsHome
<1> QED BY <1>1, <1>2

Saying(t, r, x) == [t EXCEPT !.row[r] = x]
Unsplit(x) == [x EXCEPT !.pinned = 0]

(* A row that says x is put to the book its keys lead to.                   *)
LEMMA AttachedRow ==
  ASSUME NEW t, Sound(t), NEW r \in Rows, NEW x \in RowRecords,
         x.book = t.row[r].book, x.pinned \in {0, t.row[r].pinned},
         NEW keys \in SUBSET AllKeys, KeysOf[x.edition] \subseteq keys,
         NEW w, w = Saying(t, r, x), HasRoom(w, r, keys),
         NEW u, u = Attach(w, r, keys), NEW b, b = u.row[r].book
  PROVE  /\ Attached(w, u, r, b) /\ w.book = t.book /\ w.row[r] = x
         /\ \A q \in Rows \ {r} : w.row[q] = t.row[q]
<1>1. /\ t \in TableTypes /\ t = [book |-> t.book, row |-> t.row, owner |-> t.owner] /\ Sound(t)
      /\ Leads(t) /\ Pins(t) /\ \A q \in Rows : AtHome(t, q)
  BY DEF Sound, TableTypes
<1>2. /\ t.book \in [Books -> BookRecords] /\ t.row \in [Rows -> RowRecords] /\ t.owner \in [AllKeys -> Books \cup {0}]
      /\ \A q \in Rows : t.row[q].book \in Books \cup {0}
  BY <1>1, TableFields
<1>3. w = [book |-> t.book, row |-> [t.row EXCEPT ![r] = x], owner |-> t.owner]
  BY <1>1 DEF Saying
<1>4. /\ w.book = t.book /\ w.owner = t.owner /\ w.row[r] = x /\ \A q \in Rows \ {r} : w.row[q] = t.row[q]
      /\ w \in TableTypes
  <2>1. [t.row EXCEPT ![r] = x] \in [Rows -> RowRecords]
    BY <1>2
  <2> QED BY <1>2, <1>3, <2>1 DEF TableTypes
<1>5. \A c : IsRoot(w, c) <=> IsRoot(t, c)
  BY <1>4 DEF IsRoot
<1>6. \A q \in Rows : w.row[q].book = t.row[q].book /\ w.row[q].pinned \in {0, t.row[q].pinned}
  BY <1>4
<1>7. Leads(w)
  BY <1>1, <1>4, <1>5, <1>6 DEF Leads
<1>8. Pins(w)
  <2> SUFFICES ASSUME NEW q \in Rows, w.row[q].pinned # 0
               PROVE  /\ w.row[q].book = w.row[q].pinned
                      /\ \A k \in AllKeys : w.owner[k] # w.row[q].pinned
                      /\ \A y \in Rows \ {q} : w.row[y].book # w.row[q].pinned
    BY DEF Pins
  <2>1. w.row[q].pinned = t.row[q].pinned /\ t.row[q].pinned # 0
    BY <1>6
  <2>2. /\ t.row[q].book = t.row[q].pinned
        /\ \A k \in AllKeys : t.owner[k] # t.row[q].pinned
        /\ \A y \in Rows \ {q} : t.row[y].book # t.row[q].pinned
    BY <1>1, <2>1 DEF Pins
  <2> QED BY <1>4, <1>6, <2>1, <2>2
<1>9. \A q \in Rows \ {r} : AtHome(w, q)
  BY <1>1, <1>4 DEF AtHome
<1>10. Attached(w, u, r, b)
  BY <1>4, <1>7, <1>8, <1>9, AttachFits
<1> QED BY <1>4, <1>10

(* The book the row leaves and the one it joins are resolved or remembered,  *)
(* and nothing else moves.                                                  *)
LEMMA AttachGood ==
  ASSUME NEW t, NEW src, NEW owe, NEW st, Good(t, src, owe, st), NEW r \in Rows, NEW x \in RowRecords,
         x.book = t.row[r].book, x.pinned \in {0, t.row[r].pinned},
         src[RowSource[r]].kind = "kept" => t.row[r].book # 0 /\ x = Unsplit(t.row[r]),
         NEW keys \in SUBSET AllKeys, KeysOf[x.edition] \subseteq keys,
         NEW w, w = Saying(t, r, x), HasRoom(w, r, keys),
         NEW u, u = Attach(w, r, keys), NEW b, b = u.row[r].book,
         NEW bs \in SUBSET Books, b \in bs, NEW st2 \in SUBSET Books, st \subseteq st2 \cup bs,
         t.row[r].book # 0 /\ IsRoot(u, t.row[r].book) => t.row[r].book \in bs \cup st2
  PROVE  /\ Good(Resolve(u, src, bs), src, owe, st2) /\ Attached(w, u, r, b)
         /\ \A c \in Books : IsRoot(t, c) /\ IsRoot(Resolve(u, src, bs), c) =>
              Earned(t.book[c], Resolve(u, src, bs).book[c])
<1>1. /\ t \in TableTypes /\ Sound(t) /\ t.row \in [Rows -> RowRecords]
      /\ \A q \in Rows : t.row[q].book \in Books \cup {0}
  BY TableFields DEF Good, Sound
<1>10. /\ Attached(w, u, r, b) /\ w.book = t.book /\ w.row[r] = x
       /\ \A q \in Rows \ {r} : w.row[q] = t.row[q]
  BY <1>1, AttachedRow
<1>5. \A c : IsRoot(w, c) <=> IsRoot(t, c)
  BY <1>10 DEF IsRoot
<1>11. /\ Sound(u) /\ b \in Books /\ IsRoot(u, b) /\ u.row[r] = [x EXCEPT !.book = b]
       /\ \A q \in Rows \ {r} : \/ u.row[q] = t.row[q]
                                \/ /\ u.row[q] = [t.row[q] EXCEPT !.book = b]
                                   /\ t.row[q].book # 0 /\ ~IsRoot(u, t.row[q].book)
       /\ \A c \in Books \ {b} : IsRoot(u, c) => u.book[c] = t.book[c]
       /\ IsRoot(t, b) => u.book[b].served = t.book[b].served /\ u.book[b].rev = t.book[b].rev
  BY <1>5, <1>10 DEF Attached, Sound
<1>12. Kept(u, src)
  <2> SUFFICES ASSUME NEW q \in Rows, src[RowSource[q]].kind = "kept", u.row[q].book # 0,
                      ~u.row[q].missing, u.row[q].present
               PROVE  u.row[q].copy
    BY DEF Kept
  <2>1. t.row[q] \in RowRecords /\ (t.row[q].book # 0 /\ ~t.row[q].missing /\ t.row[q].present => t.row[q].copy)
    BY <1>1 DEF Good, Kept
  <2>2. CASE q = r
    <3>1. u.row[q].missing = t.row[q].missing /\ u.row[q].present = t.row[q].present /\ u.row[q].copy = t.row[q].copy
      <4>1. u.row[q] = [[t.row[q] EXCEPT !.pinned = 0] EXCEPT !.book = b]
        BY <1>11, <2>2 DEF Unsplit
      <4> QED BY <2>1, <4>1 DEF RowRecords
    <3> QED BY <2>1, <2>2, <3>1
  <2>3. CASE q # r
    <3>1. CASE u.row[q] = t.row[q]
      BY <2>1, <3>1
    <3>2. CASE u.row[q] = [t.row[q] EXCEPT !.book = b] /\ t.row[q].book # 0
      <4>1. u.row[q].missing = t.row[q].missing /\ u.row[q].present = t.row[q].present /\ u.row[q].copy = t.row[q].copy
        BY <2>1, <3>2 DEF RowRecords
      <4> QED BY <2>1, <3>2, <4>1
    <3> QED BY <1>11, <2>3, <3>1, <3>2
  <2> QED BY <2>2, <2>3
<1>13. ASSUME NEW c \in Books \ (st2 \cup bs), IsRoot(u, c), Free(u, owe, c) PROVE Settled(u, src, c)
  <2>1. c # b /\ c \notin st /\ c # t.row[r].book /\ u.book[c] = t.book[c] /\ IsRoot(t, c)
    <3>1. c # b /\ c \notin st /\ u.book[c] = t.book[c]
      BY <1>11, <1>13
    <3>2. c # t.row[r].book
      BY <1>1, <1>13, Numbers
    <3>3. IsRoot(t, c)
      BY <1>13, <3>1 DEF IsRoot
    <3> QED BY <3>1, <3>2, <3>3
  <2>2. \A q \in Rows : t.row[q].book = c \/ u.row[q].book = c => u.row[q] = t.row[q]
    <3> TAKE q \in Rows
    <3>1. CASE q = r
      <4>1. u.row[q].book = b
        BY <1>11, <3>1 DEF RowRecords
      <4> QED BY <2>1, <3>1, <4>1
    <3>2. CASE q # r /\ u.row[q] # t.row[q]
      <4>1. u.row[q] = [t.row[q] EXCEPT !.book = b] /\ ~IsRoot(u, t.row[q].book) /\ t.row[q] \in RowRecords
        BY <1>1, <1>11, <3>2
      <4>2. u.row[q].book = b
        BY <4>1 DEF RowRecords
      <4> QED BY <1>13, <2>1, <4>1, <4>2
    <3> QED BY <3>1, <3>2
  <2>3. SameRows(t, src, u, src, c)
    BY <2>2, RowsAgree DEF SameRow
  <2>4. Free(t, owe, c)
    BY <1>13, <2>2 DEF Free
  <2>5. Settled(t, src, c)
    BY <2>1, <2>4 DEF Good, Current
  <2> QED BY <1>1, <2>1, <2>3, <2>5, StaysSettled DEF Good
<1>14. src \in [Sources -> SourceRecords]
  BY DEF Good
<1> DEFINE v == Resolve(u, src, bs)
<1>15. Good(v, src, owe, st2)
  BY <1>11, <1>12, <1>13, <1>14, ResolveGood
<1>16. /\ \A c \in Books : IsRoot(v, c) <=> IsRoot(u, c)
       /\ \A c \in Books \ bs : v.book[c] = u.book[c]
       /\ \A c \in Books : Earned(u.book[c], v.book[c])
  BY <1>11, <1>14, ResolveFits
<1> HIDE DEF v
<1>17. ASSUME NEW c \in Books, IsRoot(t, c), IsRoot(v, c) PROVE Earned(t.book[c], v.book[c])
  <2>1. u.book[c].served = t.book[c].served /\ u.book[c].rev = t.book[c].rev
    BY <1>11, <1>16, <1>17
  <2> QED BY <1>16, <2>1 DEF Earned
<1> QED BY <1>10, <1>15, <1>17 DEF v
-----------------------------------------------------------------------------
(* Every action, from the tables it found to the tables it leaves. *)

Earning(t, u) == \A b \in Books : IsRoot(t, b) /\ IsRoot(u, b) => Earned(t.book[b], u.book[b])

LEMMA FoundTables ==
  ASSUME Inv
  PROVE  /\ Tables.book = book /\ Tables.row = row /\ Tables.owner = owner
         /\ Good(Tables, source, owed, stale) /\ Sound(Tables) /\ Tables \in TableTypes
         /\ Leads(Tables) /\ Pins(Tables) /\ \A r \in Rows : AtHome(Tables, r)
         /\ book \in [Books -> BookRecords] /\ row \in [Rows -> RowRecords] /\ owner \in [AllKeys -> Books \cup {0}]
         /\ source \in [Sources -> SourceRecords] /\ stale \in SUBSET Books
         /\ \A r \in Rows : /\ row[r] \in RowRecords /\ row[r].book \in Books \cup {0}
                            /\ row[r].book # 0 => /\ IsRoot(Tables, row[r].book)
                                                  /\ ResolveBookID(Tables, row[r].book) = row[r].book
         /\ \A s \in Sources : source[s] \in SourceRecords
<1>1. Tables.book = book /\ Tables.row = row /\ Tables.owner = owner
  BY DEF Tables
<1>2. /\ Good(Tables, source, owed, stale) /\ Sound(Tables) /\ Tables \in TableTypes
      /\ Leads(Tables) /\ Pins(Tables) /\ \A r \in Rows : AtHome(Tables, r)
      /\ source \in [Sources -> SourceRecords] /\ stale \in SUBSET Books
  BY DEF Inv, Good, Sound
<1>3. \A r \in Rows : row[r].book # 0 => ResolveBookID(Tables, row[r].book) = row[r].book
  BY <1>1, <1>2, RootsResolve
<1>4. \A r \in Rows : row[r].book # 0 => IsRoot(Tables, row[r].book)
  BY <1>1, <1>2 DEF Leads
<1>5. /\ book \in [Books -> BookRecords] /\ row \in [Rows -> RowRecords] /\ owner \in [AllKeys -> Books \cup {0}]
      /\ \A r \in Rows : row[r] \in RowRecords /\ row[r].book \in Books \cup {0}
  BY <1>1, <1>2, TableFields
<1> QED BY <1>1, <1>2, <1>3, <1>4, <1>5

LEMMA Committed ==
  ASSUME NEW u \in TableTypes, Commit(u)
  PROVE  Tables' = u
BY DEF TableTypes, Commit, Tables

LEMMA Lands ==
  ASSUME NEW u, Commit(u), Good(u, source', owed', stale'), Earning(Tables, u), Rest'
  PROVE  Inv' /\ Earning(Tables, Tables')
<1>1. Tables' = u
  BY Committed DEF Good, Sound
<1> QED BY <1>1 DEF Inv

(* A book that is nobody's concern keeps what it is.                        *)
LEMMA KeepsEarning ==
  ASSUME NEW t, NEW u, u.book = t.book
  PROVE  Earning(t, u)
BY DEF Earning, Earned

LEMMA AlikeSound ==
  ASSUME NEW t, Sound(t), NEW u \in TableTypes, u.book = t.book, u.owner = t.owner,
         \A q \in Rows : /\ u.row[q].book = t.row[q].book /\ u.row[q].pinned = t.row[q].pinned
                         /\ u.row[q].edition = t.row[q].edition
  PROVE  Sound(u)
<1>1. Leads(u)
  BY DEF Sound, Leads, IsRoot
<1>2. Pins(u) /\ \A r \in Rows : AtHome(u, r)
  BY DEF Sound, Pins, AtHome
<1> QED BY <1>1, <1>2 DEF Sound

LEMMA AfterScanGood ==
  ASSUME NEW t, NEW st, Good(t, source, owed, st), NEW s \in Sources, NEW copied \in BOOLEAN,
         AfterScan(t, s, copied)
  PROVE  Good(Tables', source', owed, st) /\ Tables'.book = t.book
<1> DEFINE rs == IF copied /\ ~source[s].own
                 THEN {r \in Rows : RowSource[r] = s /\ ~t.row[r].missing /\ t.row[r].present} ELSE {}
           u == Copied(t, rs)
<1>1. /\ source' = [source EXCEPT ![s].own = @ \/ copied]
      /\ source \in [Sources -> SourceRecords] /\ t \in TableTypes
  BY DEF AfterScan, Good, Sound
<1>2. /\ source' \in [Sources -> SourceRecords]
      /\ \A x \in Sources : /\ source'[x].kind = source[x].kind /\ source'[x].enabled = source[x].enabled
                            /\ source'[x].priority = source[x].priority
  <2>1. source[s] \in SourceRecords /\ (source[s].own \/ copied) \in BOOLEAN
    BY <1>1 DEF SourceRecords
  <2>2. [source[s] EXCEPT !.own = source[s].own \/ copied] \in SourceRecords
    BY <2>1 DEF SourceRecords
  <2>3. source' = [source EXCEPT ![s] = [source[s] EXCEPT !.own = source[s].own \/ copied]]
    BY <1>1
  <2> QED BY <1>1, <2>1, <2>2, <2>3 DEF SourceRecords
<1>3. Commit(u)
  <2>1. CASE copied /\ ~source[s].own
    <3>1. Commit(CopyWholeSource(t, s))
      BY <2>1 DEF AfterScan
    <3>2. CopyWholeSource(t, s) = u
      BY <2>1 DEF CopyWholeSource, Copied
    <3> QED BY <3>1, <3>2
  <2>2. CASE ~(copied /\ ~source[s].own)
    <3>1. Commit(t)
      BY <2>2 DEF AfterScan
    <3>2. [r \in Rows |-> IF r \in rs THEN [t.row[r] EXCEPT !.copy = TRUE] ELSE t.row[r]] = t.row
      <4>1. t.row \in [Rows -> RowRecords] /\ rs = {}
        BY <1>1, <2>2, TableFields
      <4> HIDE DEF rs
      <4> QED BY <4>1
    <3>3. u = t
      <4>1. u = [t EXCEPT !.row = t.row]
        BY <3>2 DEF Copied
      <4> QED BY <1>1, <4>1 DEF TableTypes
    <3> QED BY <3>1, <3>3
  <2> QED BY <2>1, <2>2
<1>4. rs \in SUBSET Rows
  OBVIOUS
<1> HIDE DEF rs
<1>5. Good(u, source', owed, st) /\ u.book = t.book
  BY <1>2, <1>4, CopyGood
<1> HIDE DEF u
<1>6. Tables' = u
  BY <1>3, <1>5, Committed DEF Good, Sound
<1> QED BY <1>5, <1>6

LEMMA WrittenFits ==
  ASSUME Inv, NEW r \in Rows, NEW e \in Editions[r]
  PROVE  \E x \in RowRecords : /\ Written(r, e) = Saying(Tables, r, x)
                               /\ x.book = row[r].book /\ x.pinned = row[r].pinned /\ x.edition = Stored(e)
<1> DEFINE y == row[r]
           on == y.copy \/ (e.present /\ source[RowSource[r]].own)
           x == [y EXCEPT !.edition = Stored(e), !.missing = FALSE, !.present = e.present,
                          !.cover = e.cover, !.copy = on]
<1>1. Written(r, e) = Saying(Tables, r, x)
  BY Zenon DEF Written, Saying
<1>2. row[r] \in RowRecords /\ source[RowSource[r]] \in SourceRecords
  BY FoundTables, Numbers
<1>3. on \in BOOLEAN /\ Stored(e) \in StoredEditions /\ e.cover \in BOOLEAN /\ e.present \in BOOLEAN
  BY <1>2, StoredKeys DEF RowRecords, SourceRecords
<1> HIDE DEF on, y
<1>4. x \in RowRecords /\ x.book = row[r].book /\ x.pinned = row[r].pinned /\ x.edition = Stored(e)
  BY <1>2, <1>3 DEF RowRecords, y
<1> HIDE DEF x
<1> QED BY <1>1, <1>4

LEMMA Refiled ==
  ASSUME Inv, NEW r \in Rows, NEW e \in Editions[r], source[RowSource[r]].kind # "kept",
         HasRoom(Written(r, e), r, KeysOf[e]),
         NEW u, u = Attach(Written(r, e), r, KeysOf[e]), NEW b, b = u.row[r].book,
         NEW left, left = {ResolveBookID(u, c) : c \in {row[r].book} \ {0}} \ {b}
  PROVE  /\ Good(Resolve(u, source, {b}), source, owed, (stale \ {b}) \cup left)
         /\ Earning(Tables, Resolve(u, source, {b}))
<1> DEFINE w == Written(r, e)
<1>1. PICK x \in RowRecords : /\ w = Saying(Tables, r, x)
                              /\ x.book = row[r].book /\ x.pinned = row[r].pinned /\ x.edition = Stored(e)
  BY WrittenFits
<1> HIDE DEF w
<1>2. KeysOf[e] \in SUBSET AllKeys /\ KeysOf[x.edition] \subseteq KeysOf[e]
  BY <1>1, StoredKeys
<1>3. Good(Tables, source, owed, stale) /\ Tables.row = row /\ stale \in SUBSET Books /\ row[r].book \in Books \cup {0}
  BY FoundTables
<1>4. u = Attach(w, r, KeysOf[e]) /\ HasRoom(w, r, KeysOf[e])
  BY DEF w
<1>5. Attached(w, u, r, b) /\ b \in Books /\ w.book = Tables.book
  <2>1. Attached(w, u, r, b) /\ w.book = Tables.book
    BY <1>1, <1>2, <1>3, <1>4, FoundTables, AttachedRow
  <2> QED BY <2>1 DEF Attached
<1>6. row[r].book # 0 => left \subseteq Books /\ (IsRoot(u, row[r].book) => row[r].book \in left \cup {b})
  <2> SUFFICES ASSUME row[r].book # 0
               PROVE  left \subseteq Books /\ (IsRoot(u, row[r].book) => row[r].book \in left \cup {b})
    OBVIOUS
  <2>1. IsRoot(w, row[r].book) /\ row[r].book \in Books
    BY <1>3, <1>5, FoundTables DEF IsRoot
  <2>2. ResolveBookID(u, row[r].book) = IF IsRoot(u, row[r].book) THEN row[r].book ELSE b
    BY <1>5, <2>1, LeftKnown
  <2>3. left = {ResolveBookID(u, row[r].book)} \ {b}
    OBVIOUS
  <2> QED BY <1>5, <2>1, <2>2, <2>3
<1>7. row[r].book = 0 => left = {}
  OBVIOUS
<1>8. (stale \ {b}) \cup left \in SUBSET Books /\ stale \subseteq ((stale \ {b}) \cup left) \cup {b}
  BY <1>3, <1>6, <1>7
<1>9. row[r].book # 0 /\ IsRoot(u, row[r].book) => row[r].book \in {b} \cup ((stale \ {b}) \cup left)
  BY <1>6
<1> DEFINE st2 == (stale \ {b}) \cup left
           bs == {b}
<1>10. bs \in SUBSET Books /\ b \in bs /\ st2 \in SUBSET Books /\ stale \subseteq st2 \cup bs
  BY <1>5, <1>8
<1> HIDE DEF st2, bs
<1>11. /\ Good(Resolve(u, source, bs), source, owed, st2)
       /\ \A c \in Books : IsRoot(Tables, c) /\ IsRoot(Resolve(u, source, bs), c) =>
            Earned(Tables.book[c], Resolve(u, source, bs).book[c])
  <2>1. row[r].book # 0 /\ IsRoot(u, row[r].book) => row[r].book \in bs \cup st2
    BY <1>9 DEF bs, st2
  <2> QED BY <1>1, <1>2, <1>3, <1>4, <1>10, <2>1, AttachGood
<1> QED BY <1>11 DEF Earning, bs, st2
(* A row is marked missing, and its book resolved.                          *)
LEMMA MissingGood ==
  ASSUME Inv, NEW r \in Rows, NEW b, b = row[r].book, b # 0
  PROVE  /\ Good(Resolve(Missing(r), source, {b}), source, owed, stale \ {b})
         /\ Earning(Tables, Resolve(Missing(r), source, {b}))
         /\ ResolveBookID(Missing(r), b) = b
<1> DEFINE x == [row[r] EXCEPT !.missing = TRUE]
           u == Missing(r)
<1>1. /\ Good(Tables, source, owed, stale) /\ Tables.row = row /\ Tables.book = book /\ Tables.owner = owner
      /\ Sound(Tables) /\ stale \in SUBSET Books /\ b \in Books /\ IsRoot(Tables, b) /\ row[r] \in RowRecords
      /\ row \in [Rows -> RowRecords] /\ book \in [Books -> BookRecords] /\ owner \in [AllKeys -> Books \cup {0}]
      /\ source \in [Sources -> SourceRecords] /\ Tables \in TableTypes
  BY FoundTables
<1>2. x \in RowRecords /\ x.book = b /\ x.missing /\ x.pinned = row[r].pinned /\ x.edition = row[r].edition
  BY <1>1 DEF RowRecords
<1>3. u = [book |-> book, row |-> [row EXCEPT ![r] = x], owner |-> owner]
  <2>1. u = Saying(Tables, r, [Tables.row[r] EXCEPT !.missing = TRUE])
    BY Zenon DEF Missing, Saying
  <2>2. u = Saying(Tables, r, x)
    BY <1>1, <2>1
  <2> HIDE DEF u, x
  <2> QED BY <2>2 DEF Saying, Tables
<1> HIDE DEF x, u
<1>4. /\ u.book = book /\ u.owner = owner /\ u.row[r] = x /\ \A q \in Rows \ {r} : u.row[q] = row[q]
      /\ u \in TableTypes
  <2>1. [row EXCEPT ![r] = x] \in [Rows -> RowRecords]
    BY <1>1, <1>2
  <2> QED BY <1>1, <1>3, <2>1 DEF TableTypes
<1>5. Sound(u)
  <2>1. \A q \in Rows : /\ u.row[q].book = row[q].book /\ u.row[q].pinned = row[q].pinned
                        /\ u.row[q].edition = row[q].edition
    BY <1>2, <1>4
  <2> QED BY <1>1, <1>4, <2>1, AlikeSound
<1>6. Kept(u, source)
  BY <1>1, <1>2, <1>4 DEF Good, Kept
<1>7. ASSUME NEW c \in Books \ ((stale \ {b}) \cup {b}), IsRoot(u, c), Free(u, owed, c)
      PROVE  Settled(u, source, c)
  <2>1. c # b /\ c \notin stale /\ IsRoot(Tables, c)
    BY <1>1, <1>4, <1>7 DEF IsRoot
  <2>2. \A q \in Rows : row[q].book = c \/ u.row[q].book = c => u.row[q] = row[q]
    BY <1>2, <1>4, <2>1
  <2>3. Free(Tables, owed, c)
    BY <1>1, <1>7, <2>2 DEF Free
  <2>4. SameRows(Tables, source, u, source, c)
    BY <1>1, <2>2, RowsAgree DEF SameRow
  <2>5. Settled(Tables, source, c)
    BY <1>1, <2>1, <2>3 DEF Good, Current
  <2> QED BY <1>1, <1>4, <2>4, <2>5, StaysSettled
<1> DEFINE st2 == stale \ {b}
           bs == {b}
<1>8. bs \in SUBSET Books /\ st2 \in SUBSET Books
  BY <1>1
<1>9. \A c \in Books \ (st2 \cup bs) : IsRoot(u, c) /\ Free(u, owed, c) => Settled(u, source, c)
  BY <1>7
<1> HIDE DEF st2, bs
<1>10. Good(Resolve(u, source, bs), source, owed, st2)
  BY <1>1, <1>5, <1>6, <1>8, <1>9, ResolveGood
<1>11. \A c \in Books : Earned(u.book[c], Resolve(u, source, bs).book[c])
  BY <1>1, <1>5, <1>8, ResolveFits
<1>12. Earning(Tables, Resolve(u, source, bs))
  BY <1>1, <1>4, <1>11 DEF Earning
<1>13. ResolveBookID(u, b) = b
  BY <1>1, <1>4, RootIsItself DEF IsRoot
<1> QED BY <1>10, <1>12, <1>13 DEF st2, bs, u

Done == Inv' /\ Earning(Tables, Tables')

LEMMA IngestBookKeeps ==
  ASSUME Inv, NEW r \in Rows, NEW e \in Editions[r], NEW copied \in BOOLEAN, IngestBook(r, e, copied)
  PROVE  Done
<1> DEFINE u == Attach(Written(r, e), r, KeysOf[e])
           b == u.row[r].book
           left == {ResolveBookID(u, c) : c \in {row[r].book} \ {0}} \ {b}
           s == RowSource[r]
<1>1. /\ source[RowSource[r]].kind = "calibre" /\ HasRoom(Written(r, e), r, KeysOf[e])
      /\ AfterScan(Resolve(u, source, {b}), s, copied) /\ stale' = (stale \ {b}) \cup left
      /\ UNCHANGED <<owed, deleting, refused>> /\ changes' = changes + 1
  BY DEF IngestBook, Change
<1>2. /\ Good(Resolve(u, source, {b}), source, owed, (stale \ {b}) \cup left)
      /\ Earning(Tables, Resolve(u, source, {b}))
  BY <1>1, Refiled
<1>3. s \in Sources
  BY Numbers
<1> DEFINE v == Resolve(u, source, {b})
           st2 == (stale \ {b}) \cup left
<1>4. Good(v, source, owed, st2) /\ AfterScan(v, s, copied) /\ stale' = st2 /\ Earning(Tables, v)
  BY <1>1, <1>2
<1> HIDE DEF v, st2, s
<1>5. Good(Tables', source', owed, st2) /\ Tables'.book = v.book
  BY <1>3, <1>4, AfterScanGood
<1>6. Earning(Tables, Tables')
  BY <1>4, <1>5 DEF Earning, IsRoot
<1>7. Rest'
  BY <1>1 DEF Inv, Rest
<1> QED BY <1>1, <1>4, <1>5, <1>6, <1>7 DEF Inv, Done

LEMMA FileBookKeeps ==
  ASSUME Inv, NEW r \in Rows, NEW e \in Editions[r], FileBook(r, e)
  PROVE  Done
<1> DEFINE u == Attach(Written(r, e), r, KeysOf[e])
           b == u.row[r].book
           left == {ResolveBookID(u, c) : c \in {row[r].book} \ {0}} \ {b}
<1>1. /\ source[RowSource[r]].kind = "web" /\ HasRoom(Written(r, e), r, KeysOf[e])
      /\ Commit(Resolve(u, source, {b})) /\ stale' = (stale \ {b}) \cup left
      /\ UNCHANGED <<source, owed, deleting, refused>> /\ changes' = changes + 1
  BY DEF FileBook, Change
<1>2. /\ Good(Resolve(u, source, {b}), source, owed, (stale \ {b}) \cup left)
      /\ Earning(Tables, Resolve(u, source, {b}))
  BY <1>1, Refiled
<1>3. Rest'
  BY <1>1 DEF Inv, Rest
<1> HIDE DEF u, b, left
<1> QED BY <1>1, <1>2, <1>3, Lands DEF Done

LEMMA UploadKeeps ==
  ASSUME Inv, NEW r \in Rows, NEW e \in Editions[r], Upload(r, e)
  PROVE  Done
<1> DEFINE u == Attach(Written(r, e), r, KeysOf[e])
           b == u.row[r].book
           left == {ResolveBookID(u, c) : c \in {row[r].book} \ {0}} \ {b}
<1>1. /\ source[RowSource[r]].kind = "upload" /\ row[r] = Unseen /\ HasRoom(Written(r, e), r, KeysOf[e])
      /\ Commit(Resolve(u, source, {b})) /\ stale' = stale \ {b}
      /\ UNCHANGED <<source, owed, deleting, refused>> /\ changes' = changes + 1
  BY DEF Upload, NewUpload, Change
<1>2. /\ Good(Resolve(u, source, {b}), source, owed, (stale \ {b}) \cup left)
      /\ Earning(Tables, Resolve(u, source, {b}))
  BY <1>1, Refiled
<1>3. left = {}
  BY <1>1, Blank
<1>4. Rest'
  BY <1>1 DEF Inv, Rest
<1>5. (stale \ {b}) \cup left = stale \ {b}
  BY <1>3
<1> HIDE DEF u, b, left
<1> QED BY <1>1, <1>2, <1>4, <1>5, Lands DEF Done

LEMMA RemoveUploadKeeps ==
  ASSUME Inv, NEW r \in Rows, RemoveUpload(r)
  PROVE  Done
<1> DEFINE b == row[r].book
<1>1. /\ b # 0 /\ ResolveBookID(Tables, b) = b
      /\ Commit(Resolve(Missing(r), source, {b})) /\ stale' = stale \ {b}
      /\ UNCHANGED <<source, owed, deleting, refused>> /\ changes' = changes + 1
  BY FoundTables DEF RemoveUpload, Change
<1>2. /\ Good(Resolve(Missing(r), source, {b}), source, owed, stale \ {b})
      /\ Earning(Tables, Resolve(Missing(r), source, {b}))
  BY <1>1, MissingGood
<1>3. Rest'
  BY <1>1 DEF Inv, Rest
<1> HIDE DEF b
<1> QED BY <1>1, <1>2, <1>3, Lands DEF Done

LEMMA VanishKeeps ==
  ASSUME Inv, NEW r \in Rows, NEW copied \in BOOLEAN, Vanish(r, copied)
  PROVE  Done
<1> DEFINE b == row[r].book
           s == RowSource[r]
           v == Resolve(Missing(r), source, {b})
           st2 == stale \ {b}
<1>1. b # 0
  BY DEF Vanish
<1>2. Good(v, source, owed, st2) /\ Earning(Tables, v) /\ ResolveBookID(Missing(r), b) = b
  BY <1>1, MissingGood
<1>3. /\ AfterScan(v, s, copied) /\ stale' = st2
      /\ UNCHANGED <<owed, deleting, refused>> /\ changes' = changes + 1
  BY <1>2 DEF Vanish, Change
<1>4. s \in Sources
  BY Numbers
<1> HIDE DEF v, st2, s
<1>5. Good(Tables', source', owed, st2) /\ Tables'.book = v.book
  BY <1>2, <1>3, <1>4, AfterScanGood
<1>6. Earning(Tables, Tables')
  BY <1>2, <1>5 DEF Earning, IsRoot
<1>7. Rest'
  BY <1>3 DEF Inv, Rest
<1> QED BY <1>3, <1>5, <1>6, <1>7 DEF Inv, Done
LEMMA SplitKeeps ==
  ASSUME Inv, NEW r \in Rows, Split(r)
  PROVE  Done
<1> DEFINE b == Min(Unissued(Tables))
           p == row[r].book
           h == CreateBook(Tables, b)
           x == [row[r] EXCEPT !.book = b, !.pinned = b]
           w == [h EXCEPT !.row[r].book = b, !.row[r].pinned = b]
           both == {p, b}
           v == Resolve(w, source, both)
           st2 == stale \ both
<1>1. /\ Good(Tables, source, owed, stale) /\ Tables.row = row /\ Tables.book = book /\ Tables.owner = owner
      /\ Sound(Tables) /\ stale \in SUBSET Books /\ row[r] \in RowRecords
      /\ row \in [Rows -> RowRecords] /\ book \in [Books -> BookRecords] /\ owner \in [AllKeys -> Books \cup {0}]
      /\ source \in [Sources -> SourceRecords] /\ Tables \in TableTypes /\ Leads(Tables) /\ Pins(Tables)
  BY FoundTables
<1>2. /\ row[r].pinned = 0 /\ p # 0 /\ p \in Books /\ IsRoot(Tables, p) /\ ResolveBookID(Tables, p) = p
      /\ Unissued(Tables) # {} /\ changes' = changes + 1
      /\ UNCHANGED <<source, owed, deleting, refused>>
  BY FoundTables DEF Split, Change
<1>3. Commit(v) /\ stale' = st2
  BY <1>2 DEF Split
<1>4. b \in Books /\ book[b].state = "unused"
  <2>1. Unissued(Tables) \in SUBSET Nat
    BY Numbers DEF Unissued
  <2>2. b \in Unissued(Tables)
    BY <1>2, <2>1, MinOf
  <2> QED BY <1>1, <2>2 DEF Unissued
<1>5. /\ Ready(Tables, h, b) /\ h.owner = owner /\ h.row = row
      /\ h.book = [book EXCEPT ![b] = [NoBook EXCEPT !.state = "known", !.rev = 1]]
  <2> HIDE DEF b, h
  <2>1. Tables.book[b].state = "unused"
    BY <1>1, <1>4
  <2>2. /\ Ready(Tables, CreateBook(Tables, b), b) /\ CreateBook(Tables, b).owner = Tables.owner
        /\ CreateBook(Tables, b).book = [Tables.book EXCEPT ![b] = [NoBook EXCEPT !.state = "known", !.rev = 1]]
        /\ CreateBook(Tables, b).row = Tables.row
    BY <1>1, <1>4, <2>1, CreateFits
  <2> QED BY <1>1, <2>2 DEF h
<1>6. /\ x \in RowRecords /\ x.book = b /\ x.pinned = b /\ x.edition = row[r].edition
      /\ x.missing = row[r].missing /\ x.present = row[r].present /\ x.copy = row[r].copy
  BY <1>1, <1>4 DEF RowRecords
<1>7. w = [book |-> h.book, row |-> [row EXCEPT ![r] = x], owner |-> owner]
  <2>1. h = [book |-> h.book, row |-> h.row, owner |-> h.owner]
    BY <1>5 DEF Ready, TableTypes
  <2> DEFINE g == [h EXCEPT !.row[r].book = b]
  <2>2. w = [g EXCEPT !.row[r].pinned = b]
    OBVIOUS
  <2> HIDE DEF h, b
  <2>3. g = [book |-> h.book, row |-> [row EXCEPT ![r].book = b], owner |-> owner]
    BY <1>5, <2>1
  <2> HIDE DEF g, w
  <2>4. w = [book |-> h.book, row |-> [[row EXCEPT ![r].book = b] EXCEPT ![r].pinned = b], owner |-> owner]
    BY <2>2, <2>3
  <2>5. [[row EXCEPT ![r].book = b] EXCEPT ![r].pinned = b] = [row EXCEPT ![r] = x]
    BY <1>1, <1>4 DEF RowRecords
  <2> QED BY <2>4, <2>5
<1>8. \A c \in Books \ {b} : h.book[c] = book[c] /\ (IsRoot(h, c) <=> IsRoot(Tables, c))
  <2> HIDE DEF b, h
  <2> QED BY <1>1, <1>4, <1>5 DEF IsRoot
<1> HIDE DEF b, h, x, w, v, st2
<1>9. /\ w.book = h.book /\ w.owner = owner /\ w.row[r] = x /\ \A q \in Rows \ {r} : w.row[q] = row[q]
      /\ w \in TableTypes
  <2>1. [row EXCEPT ![r] = x] \in [Rows -> RowRecords]
    BY <1>1, <1>6
  <2>2. h.book \in [Books -> BookRecords]
    BY <1>5, TableFields DEF Ready
  <2> QED BY <1>1, <1>7, <2>1, <2>2 DEF TableTypes
<1>10. \A c : IsRoot(w, c) <=> IsRoot(h, c)
  BY <1>9 DEF IsRoot
<1>11. Leads(w)
  BY <1>5, <1>6, <1>9, <1>10 DEF Ready, Leads
<1>12. (\A q \in Rows : row[q].book # b) /\ (\A k \in AllKeys : owner[k] # b)
  <2>1. b # 0 /\ ~IsRoot(Tables, b)
    BY <1>1, <1>4, Numbers DEF IsRoot
  <2>2. /\ \A q \in Rows : row[q].book # 0 => IsRoot(Tables, row[q].book)
        /\ \A k \in AllKeys : owner[k] # 0 => IsRoot(Tables, owner[k])
    BY <1>1 DEF Leads
  <2> QED BY <2>1, <2>2
<1>13. Pins(w)
  <2> SUFFICES ASSUME NEW q \in Rows, w.row[q].pinned # 0
               PROVE  /\ w.row[q].book = w.row[q].pinned
                      /\ \A k \in AllKeys : w.owner[k] # w.row[q].pinned
                      /\ \A y \in Rows \ {q} : w.row[y].book # w.row[q].pinned
    BY DEF Pins
  <2>1. CASE q = r
    BY <1>6, <1>9, <1>12, <2>1
  <2>2. CASE q # r
    <3>1. /\ row[q].book = row[q].pinned /\ \A k \in AllKeys : owner[k] # row[q].pinned
          /\ \A y \in Rows \ {q} : row[y].book # row[q].pinned
      BY <1>1, <1>9, <2>2 DEF Pins
    <3> QED BY <1>6, <1>9, <1>12, <2>2, <3>1
  <2> QED BY <2>1, <2>2
<1>14. Sound(w)
  <2>1. \A q \in Rows \ {r} : AtHome(w, q)
    BY <1>1, <1>9 DEF AtHome, Sound
  <2>2. AtHome(w, r)
    BY <1>4, <1>6, <1>9, Numbers DEF AtHome
  <2> QED BY <1>9, <1>11, <1>13, <2>1, <2>2 DEF Sound
<1>15. Kept(w, source)
  BY <1>1, <1>2, <1>6, <1>9 DEF Good, Kept
<1>16. both \in SUBSET Books /\ st2 \in SUBSET Books
  BY <1>1, <1>2, <1>4 DEF st2
<1>17. ASSUME NEW c \in Books \ (st2 \cup both), IsRoot(w, c), Free(w, owed, c) PROVE Settled(w, source, c)
  <2>1. c # b /\ c # p /\ c \notin stale /\ w.book[c] = book[c] /\ IsRoot(Tables, c)
    BY <1>8, <1>9, <1>10, <1>17 DEF st2
  <2>2. \A q \in Rows : row[q].book = c \/ w.row[q].book = c => w.row[q] = row[q]
    BY <1>6, <1>9, <2>1
  <2>3. SameRows(Tables, source, w, source, c)
    BY <1>1, <2>2, RowsAgree DEF SameRow
  <2>4. Free(Tables, owed, c)
    BY <1>1, <1>17, <2>2 DEF Free
  <2>5. Settled(Tables, source, c)
    BY <1>1, <2>1, <2>4 DEF Good, Current
  <2> QED BY <1>1, <2>1, <2>3, <2>5, StaysSettled
<1> HIDE DEF both
<1>18. Good(v, source, owed, st2)
  BY <1>1, <1>14, <1>15, <1>16, <1>17, ResolveGood DEF v
<1>19. /\ \A c \in Books : IsRoot(v, c) <=> IsRoot(w, c)
       /\ \A c \in Books : Earned(w.book[c], v.book[c])
  BY <1>1, <1>14, <1>16, ResolveFits DEF v
<1>20. Earning(Tables, v)
  <2> SUFFICES ASSUME NEW c \in Books, IsRoot(Tables, c) PROVE Earned(Tables.book[c], v.book[c])
    BY DEF Earning
  <2>1. c # b
    BY <1>1, <1>4 DEF IsRoot
  <2> QED BY <1>1, <1>8, <1>9, <1>19, <2>1
<1>21. Rest'
  BY <1>2 DEF Inv, Rest
<1> QED BY <1>2, <1>3, <1>18, <1>20, <1>21, Lands DEF Done

LEMMA RejoinKeeps ==
  ASSUME Inv, NEW r \in Rows, Rejoin(r)
  PROVE  Done
<1> DEFINE x == Unsplit(row[r])
           w == Unpinned(r)
           keys == KeysOf[row[r].edition]
           u == Attach(w, r, keys)
           p == row[r].book
           b == u.row[r].book
           both == {ResolveBookID(u, p), b}
           v == Resolve(u, source, both)
           st2 == stale \ both
<1>1. /\ Good(Tables, source, owed, stale) /\ Tables.row = row /\ Tables.book = book
      /\ Sound(Tables) /\ stale \in SUBSET Books /\ row[r] \in RowRecords /\ Pins(Tables)
  BY FoundTables
<1>2. /\ row[r].pinned # 0 /\ HasRoom(w, r, keys) /\ Commit(v) /\ stale' = st2
      /\ UNCHANGED <<source, owed, deleting, refused>> /\ changes' = changes + 1
  BY DEF Rejoin, Change
<1>3. p # 0 /\ IsRoot(Tables, p) /\ p \in Books
  <2>1. p # 0
    BY <1>1, <1>2 DEF Pins
  <2> QED BY <2>1, FoundTables
<1>4. x \in RowRecords /\ x.book = p /\ x.pinned = 0 /\ x.edition = row[r].edition
  BY <1>1, Numbers DEF RowRecords, Unsplit
<1>5. w = Saying(Tables, r, x)
  <2>1. w = Saying(Tables, r, Unsplit(Tables.row[r]))
    BY Zenon DEF Unpinned, Saying, Unsplit
  <2> QED BY <1>1, <2>1
<1>6. keys \in SUBSET AllKeys /\ KeysOf[x.edition] \subseteq keys
  BY <1>1, <1>4, KeysKnown DEF RowRecords
<1> HIDE DEF x, w, keys
<1>7. Attached(w, u, r, b) /\ w.book = Tables.book
  BY <1>1, <1>2, <1>4, <1>5, <1>6, AttachedRow
<1> HIDE DEF u
<1>8. b \in Books /\ IsRoot(w, p)
  BY <1>3, <1>7 DEF Attached, IsRoot
<1>9. ResolveBookID(u, p) = IF IsRoot(u, p) THEN p ELSE b
  BY <1>3, <1>7, <1>8, LeftKnown
<1>10. /\ both \in SUBSET Books /\ b \in both /\ st2 \in SUBSET Books /\ stale \subseteq st2 \cup both
       /\ IsRoot(u, p) => p \in both \cup st2
  BY <1>1, <1>3, <1>8, <1>9
<1> HIDE DEF both, st2
<1>11. /\ Good(Resolve(u, source, both), source, owed, st2)
       /\ \A c \in Books : IsRoot(Tables, c) /\ IsRoot(Resolve(u, source, both), c) =>
            Earned(Tables.book[c], Resolve(u, source, both).book[c])
  <2>1. source[RowSource[r]].kind = "kept" => Tables.row[r].book # 0 /\ x = Unsplit(Tables.row[r])
    BY <1>1, <1>3 DEF x
  <2> QED BY <1>1, <1>2, <1>3, <1>4, <1>5, <1>6, <1>10, <2>1, AttachGood DEF u
<1>12. Rest'
  BY <1>2 DEF Inv, Rest
<1>13. Good(v, source, owed, st2) /\ Earning(Tables, v)
  BY <1>11 DEF Earning
<1> HIDE DEF v
<1> QED BY <1>2, <1>12, <1>13, Lands DEF Done
LEMMA SetBookHiddenKeeps ==
  ASSUME Inv, NEW b \in Books, SetBookHidden(b)
  PROVE  Done
<1> DEFINE was == book[b]
           on == was.available /\ was.hidden /\ was.served.file # 0
           new == [was EXCEPT !.hidden = ~was.hidden, !.syncable = on]
           g == [book EXCEPT ![b] = new]
           u == [book |-> g, row |-> row, owner |-> owner]
<1>1. /\ Good(Tables, source, owed, stale) /\ Tables.row = row /\ Tables.book = book /\ Tables.owner = owner
      /\ Sound(Tables) /\ stale \in SUBSET Books /\ Tables \in TableTypes /\ source \in [Sources -> SourceRecords]
      /\ row \in [Rows -> RowRecords] /\ book \in [Books -> BookRecords] /\ owner \in [AllKeys -> Books \cup {0}]
  BY FoundTables
<1>2. /\ IsRoot(Tables, b) /\ book' = [book EXCEPT ![b].hidden = ~@, ![b].syncable = on]
      /\ UNCHANGED <<row, owner, source, owed, deleting, stale, refused>> /\ changes' = changes + 1
  BY DEF SetBookHidden, Change
<1>3. was \in BookRecords /\ was.into = 0 /\ on \in BOOLEAN
  BY <1>1, <1>2 DEF IsRoot
<1>4. book' = g
  <2> HIDE DEF on
  <2>1. book' = [[book EXCEPT ![b].hidden = ~was.hidden] EXCEPT ![b].syncable = on]
    BY <1>2
  <2> QED BY <1>1, <1>3, <2>1 DEF BookRecords
<1>5. /\ new \in BookRecords /\ new.state = was.state /\ new.into = was.into /\ new.override = was.override
      /\ new.served = was.served /\ new.rev = was.rev /\ new.available = was.available
      /\ new.hidden = ~was.hidden /\ new.syncable = on
  <2> HIDE DEF on, was
  <2> QED BY <1>3 DEF BookRecords
<1>6. Commit(u)
  BY <1>2, <1>4 DEF Commit
<1> HIDE DEF on, new, was
<1>7. /\ u.book = g /\ u.row = row /\ u.owner = owner /\ g[b] = new /\ \A c \in Books \ {b} : g[c] = book[c]
      /\ u \in TableTypes
  <2>1. g \in [Books -> BookRecords]
    BY <1>1, <1>5
  <2> QED BY <1>1, <1>5, <2>1 DEF TableTypes
<1> HIDE DEF u, g
<1>8. \A c \in Books : (IsRoot(u, c) <=> IsRoot(Tables, c)) /\ u.book[c].served = book[c].served /\ u.book[c].rev = book[c].rev
  BY <1>1, <1>5, <1>7 DEF IsRoot, was
<1>9. Sound(u)
  <2>1. /\ \A k \in AllKeys : owner[k] \in Books \cup {0}
        /\ \A r \in Rows : row[r].book \in Books \cup {0}
    BY <1>1, FoundTables
  <2>2. Leads(u)
    BY <1>1, <1>7, <1>8, <2>1 DEF Leads, Sound
  <2>3. Pins(u) /\ \A r \in Rows : AtHome(u, r)
    BY <1>1, <1>7 DEF Pins, AtHome, Sound
  <2> QED BY <1>7, <2>2, <2>3 DEF Sound
<1>10. Kept(u, source)
  BY <1>1, <1>7 DEF Good, Kept
<1>11. \A c \in Books : SameRows(Tables, source, u, source, c)
  BY <1>1, <1>7, RowsAgree DEF SameRow
<1>12. ASSUME NEW c \in Books \ stale, IsRoot(u, c), Free(u, owed, c) PROVE Settled(u, source, c)
  <2>1. Settled(Tables, source, c)
    BY <1>1, <1>7, <1>8, <1>12 DEF Good, Current, Free
  <2>2. CASE c # b
    BY <1>1, <1>7, <1>11, <2>1, <2>2, StaysSettled
  <2>3. CASE c = b
    <3>1. Candidates(u, source, b) = Candidates(Tables, source, b)
      BY <1>11 DEF SameRows
    <3>2. CASE Candidates(u, source, b) = {}
      <4>1. was = [was EXCEPT !.available = FALSE, !.syncable = FALSE]
        BY <1>1, <1>3, <2>1, <2>3, <3>1, <3>2 DEF Settled, Resolved, was
      <4>2. was.available = FALSE
        BY <1>3, <4>1 DEF BookRecords
      <4>3. new.syncable = FALSE /\ new.available = FALSE
        BY <1>5, <4>2 DEF on
      <4>4. Resolved(u, source, b) = [new EXCEPT !.available = FALSE, !.syncable = FALSE]
        BY <1>3, <1>5, <1>7, <3>2 DEF Resolved
      <4>5. Resolved(u, source, b) = [new EXCEPT !.available = new.available, !.syncable = new.syncable]
        BY <4>3, <4>4
      <4> QED BY <1>5, <1>7, <2>3, <4>5 DEF Settled, BookRecords
    <3>3. CASE Candidates(u, source, b) # {}
      <4> DEFINE served == Serving(Tables, source, b)
      <4>1. Serving(u, source, b) = served
        BY <1>1, <1>5, <1>7, <1>11, <3>1, <3>3, ServingAgrees DEF was
      <4> HIDE DEF served
      <4>2. was.served = served /\ was.available = TRUE
        <5>1. was = [was EXCEPT !.available = TRUE, !.syncable = ~was.hidden /\ served.file # 0,
                                !.served = served,
                                !.rev = IF was.served \notin {NotServed, served} THEN was.rev + 1 ELSE was.rev]
          BY <1>1, <1>3, <2>1, <2>3, <3>1, <3>3 DEF Settled, Resolved, was, served
        <5> QED BY <1>3, <5>1 DEF BookRecords
      <4>3. Resolved(u, source, b) = [new EXCEPT !.available = TRUE, !.syncable = ~new.hidden /\ served.file # 0,
                                !.served = served,
                                !.rev = IF new.served \notin {NotServed, served} THEN new.rev + 1 ELSE new.rev]
        BY <1>3, <1>5, <1>7, <3>3, <4>1 DEF Resolved
      <4>4. (~new.hidden /\ served.file # 0) = new.syncable
        <5>1. was.hidden \in BOOLEAN
          BY <1>3 DEF BookRecords
        <5> QED BY <1>5, <4>2, <5>1 DEF on
      <4>5. Resolved(u, source, b) = [new EXCEPT !.available = new.available, !.syncable = new.syncable,
                                                 !.served = new.served, !.rev = new.rev]
        BY <1>5, <4>2, <4>3, <4>4
      <4> QED BY <1>5, <1>7, <2>3, <4>5 DEF Settled, BookRecords
    <3> QED BY <3>2, <3>3
  <2> QED BY <2>2, <2>3
<1>13. Good(u, source, owed, stale)
  BY <1>1, <1>9, <1>10, <1>12 DEF Good, Current
<1>14. Earning(Tables, u)
  BY <1>1, <1>8 DEF Earning, Earned
<1>15. Rest'
  BY <1>2 DEF Inv, Rest
<1> QED BY <1>2, <1>6, <1>13, <1>14, <1>15, Lands DEF Done
LEMMA BooksAlikeSound ==
  ASSUME NEW t, Sound(t), NEW u \in TableTypes, u.row = t.row, u.owner = t.owner,
         \A c \in Books : IsRoot(t, c) => IsRoot(u, c)
  PROVE  Sound(u)
<1>1. /\ \A k \in AllKeys : t.owner[k] \in Books \cup {0}
      /\ \A r \in Rows : t.row[r].book \in Books \cup {0}
  BY TableFields DEF Sound
<1>2. Leads(u)
  BY <1>1 DEF Leads, Sound
<1>3. Pins(u) /\ \A r \in Rows : AtHome(u, r)
  BY DEF Pins, AtHome, Sound
<1> QED BY <1>2, <1>3 DEF Sound

LEMMA SetSeriesKeeps ==
  ASSUME Inv, NEW b \in Books, NEW chosen \in SUBSET Series, NEW resolved \in BOOLEAN,
         SetSeries(b, chosen, resolved)
  PROVE  Done
<1> DEFINE new == [book[b] EXCEPT !.override = chosen]
           g == [book EXCEPT ![b] = new]
           w == [Tables EXCEPT !.book[b].override = chosen]
<1>1. /\ Good(Tables, source, owed, stale) /\ Tables.row = row /\ Tables.book = book /\ Tables.owner = owner
      /\ Sound(Tables) /\ stale \in SUBSET Books /\ Tables \in TableTypes /\ source \in [Sources -> SourceRecords]
      /\ row \in [Rows -> RowRecords] /\ book \in [Books -> BookRecords] /\ owner \in [AllKeys -> Books \cup {0}]
  BY FoundTables
<1>2. /\ Commit(IF resolved THEN Resolve(w, source, {b}) ELSE w)
      /\ stale' = IF resolved THEN stale \ {b} ELSE stale \cup {b}
      /\ UNCHANGED <<source, owed, deleting, refused>> /\ changes' = changes + 1
  BY DEF SetSeries, Change
<1>3. /\ new \in BookRecords /\ new.state = book[b].state /\ new.into = book[b].into
      /\ new.served = book[b].served /\ new.rev = book[b].rev
  BY <1>1 DEF BookRecords
<1>4. w = [book |-> g, row |-> row, owner |-> owner]
  BY DEF Tables
<1> HIDE DEF new, w
<1>5. /\ w.book = g /\ w.row = row /\ w.owner = owner /\ g[b] = new /\ \A c \in Books \ {b} : g[c] = book[c]
      /\ w \in TableTypes
  <2>1. g \in [Books -> BookRecords]
    BY <1>1, <1>3
  <2> QED BY <1>1, <1>3, <1>4, <2>1 DEF TableTypes
<1> HIDE DEF g
<1>6. \A c \in Books : (IsRoot(w, c) <=> IsRoot(Tables, c)) /\ w.book[c].served = book[c].served /\ w.book[c].rev = book[c].rev
  BY <1>1, <1>3, <1>5 DEF IsRoot
<1>7. Sound(w)
  BY <1>1, <1>5, <1>6, BooksAlikeSound
<1>8. Kept(w, source)
  BY <1>1, <1>5 DEF Good, Kept
<1>9. ASSUME NEW c \in Books \ (stale \cup {b}), IsRoot(w, c), Free(w, owed, c) PROVE Settled(w, source, c)
  <2>1. Settled(Tables, source, c)
    BY <1>1, <1>5, <1>6, <1>9 DEF Good, Current, Free
  <2>2. SameRows(Tables, source, w, source, c)
    BY <1>1, <1>5, RowsAgree DEF SameRow
  <2> QED BY <1>1, <1>5, <1>9, <2>1, <2>2, StaysSettled
<1>10. Earning(Tables, w)
  BY <1>1, <1>6 DEF Earning, Earned
<1>11. Rest'
  BY <1>2 DEF Inv, Rest
<1>12. CASE resolved
  <2> DEFINE bs == {b}
             st2 == stale \ {b}
  <2>1. /\ bs \in SUBSET Books /\ st2 \in SUBSET Books
        /\ \A c \in Books \ (st2 \cup bs) : IsRoot(w, c) /\ Free(w, owed, c) => Settled(w, source, c)
    BY <1>1, <1>9
  <2>2. Commit(Resolve(w, source, bs)) /\ stale' = st2
    BY <1>2, <1>12
  <2> HIDE DEF bs, st2
  <2>3. Good(Resolve(w, source, bs), source, owed, st2)
    BY <1>1, <1>7, <1>8, <2>1, ResolveGood
  <2>4. /\ \A c \in Books : IsRoot(Resolve(w, source, bs), c) <=> IsRoot(w, c)
        /\ \A c \in Books : Earned(w.book[c], Resolve(w, source, bs).book[c])
    BY <1>1, <1>7, <2>1, ResolveFits
  <2>5. Earning(Tables, Resolve(w, source, bs))
    BY <1>1, <1>6, <2>4 DEF Earning, Earned
  <2> QED BY <1>2, <1>11, <2>2, <2>3, <2>5, Lands DEF Done
<1>13. CASE ~resolved
  <2>1. Good(w, source, owed, stale \cup {b})
    BY <1>1, <1>7, <1>8, <1>9 DEF Good, Current
  <2>2. Commit(w) /\ stale' = stale \cup {b}
    BY <1>2, <1>13
  <2> QED BY <1>2, <1>10, <1>11, <2>1, <2>2, Lands DEF Done
<1> QED BY <1>12, <1>13

LEMMA PurgeBookKeeps ==
  ASSUME Inv, NEW b \in Books, PurgeBook(b)
  PROVE  Done
<1>1. /\ Good(Tables, source, owed, stale) /\ Tables.row = row /\ Tables.book = book /\ Tables.owner = owner
      /\ Sound(Tables) /\ stale \in SUBSET Books /\ Tables \in TableTypes /\ source \in [Sources -> SourceRecords]
      /\ row \in [Rows -> RowRecords] /\ book \in [Books -> BookRecords] /\ owner \in [AllKeys -> Books \cup {0}]
      /\ Leads(Tables) /\ Pins(Tables)
  BY FoundTables
<1>2. /\ IsRoot(Tables, b) /\ UNCHANGED <<source, owed, deleting, stale>> /\ changes' = changes + 1
  BY DEF PurgeBook, Change
<1>3. CASE Aliases(b) = {}
  <2> DEFINE new == [NoBook EXCEPT !.state = "purged"]
             g == [book EXCEPT ![b] = new]
             h == [r \in Rows |-> IF row[r].book = b THEN Unseen ELSE row[r]]
             o == [k \in AllKeys |-> IF owner[k] = b THEN 0 ELSE owner[k]]
             u == [book |-> g, row |-> h, owner |-> o]
  <2>1. Commit(u) /\ UNCHANGED refused
    BY <1>3 DEF PurgeBook, PurgeRows, Commit
  <2>2. new \in BookRecords /\ new.state = "purged"
    BY Blank DEF BookRecords
  <2>3. /\ u.book = g /\ g[b] = new /\ \A c \in Books \ {b} : g[c] = book[c]
        /\ u.row = h /\ \A r \in Rows : h[r] = IF row[r].book = b THEN Unseen ELSE row[r]
        /\ u.owner = o /\ \A k \in AllKeys : o[k] = IF owner[k] = b THEN 0 ELSE owner[k]
        /\ u \in TableTypes
    <3> HIDE DEF new
    <3>1. g \in [Books -> BookRecords]
      BY <1>1, <2>2
    <3>2. h \in [Rows -> RowRecords]
      BY <1>1, Blank
    <3>3. o \in [AllKeys -> Books \cup {0}]
      BY <1>1
    <3>4. u \in TableTypes
      <4> HIDE DEF g, h, o
      <4> QED BY <3>1, <3>2, <3>3 DEF TableTypes
    <3> QED BY <1>1, <3>4
  <2> HIDE DEF g, h, o, u, new
  <2>4. ~IsRoot(u, b) /\ \A c \in Books \ {b} : IsRoot(u, c) <=> IsRoot(Tables, c)
    BY <1>1, <2>2, <2>3 DEF IsRoot
  <2>5. Leads(u)
    <3>1. /\ \A k \in AllKeys : owner[k] \in Books \cup {0}
          /\ \A r \in Rows : row[r].book \in Books \cup {0}
      BY <1>1, FoundTables
    <3>2. ASSUME NEW k \in AllKeys, u.owner[k] # 0 PROVE IsRoot(u, u.owner[k])
      BY <1>1, <2>3, <2>4, <3>1, <3>2 DEF Leads
    <3>3. ASSUME NEW r \in Rows, u.row[r].book # 0 PROVE IsRoot(u, u.row[r].book)
      BY <1>1, <2>3, <2>4, <3>1, <3>3, Blank DEF Leads
    <3> QED BY <3>2, <3>3 DEF Leads
  <2>6. Pins(u)
    <3> SUFFICES ASSUME NEW q \in Rows, u.row[q].pinned # 0
                 PROVE  /\ u.row[q].book = u.row[q].pinned
                        /\ \A k \in AllKeys : u.owner[k] # u.row[q].pinned
                        /\ \A y \in Rows \ {q} : u.row[y].book # u.row[q].pinned
      BY DEF Pins
    <3>1. u.row[q] = row[q]
      BY <2>3, Blank
    <3>2. /\ row[q].book = row[q].pinned /\ \A k \in AllKeys : owner[k] # row[q].pinned
          /\ \A y \in Rows \ {q} : row[y].book # row[q].pinned
      BY <1>1, <3>1 DEF Pins
    <3>3. \A k \in AllKeys : u.owner[k] # row[q].pinned
      BY <2>3, <3>1, <3>2
    <3>4. \A y \in Rows \ {q} : u.row[y].book # row[q].pinned
      BY <2>3, <3>1, <3>2, Blank
    <3> QED BY <3>1, <3>2, <3>3, <3>4
  <2>7. ASSUME NEW r \in Rows PROVE AtHome(u, r)
    <3>1. CASE row[r].book = b
      BY <2>3, <3>1, Blank DEF AtHome
    <3>2. CASE row[r].book # b
      <4>1. u.row[r] = row[r] /\ AtHome(Tables, r)
        BY <1>1, <2>3, <3>2 DEF Sound
      <4>2. \A k \in KeysOf[row[r].edition] : k \in AllKeys
        BY <1>1, TableFields, KeysKnown
      <4>3. ASSUME row[r].book # 0, row[r].pinned = 0, NEW k \in KeysOf[row[r].edition]
            PROVE  u.owner[k] = row[r].book
        <5>1. k \in AllKeys /\ owner[k] = row[r].book
          BY <1>1, <4>1, <4>2, <4>3 DEF AtHome
        <5> QED BY <2>3, <3>2, <5>1
      <4> QED BY <4>1, <4>3 DEF AtHome
    <3> QED BY <3>1, <3>2
  <2>8. Kept(u, source)
    BY <1>1, <2>3, Blank DEF Good, Kept
  <2>9. ASSUME NEW c \in Books \ stale, IsRoot(u, c), Free(u, owed, c) PROVE Settled(u, source, c)
    <3>1. c # b /\ IsRoot(Tables, c) /\ u.book[c] = book[c]
      BY <2>3, <2>4, <2>9
    <3>2. \A q \in Rows : row[q].book = c \/ u.row[q].book = c => u.row[q] = row[q]
      BY <2>3, <3>1, Blank, Numbers
    <3>3. SameRows(Tables, source, u, source, c)
      BY <1>1, <3>2, RowsAgree DEF SameRow
    <3>4. Free(Tables, owed, c)
      BY <1>1, <2>9, <3>2 DEF Free
    <3>5. Settled(Tables, source, c)
      BY <1>1, <3>1, <3>4 DEF Good, Current
    <3> QED BY <1>1, <3>1, <3>3, <3>5, StaysSettled
  <2>10. Good(u, source, owed, stale)
    BY <1>1, <2>3, <2>5, <2>6, <2>7, <2>8, <2>9 DEF Good, Sound, Current
  <2>11. Earning(Tables, u)
    BY <1>1, <2>3, <2>4 DEF Earning, Earned
  <2>12. Rest'
    BY <1>2, <2>1 DEF Inv, Rest
  <2> QED BY <1>2, <2>1, <2>10, <2>11, <2>12, Lands DEF Done
<1>4. CASE Aliases(b) # {}
  <2>1. refused' = refused \cup {b} /\ UNCHANGED <<book, row, owner>>
    BY <1>4 DEF PurgeBook
  <2>2. Commit(Tables) /\ Earning(Tables, Tables)
    BY <1>1, <2>1 DEF Commit, Earning, Earned
  <2>3. Rest'
    BY <1>2, <2>1 DEF Inv, Rest
  <2> QED BY <1>1, <1>2, <2>2, <2>3, Lands DEF Done
<1> QED BY <1>3, <1>4
(* The libraries change, and the tables do not.                             *)
LEMMA SourceGood ==
  ASSUME NEW t, NEW src, NEW owe, NEW st, Good(t, src, owe, st),
         NEW dst \in [Sources -> SourceRecords], Kept(t, dst), NEW owe2,
         NEW st2 \in SUBSET Books, st \subseteq st2,
         \A c \in Books \ st2 : Free(t, owe2, c) =>
           /\ Free(t, owe, c)
           /\ \A q \in Rows : t.row[q].book = c /\ ~t.row[q].missing =>
                /\ dst[RowSource[q]].enabled = src[RowSource[q]].enabled
                /\ dst[RowSource[q]].priority = src[RowSource[q]].priority
  PROVE  Good(t, dst, owe2, st2)
<1>1. ASSUME NEW c \in Books \ st2, IsRoot(t, c), Free(t, owe2, c) PROVE Settled(t, dst, c)
  <2>1. Settled(t, src, c)
    BY <1>1 DEF Good, Current
  <2>2. SameRows(t, src, t, dst, c)
    BY <1>1, RowsAgree DEF SameRow
  <2> QED BY <1>1, <2>1, <2>2, StaysSettled DEF Good, Sound
<1> QED BY <1>1 DEF Good, Current

LEMMA TablesStay ==
  ASSUME Inv, UNCHANGED <<book, row, owner>>, Good(Tables, source', owed', stale'), Rest'
  PROVE  Done
<1>1. Commit(Tables) /\ Earning(Tables, Tables)
  BY FoundTables DEF Commit, Earning, Earned
<1> QED BY <1>1, Lands DEF Done

LEMMA Touched ==
  ASSUME Inv, NEW s \in Sources
  PROVE  /\ BooksTouchedBySource(s) \in SUBSET Books
         /\ \A r \in Rows : RowSource[r] = s /\ row[r].book # 0 => row[r].book \in BooksTouchedBySource(s)
<1>1. BooksTouchedBySource(s) = {row[r].book : r \in {q \in Rows : RowSource[q] = s /\ row[q].book # 0}}
  BY FoundTables DEF BooksTouchedBySource
<1> QED BY <1>1, FoundTables

LEMMA ResolveSourceKeeps ==
  ASSUME Inv, NEW s \in Sources, NEW why \in {"edit", "delete"}, ResolveSource(s, why)
  PROVE  Done
<1> DEFINE bs == BooksTouchedBySource(s)
           v == Resolve(Tables, source, bs)
           st2 == stale \ bs
<1>1. /\ Good(Tables, source, owed, stale) /\ Sound(Tables) /\ stale \in SUBSET Books /\ Tables.row = row
      /\ source \in [Sources -> SourceRecords] /\ Kept(Tables, source)
  BY FoundTables DEF Good
<1>2. /\ owed' = owed \ {<<s, why>>} /\ Commit(v) /\ stale' = st2
      /\ UNCHANGED <<source, deleting, refused, changes>>
  BY DEF ResolveSource
<1>3. bs \in SUBSET Books /\ \A r \in Rows : RowSource[r] = s /\ row[r].book # 0 => row[r].book \in bs
  BY Touched
<1> HIDE DEF bs
<1>4. st2 \in SUBSET Books
  BY <1>1
<1>5. ASSUME NEW c \in Books \ (st2 \cup bs), IsRoot(Tables, c), Free(Tables, owed', c)
      PROVE  Settled(Tables, source, c)
  <2>1. \A q \in Rows : row[q].book = c => RowSource[q] # s
    BY <1>3, <1>5, Numbers
  <2>2. Free(Tables, owed, c)
    BY <1>1, <1>2, <1>5, <2>1 DEF Free
  <2> QED BY <1>1, <1>5, <2>2 DEF Good, Current
<1>6. Good(v, source, owed', st2)
  <2> HIDE DEF st2
  <2> QED BY <1>1, <1>3, <1>4, <1>5, ResolveGood
<1>7. Earning(Tables, v)
  BY <1>1, <1>3, ResolveFits DEF Earning
<1>8. Rest'
  BY <1>2 DEF Inv, Rest
<1> HIDE DEF v, st2
<1> QED BY <1>2, <1>6, <1>7, <1>8, Lands DEF Done

LEMMA ResolveSourceFailsKeeps ==
  ASSUME Inv, NEW s \in Sources, NEW why \in {"edit", "delete"}, ResolveSourceFails(s, why)
  PROVE  Done
<1> DEFINE bs == BooksTouchedBySource(s)
           st2 == stale \cup bs
<1>1. /\ Good(Tables, source, owed, stale) /\ stale \in SUBSET Books /\ Tables.row = row
      /\ source \in [Sources -> SourceRecords] /\ Kept(Tables, source)
  BY FoundTables DEF Good
<1>2. /\ owed' = owed \ {<<s, why>>} /\ stale' = st2 /\ UNCHANGED <<book, row, owner, source, refused>>
      /\ deleting' = (IF why = "delete" THEN [deleting EXCEPT ![s] = "no"] ELSE deleting)
      /\ changes' = changes + 1
  BY DEF ResolveSourceFails, Change
<1>3. bs \in SUBSET Books /\ \A r \in Rows : RowSource[r] = s /\ row[r].book # 0 => row[r].book \in bs
  BY Touched
<1> HIDE DEF bs
<1>4. ASSUME NEW c \in Books \ st2, Free(Tables, owed', c) PROVE Free(Tables, owed, c)
  <2>1. \A q \in Rows : row[q].book = c => RowSource[q] # s
    BY <1>3, <1>4, Numbers
  <2> QED BY <1>1, <1>2, <1>4, <2>1 DEF Free
<1>5. Good(Tables, source, owed', st2)
  BY <1>1, <1>3, <1>4, SourceGood
<1>6. Rest'
  BY <1>2 DEF Inv, Rest
<1> QED BY <1>2, <1>5, <1>6, TablesStay

LEMMA SetSourceEnabledKeeps ==
  ASSUME Inv, NEW s \in Sources, NEW on \in BOOLEAN, SetSourceEnabled(s, on)
  PROVE  Done
<1>1. /\ Good(Tables, source, owed, stale) /\ stale \in SUBSET Books
      /\ source \in [Sources -> SourceRecords] /\ source[s] \in SourceRecords /\ Kept(Tables, source)
  BY FoundTables DEF Good
<1>2. /\ source' = [source EXCEPT ![s].enabled = on] /\ owed' = owed \cup {<<s, "edit">>}
      /\ UNCHANGED <<book, row, owner, deleting, stale, refused>> /\ changes' = changes + 1
  BY DEF SetSourceEnabled, Change
<1>3. /\ source' \in [Sources -> SourceRecords] /\ \A x \in Sources \ {s} : source'[x] = source[x]
      /\ source'[s].kind = source[s].kind
  BY <1>1, <1>2 DEF SourceRecords
<1>4. Kept(Tables, source')
  BY <1>1, <1>3, Numbers DEF Kept
<1>5. ASSUME NEW c \in Books \ stale, Free(Tables, owed', c)
      PROVE  /\ Free(Tables, owed, c)
             /\ \A q \in Rows : Tables.row[q].book = c /\ ~Tables.row[q].missing =>
                  /\ source'[RowSource[q]].enabled = source[RowSource[q]].enabled
                  /\ source'[RowSource[q]].priority = source[RowSource[q]].priority
  <2>1. \A q \in Rows : Tables.row[q].book = c /\ ~Tables.row[q].missing => RowSource[q] # s
    <3>1. <<s, "edit">> \in owed' /\ <<s, "edit">>[1] = s
      BY <1>2
    <3> QED BY <1>5, <3>1 DEF Free
  <2>2. Free(Tables, owed, c)
    BY <1>2, <1>5 DEF Free
  <2> QED BY <1>3, <2>1, <2>2, Numbers
<1>6. Good(Tables, source', owed', stale)
  BY <1>1, <1>3, <1>4, <1>5, SourceGood
<1>7. Rest'
  BY <1>2 DEF Inv, Rest
<1> QED BY <1>2, <1>6, <1>7, TablesStay

LEMMA EditSourceKeeps ==
  ASSUME Inv, NEW s \in Sources, NEW priority \in Nat, EditSource(s, priority)
  PROVE  Done
<1>1. /\ Good(Tables, source, owed, stale) /\ stale \in SUBSET Books
      /\ source \in [Sources -> SourceRecords] /\ source[s] \in SourceRecords /\ Kept(Tables, source)
  BY FoundTables DEF Good
<1>2. /\ source' = [source EXCEPT ![s].priority = priority] /\ owed' = owed \cup {<<s, "edit">>}
      /\ UNCHANGED <<book, row, owner, deleting, stale, refused>> /\ changes' = changes + 1
  BY DEF EditSource, Change
<1>3. /\ source' \in [Sources -> SourceRecords] /\ \A x \in Sources \ {s} : source'[x] = source[x]
      /\ source'[s].kind = source[s].kind
  BY <1>1, <1>2 DEF SourceRecords
<1>4. Kept(Tables, source')
  BY <1>1, <1>3, Numbers DEF Kept
<1>5. ASSUME NEW c \in Books \ stale, Free(Tables, owed', c)
      PROVE  /\ Free(Tables, owed, c)
             /\ \A q \in Rows : Tables.row[q].book = c /\ ~Tables.row[q].missing =>
                  /\ source'[RowSource[q]].enabled = source[RowSource[q]].enabled
                  /\ source'[RowSource[q]].priority = source[RowSource[q]].priority
  <2>1. \A q \in Rows : Tables.row[q].book = c /\ ~Tables.row[q].missing => RowSource[q] # s
    <3>1. <<s, "edit">> \in owed' /\ <<s, "edit">>[1] = s
      BY <1>2
    <3> QED BY <1>5, <3>1 DEF Free
  <2>2. Free(Tables, owed, c)
    BY <1>2, <1>5 DEF Free
  <2> QED BY <1>3, <2>1, <2>2, Numbers
<1>6. Good(Tables, source', owed', stale)
  BY <1>1, <1>3, <1>4, <1>5, SourceGood
<1>7. Rest'
  BY <1>2 DEF Inv, Rest
<1> QED BY <1>2, <1>6, <1>7, TablesStay

LEMMA RestartKeeps ==
  ASSUME Inv, Restart
  PROVE  Done
<1> DEFINE bs == UNION {BooksTouchedBySource(o[1]) : o \in owed}
<1>1. /\ Good(Tables, source, owed, stale) /\ stale \in SUBSET Books /\ Tables.row = row
      /\ source \in [Sources -> SourceRecords] /\ Kept(Tables, source)
  BY FoundTables DEF Good
<1>2. /\ stale' = stale \cup bs /\ owed' = {} /\ deleting' = [s \in Sources |-> "no"]
      /\ UNCHANGED <<book, row, owner, source, refused>> /\ changes' = changes + 1
  BY DEF Restart, Change
<1>3. \A o \in owed : o[1] \in Sources
  BY DEF Inv, Rest
<1>4. bs \in SUBSET Books
  BY <1>3, Touched
<1>5. ASSUME NEW c \in Books \ (stale \cup bs) PROVE Free(Tables, owed, c)
  <2> SUFFICES ASSUME NEW q \in Rows, row[q].book = c, NEW o \in owed, o[1] = RowSource[q] PROVE FALSE
    BY <1>1 DEF Free
  <2>1. c \in BooksTouchedBySource(o[1])
    BY <1>3, Touched, Numbers
  <2> QED BY <1>5, <2>1
<1> HIDE DEF bs
<1>6. Good(Tables, source, owed', stale \cup bs)
  BY <1>1, <1>4, <1>5, SourceGood
<1>7. Rest'
  BY <1>2 DEF Inv, Rest
<1> QED BY <1>2, <1>6, <1>7, TablesStay

LEMMA UpgradeKeeps ==
  ASSUME Inv, NEW found \in SUBSET Rows, Upgrade(found)
  PROVE  Done
<1> DEFINE h == [r \in Rows |-> IF r \in found THEN [row[r] EXCEPT !.cover = TRUE] ELSE row[r]]
           w == [Tables EXCEPT !.row = h]
           bs == {b \in Books : IsRoot(w, b)}
           v == Resolve(w, source, bs)
<1>1. /\ Good(Tables, source, owed, stale) /\ Tables.row = row /\ Tables.book = book /\ Tables.owner = owner
      /\ Sound(Tables) /\ Tables \in TableTypes /\ source \in [Sources -> SourceRecords]
      /\ row \in [Rows -> RowRecords] /\ book \in [Books -> BookRecords] /\ owner \in [AllKeys -> Books \cup {0}]
  BY FoundTables
<1>2. /\ Commit(v) /\ stale' = {} /\ owed' = {} /\ deleting' = [s \in Sources |-> "no"]
      /\ UNCHANGED <<source, refused>> /\ changes' = changes + 1
  BY DEF Upgrade, Change
<1>3. \A r \in Rows : /\ h[r] \in RowRecords /\ h[r].book = row[r].book /\ h[r].pinned = row[r].pinned
                      /\ h[r].edition = row[r].edition /\ h[r].missing = row[r].missing
                      /\ h[r].present = row[r].present /\ h[r].copy = row[r].copy
  <2> TAKE r \in Rows
  <2>1. CASE r \in found
    <3>1. h[r] = [row[r] EXCEPT !.cover = TRUE] /\ row[r] \in RowRecords
      BY <1>1, <2>1
    <3> HIDE DEF h
    <3> QED BY <3>1 DEF RowRecords
  <2>2. CASE r \notin found
    BY <1>1, <2>2
  <2> QED BY <2>1, <2>2
<1>4. h \in [Rows -> RowRecords]
  BY <1>3
<1>5. w = [book |-> book, row |-> h, owner |-> owner]
  <2> HIDE DEF h
  <2> QED BY DEF Tables
<1> HIDE DEF h, w
<1>6. w.book = book /\ w.row = h /\ w.owner = owner /\ w \in TableTypes
  BY <1>1, <1>4, <1>5 DEF TableTypes
<1>7. Sound(w)
  BY <1>1, <1>3, <1>6, AlikeSound
<1>8. Kept(w, source)
  BY <1>1, <1>3, <1>6 DEF Good, Kept
<1>9. bs \in SUBSET Books /\ {} \in SUBSET Books /\ \A c \in Books \ ({} \cup bs) : ~IsRoot(w, c)
  OBVIOUS
<1> HIDE DEF bs
<1>10. Good(v, source, {}, {})
  BY <1>1, <1>7, <1>8, <1>9, ResolveGood
<1>11. /\ \A c \in Books : IsRoot(v, c) <=> IsRoot(w, c)
       /\ \A c \in Books : Earned(w.book[c], v.book[c])
  BY <1>1, <1>7, <1>9, ResolveFits
<1>12. Earning(Tables, v)
  BY <1>1, <1>6, <1>11 DEF Earning
<1>13. Rest'
  BY <1>2 DEF Inv, Rest
<1> HIDE DEF v
<1> QED BY <1>2, <1>10, <1>12, <1>13, Lands DEF Done
(* KeepBooksOf, and the library that is only turned off.                    *)
LEMMA KeepKeeps ==
  ASSUME Inv, NEW s \in Sources, NEW rs \in SUBSET Rows, Keep(s, rs), UNCHANGED <<stale, refused>>,
         changes' = changes + 1
  PROVE  Done
<1> DEFINE t == CopySome(s, rs)
           lost == Absent(t, s)
           h == [r \in Rows |-> IF r \in lost THEN [t.row[r] EXCEPT !.present = FALSE] ELSE t.row[r]]
           u == [t EXCEPT !.row = h]
<1>1. /\ Good(Tables, source, owed, stale) /\ Tables.row = row /\ Tables.book = book
      /\ source \in [Sources -> SourceRecords] /\ source[s] \in SourceRecords
  BY FoundTables
<1>2. /\ Commit(u) /\ source' = [source EXCEPT ![s].kind = "kept", ![s].own = TRUE]
      /\ owed' = owed \cup {<<s, "edit">>} /\ UNCHANGED <<deleting, stale, refused>> /\ changes' = changes + 1
  BY DEF Keep
<1>3. t = Copied(Tables, rs)
  BY <1>1 DEF CopySome, Copied
<1> HIDE DEF t
<1>4. Good(t, source, owed, stale) /\ t.book = book
  BY <1>1, <1>3, CopyGood
<1>5. /\ t \in TableTypes /\ Sound(t) /\ t = [book |-> t.book, row |-> t.row, owner |-> t.owner]
      /\ stale \in SUBSET Books
  BY <1>4 DEF Good, Sound, TableTypes
<1>6. /\ t.book \in [Books -> BookRecords] /\ t.row \in [Rows -> RowRecords] /\ t.owner \in [AllKeys -> Books \cup {0}]
  BY <1>5, TableFields
<1>7. /\ \A r \in lost : r \in Rows /\ RowSource[r] = s
      /\ \A r \in Rows \ lost : RowSource[r] = s /\ t.row[r].book # 0 /\ ~t.row[r].missing /\ t.row[r].present
           => t.row[r].copy
  BY DEF Absent, SourceFiles
<1> HIDE DEF lost
<1>8. /\ \A r \in lost : /\ h[r] \in RowRecords /\ h[r].book = t.row[r].book /\ h[r].pinned = t.row[r].pinned
                         /\ h[r].edition = t.row[r].edition /\ h[r].missing = t.row[r].missing /\ ~h[r].present
      /\ \A r \in Rows \ lost : h[r] = t.row[r]
  <2>1. ASSUME NEW r \in lost
        PROVE  /\ h[r] \in RowRecords /\ h[r].book = t.row[r].book /\ h[r].pinned = t.row[r].pinned
               /\ h[r].edition = t.row[r].edition /\ h[r].missing = t.row[r].missing /\ ~h[r].present
    <3>1. h[r] = [t.row[r] EXCEPT !.present = FALSE] /\ t.row[r] \in RowRecords
      BY <1>6, <1>7
    <3> HIDE DEF h
    <3> QED BY <3>1 DEF RowRecords
  <2> QED BY <2>1
<1>9. h \in [Rows -> RowRecords]
  BY <1>6, <1>8
<1>10. u.book = t.book /\ u.row = h /\ u.owner = t.owner /\ u \in TableTypes
  <2> HIDE DEF h
  <2>1. u = [book |-> t.book, row |-> h, owner |-> t.owner]
    BY <1>5
  <2> QED BY <1>6, <1>9, <2>1 DEF TableTypes
<1> HIDE DEF h, u
<1>11. Sound(u)
  <2>1. \A q \in Rows : /\ u.row[q].book = t.row[q].book /\ u.row[q].pinned = t.row[q].pinned
                        /\ u.row[q].edition = t.row[q].edition
    BY <1>8, <1>10
  <2> QED BY <1>5, <1>10, <2>1, AlikeSound
<1>12. /\ source' \in [Sources -> SourceRecords] /\ \A x \in Sources \ {s} : source'[x] = source[x]
  <2>1. [[source[s] EXCEPT !.kind = "kept"] EXCEPT !.own = TRUE] \in SourceRecords
    BY <1>1 DEF SourceRecords
  <2>2. source' = [source EXCEPT ![s] = [[source[s] EXCEPT !.kind = "kept"] EXCEPT !.own = TRUE]]
    BY <1>1, <1>2
  <2> QED BY <1>1, <2>1, <2>2
<1>13. Kept(u, source')
  <2> SUFFICES ASSUME NEW q \in Rows, source'[RowSource[q]].kind = "kept", u.row[q].book # 0,
                      ~u.row[q].missing, u.row[q].present
               PROVE  u.row[q].copy
    BY DEF Kept
  <2>1. q \notin lost /\ u.row[q] = t.row[q]
    BY <1>8, <1>10
  <2>2. CASE RowSource[q] = s
    BY <1>7, <2>1, <2>2
  <2>3. CASE RowSource[q] # s
    BY <1>4, <1>12, <2>1, <2>3, Numbers DEF Good, Kept
  <2> QED BY <2>2, <2>3
<1>14. ASSUME NEW c \in Books \ stale, IsRoot(u, c), Free(u, owed', c) PROVE Settled(u, source', c)
  <2>1. \A q \in Rows : u.row[q].book = c /\ ~u.row[q].missing => RowSource[q] # s
    <3>1. <<s, "edit">> \in owed' /\ <<s, "edit">>[1] = s
      BY <1>2
    <3> QED BY <1>14, <3>1 DEF Free
  <2>2. \A q \in Rows : /\ u.row[q].book = t.row[q].book /\ u.row[q].missing = t.row[q].missing
                        /\ (RowSource[q] # s => u.row[q] = t.row[q])
    BY <1>7, <1>8, <1>10
  <2>3. Free(t, owed, c) /\ IsRoot(t, c)
    BY <1>2, <1>10, <1>14, <2>2 DEF Free, IsRoot
  <2>4. SameRows(t, source, u, source', c)
    <3>1. \A q \in Rows : (t.row[q].book = c /\ ~t.row[q].missing) \/ (u.row[q].book = c /\ ~u.row[q].missing) =>
           /\ SameRow(t.row[q], u.row[q])
           /\ source'[RowSource[q]].enabled = source[RowSource[q]].enabled
           /\ source'[RowSource[q]].priority = source[RowSource[q]].priority
      BY <1>12, <2>1, <2>2, Numbers DEF SameRow
    <3> QED BY <3>1, RowsAgree
  <2>5. Settled(t, source, c)
    BY <1>4, <1>14, <2>3 DEF Good, Current
  <2> QED BY <1>1, <1>5, <1>10, <2>4, <2>5, StaysSettled
<1>15. Good(u, source', owed', stale)
  BY <1>5, <1>11, <1>12, <1>13, <1>14 DEF Good, Current
<1>16. Earning(Tables, u)
  BY <1>1, <1>4, <1>10 DEF Earning, Earned
<1>17. Rest'
  BY <1>2 DEF Inv, Rest
<1> QED BY <1>2, <1>15, <1>16, <1>17, Lands DEF Done

LEMMA HandleDeleteSourceKeeps ==
  ASSUME Inv, NEW s \in Sources, NEW rs \in SUBSET Rows, HandleDeleteSource(s, rs)
  PROVE  Done
<1>1. UNCHANGED <<stale, refused>> /\ changes' = changes + 1
  BY DEF HandleDeleteSource, Change
<1>2. CASE Keep(s, rs)
  BY <1>1, <1>2, KeepKeeps
<1>3. CASE /\ source' = [source EXCEPT ![s].enabled = FALSE] /\ owed' = owed \cup {<<s, "delete">>}
           /\ deleting' = [deleting EXCEPT ![s] = "disabled"] /\ UNCHANGED <<book, row, owner>>
  <2>1. /\ Good(Tables, source, owed, stale) /\ stale \in SUBSET Books
        /\ source \in [Sources -> SourceRecords] /\ source[s] \in SourceRecords /\ Kept(Tables, source)
    BY FoundTables DEF Good
  <2>2. /\ source' \in [Sources -> SourceRecords] /\ \A x \in Sources \ {s} : source'[x] = source[x]
        /\ source'[s].kind = source[s].kind
    BY <1>3, <2>1 DEF SourceRecords
  <2>3. Kept(Tables, source')
    BY <2>1, <2>2, Numbers DEF Kept
  <2>4. ASSUME NEW c \in Books \ stale, Free(Tables, owed', c)
        PROVE  /\ Free(Tables, owed, c)
               /\ \A q \in Rows : Tables.row[q].book = c /\ ~Tables.row[q].missing =>
                    /\ source'[RowSource[q]].enabled = source[RowSource[q]].enabled
                    /\ source'[RowSource[q]].priority = source[RowSource[q]].priority
    <3>1. \A q \in Rows : Tables.row[q].book = c /\ ~Tables.row[q].missing => RowSource[q] # s
      <4>1. <<s, "delete">> \in owed' /\ <<s, "delete">>[1] = s
        BY <1>3
      <4> QED BY <2>4, <4>1 DEF Free
    <3>2. Free(Tables, owed, c)
      BY <1>3, <2>4 DEF Free
    <3> QED BY <2>2, <3>1, <3>2, Numbers
  <2>5. Good(Tables, source', owed', stale)
    BY <2>1, <2>2, <2>3, <2>4, SourceGood
  <2>6. Rest'
    BY <1>1, <1>3 DEF Inv, Rest
  <2> QED BY <1>1, <1>3, <2>5, <2>6, TablesStay
<1> QED BY <1>2, <1>3 DEF HandleDeleteSource

LEMMA DeleteSourceKeeps ==
  ASSUME Inv, NEW s \in Sources, DeleteSource(s)
  PROVE  Done
<1> DEFINE offered == {row[r].book : r \in {q \in Rows : RowSource[q] = s /\ row[q].book # 0 /\ ~row[q].missing}}
           h == [r \in Rows |-> IF RowSource[r] = s THEN Unseen ELSE row[r]]
           u == [book |-> book, row |-> h, owner |-> owner]
           rash == source[s].enabled \/ <<s, "edit">> \in owed
<1>1. /\ Good(Tables, source, owed, stale) /\ Tables.row = row /\ Tables.book = book /\ Tables.owner = owner
      /\ Sound(Tables) /\ stale \in SUBSET Books /\ Tables \in TableTypes /\ source \in [Sources -> SourceRecords]
      /\ row \in [Rows -> RowRecords] /\ book \in [Books -> BookRecords] /\ owner \in [AllKeys -> Books \cup {0}]
      /\ source[s] \in SourceRecords /\ Leads(Tables) /\ Pins(Tables) /\ Kept(Tables, source)
  BY FoundTables DEF Good
<1>2. /\ <<s, "delete">> \notin owed /\ deleting' = [deleting EXCEPT ![s] = "no"]
      /\ source' = [source EXCEPT ![s].kind = "gone", ![s].enabled = FALSE]
      /\ row' = h /\ stale' = (IF rash THEN stale \cup offered ELSE stale)
      /\ UNCHANGED <<book, owner, owed, refused, changes>>
  BY DEF DeleteSource
<1>3. Commit(u)
  BY <1>2 DEF Commit
<1>4. /\ u.book = book /\ u.row = h /\ u.owner = owner /\ u \in TableTypes
      /\ \A r \in Rows : h[r] = IF RowSource[r] = s THEN Unseen ELSE row[r]
  <2>1. h \in [Rows -> RowRecords]
    BY <1>1, Blank
  <2> QED BY <1>1, <2>1 DEF TableTypes
<1> HIDE DEF h, u
<1>5. \A c : IsRoot(u, c) <=> IsRoot(Tables, c)
  BY <1>1, <1>4 DEF IsRoot
<1>6. Leads(u)
  BY <1>1, <1>4, <1>5, Blank DEF Leads
<1>7. Pins(u)
  <2> SUFFICES ASSUME NEW q \in Rows, u.row[q].pinned # 0
               PROVE  /\ u.row[q].book = u.row[q].pinned
                      /\ \A k \in AllKeys : u.owner[k] # u.row[q].pinned
                      /\ \A y \in Rows \ {q} : u.row[y].book # u.row[q].pinned
    BY DEF Pins
  <2>1. u.row[q] = row[q]
    BY <1>4, Blank
  <2>2. /\ row[q].book = row[q].pinned /\ \A k \in AllKeys : owner[k] # row[q].pinned
        /\ \A y \in Rows \ {q} : row[y].book # row[q].pinned
    BY <1>1, <2>1 DEF Pins
  <2>3. \A y \in Rows \ {q} : u.row[y].book # row[q].pinned
    BY <1>4, <2>1, <2>2, Blank
  <2> QED BY <1>4, <2>1, <2>2, <2>3
<1>8. \A r \in Rows : AtHome(u, r)
  BY <1>1, <1>4, Blank DEF AtHome, Sound
<1>9. /\ source' \in [Sources -> SourceRecords] /\ \A x \in Sources \ {s} : source'[x] = source[x]
      /\ source'[s].kind = "gone" /\ source'[s].enabled = FALSE
  <2>1. [[source[s] EXCEPT !.kind = "gone"] EXCEPT !.enabled = FALSE] \in SourceRecords
    BY <1>1 DEF SourceRecords
  <2>2. source' = [source EXCEPT ![s] = [[source[s] EXCEPT !.kind = "gone"] EXCEPT !.enabled = FALSE]]
    BY <1>1, <1>2
  <2> QED BY <1>1, <2>1, <2>2 DEF SourceRecords
<1>10. Kept(u, source')
  <2> SUFFICES ASSUME NEW q \in Rows, source'[RowSource[q]].kind = "kept", u.row[q].book # 0,
                      ~u.row[q].missing, u.row[q].present
               PROVE  u.row[q].copy
    BY DEF Kept
  <2>1. RowSource[q] # s /\ u.row[q] = row[q]
    BY <1>4, <1>9
  <2> QED BY <1>1, <1>9, <2>1, Numbers DEF Kept
<1>11. offered \in SUBSET Books
  BY FoundTables
<1>12. ASSUME NEW c \in Books \ stale', IsRoot(u, c), Free(u, owed', c) PROVE Settled(u, source', c)
  <2>1. /\ c \notin stale /\ IsRoot(Tables, c)
        /\ rash => \A q \in Rows : RowSource[q] = s /\ row[q].book = c => row[q].missing
    BY <1>2, <1>5, <1>12, Numbers
  <2>2. Free(Tables, owed, c)
    <3> SUFFICES ASSUME NEW q \in Rows, row[q].book = c, ~row[q].missing, NEW o \in owed, o[1] = RowSource[q]
                 PROVE  FALSE
      BY <1>1 DEF Free
    <3>1. CASE RowSource[q] = s
      <4>1. o \in Sources \X {"edit", "delete"}
        BY DEF Inv, Rest
      <4>2. o = <<s, "edit">> \/ o = <<s, "delete">>
        BY <3>1, <4>1
      <4> QED BY <1>2, <2>1, <3>1, <4>2
    <3>2. CASE RowSource[q] # s
      <4>1. u.row[q] = row[q]
        BY <1>4, <3>2
      <4> QED BY <1>2, <1>12, <4>1 DEF Free
    <3> QED BY <3>1, <3>2
  <2>3. Settled(Tables, source, c)
    BY <1>1, <2>1, <2>2 DEF Good, Current
  <2>4. SameRows(Tables, source, u, source', c)
    <3>1. ASSUME NEW q \in Rows PROVE q \in Candidates(u, source', c) <=> q \in Candidates(Tables, source, c)
      <4>1. CASE RowSource[q] = s
        <5>1. u.row[q].book # c
          BY <1>4, <4>1, Blank, Numbers
        <5>2. ~(row[q].book = c /\ ~row[q].missing /\ source[s].enabled)
          BY <2>1, <4>1
        <5> QED BY <1>1, <4>1, <5>1, <5>2 DEF Candidates
      <4>2. CASE RowSource[q] # s
        BY <1>1, <1>4, <1>9, <4>2, Numbers DEF Candidates
      <4> QED BY <4>1, <4>2
    <3>2. Candidates(u, source', c) = Candidates(Tables, source, c)
      BY <3>1 DEF Candidates
    <3>3. ASSUME NEW q \in Candidates(Tables, source, c)
          PROVE  /\ u.row[q].present = row[q].present /\ u.row[q].cover = row[q].cover
                 /\ u.row[q].edition = row[q].edition
                 /\ source'[RowSource[q]].priority = source[RowSource[q]].priority
      <4>1. q \in Rows /\ u.row[q].book = c
        BY <3>2 DEF Candidates
      <4>2. RowSource[q] # s
        BY <1>4, <4>1, Blank, Numbers
      <4> QED BY <1>4, <1>9, <4>1, <4>2, Numbers
    <3> QED BY <1>1, <3>2, <3>3 DEF SameRows
  <2> QED BY <1>1, <1>4, <2>3, <2>4, StaysSettled
<1>13. Good(u, source', owed', stale')
  BY <1>1, <1>2, <1>4, <1>6, <1>7, <1>8, <1>9, <1>10, <1>11, <1>12 DEF Good, Sound, Current
<1>14. Earning(Tables, u)
  BY <1>1, <1>4 DEF Earning, Earned
<1>15. Rest'
  BY <1>2 DEF Inv, Rest
<1> QED BY <1>3, <1>13, <1>14, <1>15, Lands DEF Done
-----------------------------------------------------------------------------
(* The invariant holds, and what it says of the library. *)

LEMMA InitHolds ==
  ASSUME Init
  PROVE  Inv
<1>1. /\ book \in [Books -> BookRecords] /\ row \in [Rows -> RowRecords] /\ owner \in [AllKeys -> Books \cup {0}]
      /\ \A b \in Books : book[b] = NoBook
      /\ \A r \in Rows : row[r] = Unseen
      /\ \A k \in AllKeys : owner[k] = 0
  BY Blank DEF Init
<1>2. Tables.book = book /\ Tables.row = row /\ Tables.owner = owner /\ Tables \in TableTypes
  BY <1>1 DEF Tables, TableTypes
<1>3. Sound(Tables)
  <2>1. Leads(Tables) /\ Pins(Tables) /\ \A r \in Rows : AtHome(Tables, r)
    BY <1>1, <1>2, Blank DEF Leads, Pins, AtHome
  <2> QED BY <1>2, <2>1 DEF Sound
<1>4. source \in [Sources -> SourceRecords]
  <2>1. PICK kind \in [Sources -> {"calibre", "web", "upload"}] :
          source = [s \in Sources |-> [kind |-> kind[s], enabled |-> TRUE, priority |-> 100, own |-> FALSE]]
    BY DEF Init
  <2>2. \A s \in Sources : [kind |-> kind[s], enabled |-> TRUE, priority |-> 100, own |-> FALSE] \in SourceRecords
    BY <2>1 DEF SourceRecords
  <2> QED BY <2>1, <2>2
<1>5. Kept(Tables, source)
  BY <1>1, <1>2, Blank DEF Kept
<1>6. \A b \in Books : ~IsRoot(Tables, b)
  BY <1>1, <1>2, Blank DEF IsRoot
<1>7. stale = {} /\ Rest
  BY DEF Init, Rest
<1> QED BY <1>3, <1>4, <1>5, <1>6, <1>7 DEF Inv, Good, Current

LEMMA NextKeeps ==
  ASSUME Inv, [Next]_vars
  PROVE  Done
<1>1. ASSUME NEW r \in Rows, NEW copied \in BOOLEAN, NEW e \in Editions[r], IngestBook(r, e, copied)
      PROVE  Done
  BY <1>1, IngestBookKeeps
<1>2. ASSUME NEW r \in Rows, RemoveUpload(r) \/ \E e \in Editions[r] : FileBook(r, e) \/ Upload(r, e)
      PROVE  Done
  BY <1>2, RemoveUploadKeeps, FileBookKeeps, UploadKeeps
<1>3. ASSUME NEW r \in Rows, NEW copied \in BOOLEAN, Vanish(r, copied)
      PROVE  Done
  BY <1>3, VanishKeeps
<1>4. ASSUME NEW r \in Rows, Split(r) \/ Rejoin(r)
      PROVE  Done
  BY <1>4, SplitKeeps, RejoinKeeps
<1>5. ASSUME NEW b \in Books, SetBookHidden(b) \/ PurgeBook(b)
      PROVE  Done
  BY <1>5, SetBookHiddenKeeps, PurgeBookKeeps
<1>6. ASSUME NEW b \in Books, NEW chosen \in {{}} \cup {{x} : x \in Series}, NEW resolved \in BOOLEAN,
             SetSeries(b, chosen, resolved)
      PROVE  Done
  <2>1. chosen \in SUBSET Series
    OBVIOUS
  <2> QED BY <1>6, <2>1, SetSeriesKeeps
<1>7. ASSUME NEW s \in Sources, NEW why \in {"edit", "delete"}, ResolveSource(s, why) \/ ResolveSourceFails(s, why)
      PROVE  Done
  BY <1>7, ResolveSourceKeeps, ResolveSourceFailsKeeps
<1>8. ASSUME NEW s \in Sources, DeleteSource(s)
      PROVE  Done
  BY <1>8, DeleteSourceKeeps
<1>9. ASSUME NEW s \in Sources, NEW on \in BOOLEAN, SetSourceEnabled(s, on)
      PROVE  Done
  BY <1>9, SetSourceEnabledKeeps
<1>10. ASSUME NEW s \in Sources, NEW priority \in {50, 100}, EditSource(s, priority)
       PROVE  Done
  BY <1>10, EditSourceKeeps
<1>11. ASSUME NEW s \in Sources, NEW rs \in SUBSET Rows, HandleDeleteSource(s, rs)
       PROVE  Done
  BY <1>11, HandleDeleteSourceKeeps
<1>12. CASE Restart
  BY <1>12, RestartKeeps
<1>13. ASSUME NEW found \in SUBSET {r \in Rows : CanBackfill(r)}, Upgrade(found)
       PROVE  Done
  BY <1>13, UpgradeKeeps
<1>14. CASE UNCHANGED vars
  <2>1. /\ UNCHANGED <<book, row, owner, source, owed, deleting, stale, refused, changes>>
        /\ Tables' = Tables
    BY <1>14 DEF vars, Tables
  <2>2. Inv'
    BY <2>1 DEF Inv, Rest
  <2> QED BY <2>1, <2>2 DEF Done, Earning, Earned
<1> QED
  BY <1>1, <1>2, <1>3, <1>4, <1>5, <1>6, <1>7, <1>8, <1>9, <1>10, <1>11, <1>12, <1>13, <1>14 DEF Next

(* The invariant of Attach, MergeBooks, Resolve and their callers holds in    *)
(* every reachable state.                                                     *)
THEOREM Invariance == Spec => []Inv
<1>1. Init => Inv
  BY InitHolds
<1>2. Inv /\ [Next]_vars => Inv'
  BY NextKeeps DEF Done
<1> QED BY <1>1, <1>2, PTL DEF Spec

(* Every book, row, key and library keeps its type, and a row is attached   *)
(* to no alias and to no purged book (Attach, MergeBooks, PurgeBook).        *)
THEOREM IngestTypes == Spec => []TypeOK
<1>1. Inv => TypeOK
  <2> SUFFICES ASSUME Inv PROVE TypeOK
    OBVIOUS
  <2>1. book \in [Books -> BookRecords] /\ owner \in [AllKeys -> Books \cup {0}] /\ source \in [Sources -> SourceRecords]
    BY FoundTables
  <2>2. \A r \in Rows : /\ row[r].book \in Books \cup {0} /\ row[r].pinned \in Books \cup {0}
                        /\ row[r].book # 0 => book[row[r].book].state = "known" /\ book[row[r].book].into = 0
    BY FoundTables DEF IsRoot, RowRecords
  <2>3. stale \subseteq Books /\ Rest
    BY FoundTables DEF Inv
  <2> QED BY <2>1, <2>2, <2>3 DEF TypeOK, BookRecords, Servings, Titles, SourceRecords, Rest
<1> QED BY <1>1, Invariance, PTL

(* The same copy scanned again finds the same book: every key of a row that  *)
(* was not split off leads to the row's book (Attach, AddIdentities,         *)
(* MergeBooks, PurgeBook), whatever was merged, split and purged between.    *)
THEOREM KeysFindTheBook == Spec => []KeysLeadHome
<1>1. Inv => KeysLeadHome
  <2> SUFFICES ASSUME Inv, NEW r \in Rows, row[r].book # 0, row[r].pinned = 0, NEW k \in KeysOf[row[r].edition]
               PROVE  owner[k] # 0 /\ ResolveBookID(Tables, owner[k]) = row[r].book
    BY DEF KeysLeadHome
  <2>1. owner[k] = row[r].book
    BY FoundTables DEF AtHome
  <2> QED BY <2>1, FoundTables
<1> QED BY <1>1, Invariance, PTL

(* A copy split off by hand shares its book with no other copy, and no scan, *)
(* merge or purge brings them together again (Attach, Split).                *)
THEOREM SplitStaysApart == Spec => []SplitApart
<1>1. Inv => SplitApart
  <2> SUFFICES ASSUME Inv, NEW r \in Rows, NEW q \in Rows, r # q, row[r].pinned # 0
               PROVE  row[q].book # row[r].book
    BY DEF SplitApart
  <2> QED BY FoundTables DEF Pins
<1> QED BY <1>1, Invariance, PTL

(* A book is offered, and as, what its live rows say, whenever nobody still  *)
(* owes it a resolve (Resolve, ResolveSource).                              *)
THEOREM OffersAreCurrent == Spec => []OfferIsCurrent
<1>1. Inv => OfferIsCurrent
  <2> SUFFICES ASSUME Inv, NEW b \in Books \ stale, IsRoot(Tables, b),
                      \A o \in owed : b \notin BooksTouchedBySource(o[1])
               PROVE  Settled(Tables, source, b)
    BY FoundTables DEF OfferIsCurrent, Settled
  <2>1. Free(Tables, owed, b)
    <3> SUFFICES ASSUME NEW q \in Rows, row[q].book = b, NEW o \in owed, o[1] = RowSource[q] PROVE FALSE
      BY FoundTables DEF Free
    <3>1. o[1] \in Sources
      BY DEF Inv, Rest
    <3>2. b \in BooksTouchedBySource(o[1])
      BY <3>1, Touched, Numbers
    <3> QED BY <3>2
  <2> QED BY <2>1, FoundTables DEF Good, Current
<1> QED BY <1>1, Invariance, PTL

(* Every file left on the books of a removed library is one we hold a copy   *)
(* of (KeepBooksOf).                                                        *)
THEOREM KeptFilesAreHere == Spec => []KeptIsHere
<1>1. Inv => KeptIsHere
  BY FoundTables DEF KeptIsHere, Good, Kept
<1> QED BY <1>1, Invariance, PTL

(* A revision moves exactly when what a device can observe of the book       *)
(* moves, and only for a book that is available then (Resolve, apply).       *)
THEOREM RevisionsEarned == Spec => RevisionsAreEarned
<1> DEFINE A == \A b \in Books : IsRoot(Tables, b) /\ IsRoot(Tables, b)' =>
                  /\ book'[b].rev # book[b].rev <=> book'[b].served # book[b].served /\ book[b].served # NotServed
                  /\ book'[b].rev # book[b].rev => book'[b].available
<1>1. Inv /\ [Next]_vars => [A]_vars
  <2> SUFFICES ASSUME Inv, [Next]_vars PROVE A
    OBVIOUS
  <2>1. Earning(Tables, Tables')
    BY NextKeeps DEF Done
  <2>2. Tables.book = book /\ Tables'.book = book'
    BY DEF Tables
  <2> QED BY <2>1, <2>2 DEF Earning, Earned
<1> HIDE DEF A
<1>2. Spec => [][A]_vars
  BY <1>1, Invariance, PTL DEF Spec
<1> QED BY <1>2 DEF A, RevisionsAreEarned
=============================================================================
