-------------------------- MODULE CollectionsProofs --------------------------
(***************************************************************************)
(* Shelves, for every value of the constants of Collections: a shelf that  *)
(* was thrown away stays away, the shelves follow the libraries, a library *)
(* that is skipped has nothing left to tell, and revisions move with the   *)
(* shelf.                                                                  *)
(***************************************************************************)
EXTENDS Collections, FiniteSetTheorems, TLAPS

-----------------------------------------------------------------------------
(***************************************************************************)
(* The inductive invariant.                                                *)
(***************************************************************************)
TagTypes == [user : Users \cup {None}, name : Names \cup {None},
             origin : {None, "device", "calibre", "server"}, live : BOOLEAN,
             rev : Nat, books : SUBSET Books]
SayTypes == [tags : SUBSET Names, series : Names \cup {NoSeries}, columns : [Labels -> SUBSET Names]]
BookTypes == [into : Books, hidden : BOOLEAN, override : Names \cup {NoSeries, None}]
SourceTypes == [enabled : BOOLEAN, shareAll : BOOLEAN, acl : SUBSET Users, known : SUBSET Labels,
                chosen : SUBSET Labels, columnsRead : SUBSET Labels, signed : BOOLEAN]
ReadTypes == [running : {TRUE}, books : UNION {[S -> SayTypes] : S \in SUBSET Books},
              current : BOOLEAN, later : SUBSET Books, all : BOOLEAN]

(* Rows that are given away are whole, and no two are of one user and name. *)
Fits(x) == x.name \in Names /\ x.rev # 0 /\ x.origin # None
Unique == \A t, x \in Issued(tag) : tag[t].user = tag[x].user /\ tag[t].name = tag[x].name => t = x

TagsOK ==
  /\ tag \in [Tags -> TagTypes]
  /\ \A t \in Issued(tag) : Fits(tag[t])
  /\ Unique
  /\ thrown \subseteq Users \X Names

LibraryOK ==
  /\ row \in [Books -> SayTypes]
  /\ library \in [Books -> [says : SayTypes, changed : BOOLEAN]]
  /\ source \in [Sources -> SourceTypes]
  /\ \A s \in Sources : source[s].chosen \subseteq source[s].known \cap Usable
  /\ DOMAIN scan = Sources
  /\ \A s \in Sources : scan[s] = Idle \/ scan[s] \in ReadTypes
  /\ missed \subseteq Sources

WebOK ==
  /\ book \in [Books -> BookTypes]
  /\ setting \in [mode : Modes, loose : LooseNames \cup {NoSeries}]
  /\ begun \subseteq Modes /\ due \subseteq {"setting", "sharing", "series", "scan"}
  /\ adrift \in BOOLEAN

(* What a reader threw away is remembered by its row, and by nothing else.  *)
Deleted(x) == ~ x.live /\ x.origin = "calibre"
ThrownInRows ==
  \A u \in Users, n \in Names : <<u, n>> \in thrown <=> \E t \in Named(tag, u, n) : Deleted(tag[t])

(* The shelves are those the library asks for in this mode.                 *)
Ours(x) == x.live /\ x.origin = "calibre"
Match(mode) ==
  \A u \in Users, n \in Names :
    IF Derived(u, n, mode) = {} \/ <<u, n>> \in thrown
    THEN \A t \in Named(tag, u, n) : ~ Ours(tag[t])
    ELSE \E t \in Named(tag, u, n) : Ours(tag[t]) /\ tag[t].books = Derived(u, n, mode)
Follow == due = {} /\ begun = {} /\ ~ adrift => \A mode \in Modes : mode = setting.mode => Match(mode)

(* Where a source's scan stands: a book that is not marked as changed has   *)
(* the row of a read with the columns remembered, but for a change of       *)
(* columns under way or missed; what a scan has read is what Calibre says,  *)
(* but for what changed later; and what it has not read has not changed.    *)
BooksOf(s) == {b \in Books : BookSource[b] = s}
UpToDate(b, x) == x = ReadAs(library[b].says, source[BookSource[b]].columnsRead)
SignedOK(s) == source[s].signed => ~ scan[s].running /\ \A b \in BooksOf(s) : ~ library[b].changed
RowsOK(s) == ~ (scan[s].running /\ scan[s].all) /\ s \notin missed =>
               \A b \in BooksOf(s) : ~ library[b].changed => UpToDate(b, row[b])
ReadOK(s) ==
  scan[s].running =>
    /\ DOMAIN scan[s].books \subseteq BooksOf(s)
    /\ scan[s].all => DOMAIN scan[s].books = BooksOf(s)
    /\ scan[s].current => scan[s].later = {}
    /\ \A b \in DOMAIN scan[s].books \ scan[s].later : UpToDate(b, scan[s].books[b])
    /\ \A b \in BooksOf(s) \cap scan[s].later : library[b].changed
    /\ \A b \in BooksOf(s) \ DOMAIN scan[s].books : library[b].changed => b \in scan[s].later
ScansOK == \A s \in Sources : SignedOK(s) /\ RowsOK(s) /\ ReadOK(s)

Inv == TagsOK /\ LibraryOK /\ WebOK /\ ThrownInRows /\ Follow /\ ScansOK
-----------------------------------------------------------------------------
(***************************************************************************)
(* The operators on one collection.                                        *)
(***************************************************************************)
(* A chain of merges ends at a book, and one that was not merged is its own. *)
LEMMA Resolves ==
  ASSUME book \in [Books -> BookTypes], NEW b \in Books
  PROVE  /\ ResolveBookID(b) \in Books
         /\ book[b].into = b => ResolveBookID(b) = b
<1> DEFINE F(f) == [n \in 0 .. 8 |-> IF n = 0 THEN b ELSE book[f[n - 1]].into]
           chase == CHOOSE f : f = F(f)
           c1 == book[b].into
           c2 == book[c1].into
           c3 == book[c2].into
           c4 == book[c3].into
           c5 == book[c4].into
           c6 == book[c5].into
           c7 == book[c6].into
           c8 == book[c7].into
           g == [n \in 0 .. 8 |->
                   IF n = 0 THEN b ELSE IF n = 1 THEN c1 ELSE IF n = 2 THEN c2 ELSE IF n = 3 THEN c3
                   ELSE IF n = 4 THEN c4 ELSE IF n = 5 THEN c5 ELSE IF n = 6 THEN c6
                   ELSE IF n = 7 THEN c7 ELSE c8]
<1>1. ResolveBookID(b) = chase[8]
  BY DEF ResolveBookID, MaxAliasDepth
<1>2. g = F(g)
  <2> HIDE DEF c1, c2, c3, c4, c5, c6, c7, c8
  <2>1. /\ g[0] = b /\ g[1] = c1 /\ g[2] = c2 /\ g[3] = c3 /\ g[4] = c4
        /\ g[5] = c5 /\ g[6] = c6 /\ g[7] = c7 /\ g[8] = c8
    OBVIOUS
  <2>2. /\ c1 = book[b].into /\ c2 = book[c1].into /\ c3 = book[c2].into /\ c4 = book[c3].into
        /\ c5 = book[c4].into /\ c6 = book[c5].into /\ c7 = book[c6].into /\ c8 = book[c7].into
    BY DEF c1, c2, c3, c4, c5, c6, c7, c8
  <2>3. \A n \in 0 .. 8 : g[n] = F(g)[n]
    <3> SUFFICES ASSUME NEW n \in 0 .. 8
                 PROVE  g[n] = IF n = 0 THEN b ELSE book[g[n - 1]].into
      OBVIOUS
    <3>1. n = 0 \/ n = 1 \/ n = 2 \/ n = 3 \/ n = 4 \/ n = 5 \/ n = 6 \/ n = 7 \/ n = 8
      OBVIOUS
    <3>2. 1 - 1 = 0 /\ 2 - 1 = 1 /\ 3 - 1 = 2 /\ 4 - 1 = 3 /\ 5 - 1 = 4 /\ 6 - 1 = 5 /\ 7 - 1 = 6 /\ 8 - 1 = 7
      OBVIOUS
    <3> HIDE DEF g
    <3>3. CASE n = 0
      BY <3>3, <2>1
    <3>4. CASE n = 1
      BY <3>2, <3>4, <2>1, <2>2
    <3>5. CASE n = 2
      BY <3>2, <3>5, <2>1, <2>2
    <3>6. CASE n = 3
      BY <3>2, <3>6, <2>1, <2>2
    <3>7. CASE n = 4
      BY <3>2, <3>7, <2>1, <2>2
    <3>8. CASE n = 5
      BY <3>2, <3>8, <2>1, <2>2
    <3>9. CASE n = 6
      BY <3>2, <3>9, <2>1, <2>2
    <3>10. CASE n = 7
      BY <3>2, <3>10, <2>1, <2>2
    <3>11. CASE n = 8
      BY <3>2, <3>11, <2>1, <2>2
    <3> QED BY <3>1, <3>3, <3>4, <3>5, <3>6, <3>7, <3>8, <3>9, <3>10, <3>11
  <2> QED BY <2>3
<1>3. chase = F(chase)
  <2> HIDE DEF F, g
  <2> QED BY <1>2
<1> HIDE DEF chase
<1>4. chase[0] = b
  BY <1>3
<1>5. \A n \in 1 .. 8 : chase[n] = book[chase[n - 1]].into
  <2>1. \A n \in 0 .. 8 : F(chase)[n] = IF n = 0 THEN b ELSE book[chase[n - 1]].into
    OBVIOUS
  <2> HIDE DEF F
  <2> QED BY <1>3, <2>1
<1>6. /\ chase[1] = book[chase[0]].into /\ chase[2] = book[chase[1]].into /\ chase[3] = book[chase[2]].into
      /\ chase[4] = book[chase[3]].into /\ chase[5] = book[chase[4]].into /\ chase[6] = book[chase[5]].into
      /\ chase[7] = book[chase[6]].into /\ chase[8] = book[chase[7]].into
  BY <1>5
<1>7. \A c \in Books : book[c].into \in Books
  BY DEF BookTypes
<1>8. chase[8] \in Books
  BY <1>4, <1>6, <1>7
<1>9. book[b].into = b => chase[8] = b
  BY <1>4, <1>6
<1> QED BY <1>1, <1>8, <1>9

LEMMA TouchFits ==
  ASSUME NEW t \in TagTypes
  PROVE  /\ TouchTag(t) \in TagTypes /\ TouchTag(t).rev = t.rev + 1
         /\ TouchTag(t).user = t.user /\ TouchTag(t).name = t.name /\ TouchTag(t).origin = t.origin
         /\ TouchTag(t).live = t.live /\ TouchTag(t).books = t.books
<1>1. t.rev + 1 \in Nat
  BY DEF TagTypes
<1>2. TouchTag(t) = [t EXCEPT !.rev = t.rev + 1]
  BY DEF TouchTag
<1> QED BY <1>1, <1>2 DEF TagTypes

LEMMA ItemsFit ==
  ASSUME WebOK, NEW t \in TagTypes, NEW bs \in SUBSET Books
  PROVE  /\ AddTagItems(t, bs) \in TagTypes /\ RemoveTagItems(t, bs) \in TagTypes
         /\ \A x \in {AddTagItems(t, bs), RemoveTagItems(t, bs)} :
              /\ x.user = t.user /\ x.name = t.name /\ x.origin = t.origin /\ x.live = t.live
              /\ x.rev = t.rev + 1
         /\ AddTagItems(t, bs).books = t.books \cup {ResolveBookID(b) : b \in bs}
<1> DEFINE rs == {ResolveBookID(b) : b \in bs}
<1>1. rs \subseteq Books
  BY Resolves DEF WebOK
<1>2. t.rev \in Nat /\ t.books \subseteq Books
  BY DEF TagTypes
<1> HIDE DEF rs
<1>3. /\ AddTagItems(t, bs) = TouchTag([t EXCEPT !.books = t.books \cup rs])
      /\ RemoveTagItems(t, bs) = TouchTag([t EXCEPT !.books = t.books \ rs])
  BY DEF AddTagItems, RemoveTagItems, rs
<1>4. ASSUME NEW cs \in SUBSET Books
      PROVE  LET x == TouchTag([t EXCEPT !.books = cs])
             IN  /\ x \in TagTypes /\ x.user = t.user /\ x.name = t.name /\ x.origin = t.origin
                 /\ x.live = t.live /\ x.rev = t.rev + 1 /\ x.books = cs
  <2> DEFINE y == [t EXCEPT !.books = cs]
  <2>1. /\ y \in TagTypes /\ y.user = t.user /\ y.name = t.name /\ y.origin = t.origin
        /\ y.live = t.live /\ y.rev = t.rev /\ y.books = cs
    BY DEF TagTypes
  <2> HIDE DEF y
  <2>2. LET x == TouchTag(y)
        IN  /\ x \in TagTypes /\ x.user = t.user /\ x.name = t.name /\ x.origin = t.origin
            /\ x.live = t.live /\ x.rev = t.rev + 1 /\ x.books = cs
    BY <2>1, TouchFits
  <2> QED BY <2>2 DEF y
<1> HIDE DEF TouchTag
<1> QED BY <1>1, <1>2, <1>3, <1>4 DEF rs

LEMMA DeleteFits ==
  ASSUME NEW t \in TagTypes
  PROVE  LET x == DeleteTag(t)
         IN  /\ x \in TagTypes /\ x.user = t.user /\ x.name = t.name /\ x.origin = t.origin
             /\ x.books = t.books /\ ~ x.live
             /\ x.rev = IF t.live THEN t.rev + 1 ELSE t.rev
<1>1. CASE t.live
  <2> DEFINE y == [t EXCEPT !.live = FALSE]
  <2>1. /\ y \in TagTypes /\ y.user = t.user /\ y.name = t.name /\ y.origin = t.origin
        /\ ~ y.live /\ y.rev = t.rev /\ y.books = t.books
    BY DEF TagTypes
  <2>2. DeleteTag(t) = TouchTag(y)
    BY <1>1 DEF DeleteTag
  <2> HIDE DEF y
  <2> QED BY <1>1, <2>1, <2>2, TouchFits
<1>2. CASE ~ t.live
  BY <1>2 DEF DeleteTag
<1> QED BY <1>1, <1>2

(* What the libraries ask for is books that were not merged away.           *)
LEMMA DerivedFits ==
  ASSUME WebOK, NEW u, NEW n, NEW mode
  PROVE  /\ Derived(u, n, mode) \subseteq Books
         /\ {ResolveBookID(b) : b \in Derived(u, n, mode)} = Derived(u, n, mode)
<1>1. \A b \in Derived(u, n, mode) : b \in Books /\ book[b].into = b
  BY DEF Derived, Visible
<1>2. \A b \in Derived(u, n, mode) : ResolveBookID(b) = b
  BY <1>1, Resolves DEF WebOK
<1> QED BY <1>1, <1>2

LEMMA RefillFits ==
  ASSUME WebOK, NEW t \in TagTypes, NEW mode
  PROVE  LET x == Refill(t, mode)
         IN  /\ x \in TagTypes /\ x.user = t.user /\ x.name = t.name /\ x.origin = t.origin
             /\ x.live = t.live /\ x.books = Derived(t.user, t.name, mode)
             /\ x.rev = IF SameMembers(t, mode) THEN t.rev ELSE t.rev + 1
<1> DEFINE e == [t EXCEPT !.books = {}]
           d == Derived(t.user, t.name, mode)
<1>1. CASE SameMembers(t, mode)
  <2>1. Refill(t, mode) = t /\ t.books = d
    BY <1>1 DEF Refill, SameMembers
  <2> QED BY <1>1, <2>1
<1>2. CASE ~ SameMembers(t, mode)
  <2>1. e \in TagTypes /\ e.user = t.user /\ e.name = t.name /\ e.origin = t.origin /\ e.live = t.live
        /\ e.rev = t.rev /\ e.books = {}
    BY DEF TagTypes
  <2>2. Refill(t, mode) = AddTagItems(e, d)
    BY <1>2 DEF Refill
  <2>3. d \in SUBSET Books /\ {ResolveBookID(b) : b \in d} = d
    BY DerivedFits
  <2> HIDE DEF e, d
  <2>4. AddTagItems(e, d).books = d
    BY <2>1, <2>3, ItemsFit
  <2>5. LET x == AddTagItems(e, d)
        IN  /\ x \in TagTypes /\ x.user = t.user /\ x.name = t.name /\ x.origin = t.origin
            /\ x.live = t.live /\ x.rev = t.rev + 1
    BY <2>1, <2>3, ItemsFit
  <2> QED BY <1>2, <2>2, <2>4, <2>5 DEF d
<1> QED BY <1>1, <1>2

(* applyCollections on one row: whose it is does not change, what a reader   *)
(* threw away stays as it is, and the others become what the library asks.   *)
LEMMA ApplyFits ==
  ASSUME WebOK, NEW t \in TagTypes, NEW mode
  PROVE  LET x == Apply(t, mode)
             d == Derived(t.user, t.name, mode)
         IN  /\ x \in TagTypes /\ x.user = t.user /\ x.name = t.name
             /\ Fits(t) => Fits(x)
             /\ Deleted(t) => x = t
             /\ ~ Deleted(t) => ~ Deleted(x)
             /\ d # {} /\ ~ Deleted(t) => Ours(x) /\ x.books = d
             /\ d = {} => ~ Ours(x)
             /\ x = t \/ x.rev > t.rev
             /\ x.rev # t.rev => \/ x.books # t.books \/ x.live # t.live \/ x.origin # t.origin
                                 \/ ListedTwice(t.user, t.name, mode)
<1> DEFINE x == Apply(t, mode)
           d == Derived(t.user, t.name, mode)
           up == TouchTag([t EXCEPT !.live = TRUE, !.origin = "calibre"])
           empty == [t EXCEPT !.books = {}]
           down == DeleteTag(empty)
<1>0. t.rev \in Nat /\ t.origin \in {None, "device", "calibre", "server"} /\ t.live \in BOOLEAN
  BY DEF TagTypes
<1>1. CASE d # {} /\ Ours(t)
  <2>1. x = Refill(t, mode)
    BY <1>1 DEF Apply, Ours
  <2>2. /\ x \in TagTypes /\ x.user = t.user /\ x.name = t.name /\ x.origin = t.origin
        /\ x.live = t.live /\ x.books = d
        /\ x.rev = IF SameMembers(t, mode) THEN t.rev ELSE t.rev + 1
    BY <2>1, RefillFits
  <2>3. SameMembers(t, mode) => x = t
    BY <2>1 DEF Refill
  <2>4. ~ SameMembers(t, mode) => t.books # d \/ ListedTwice(t.user, t.name, mode)
    BY DEF SameMembers
  <2> HIDE DEF x, d
  <2>5. x = t \/ x.rev > t.rev
    BY <1>0, <2>2, <2>3
  <2>6. Fits(t) => Fits(x)
    BY <1>0, <2>2 DEF Fits
  <2>7. ~ Deleted(t) /\ ~ Deleted(x) /\ Ours(x)
    BY <1>1, <2>2 DEF Ours, Deleted
  <2>8. x.rev # t.rev => x.books # t.books \/ ListedTwice(t.user, t.name, mode)
    BY <2>2, <2>4
  <2> QED BY <1>1, <2>2, <2>5, <2>6, <2>7, <2>8 DEF x, d
<1>2. CASE d # {} /\ ~ Ours(t) /\ ~ Deleted(t)
  <2>1. up \in TagTypes /\ up.user = t.user /\ up.name = t.name /\ up.origin = "calibre" /\ up.live = TRUE
        /\ up.rev = t.rev + 1
    <3> DEFINE y == [t EXCEPT !.live = TRUE, !.origin = "calibre"]
    <3>1. /\ y \in TagTypes /\ y.user = t.user /\ y.name = t.name /\ y.origin = "calibre"
          /\ y.live = TRUE /\ y.rev = t.rev
      BY DEF TagTypes
    <3> HIDE DEF y
    <3>2. LET z == TouchTag(y)
          IN  z \in TagTypes /\ z.user = t.user /\ z.name = t.name /\ z.origin = "calibre" /\ z.live = TRUE
              /\ z.rev = t.rev + 1
      BY <3>1, TouchFits
    <3> QED BY <3>2 DEF y
  <2>2. x = Refill(up, mode)
    BY <1>2 DEF Apply, Ours, Deleted
  <2> HIDE DEF up
  <2>3. /\ x \in TagTypes /\ x.user = t.user /\ x.name = t.name /\ x.origin = "calibre"
        /\ x.live = TRUE /\ x.books = d
        /\ x.rev = IF SameMembers(up, mode) THEN t.rev + 1 ELSE t.rev + 1 + 1
    BY <2>1, <2>2, RefillFits
  <2> HIDE DEF x, d
  <2>4. x.rev > t.rev /\ x.rev # 0
    BY <1>0, <2>3
  <2>5. Fits(t) => Fits(x)
    BY <2>3, <2>4 DEF Fits, None
  <2>6. ~ Deleted(x) /\ Ours(x)
    BY <2>3 DEF Ours, Deleted
  <2>7. x.live # t.live \/ x.origin # t.origin
    BY <1>0, <1>2, <2>3 DEF Ours, Deleted
  <2> QED BY <1>2, <2>3, <2>4, <2>5, <2>6, <2>7 DEF x, d
<1>3. CASE d = {} /\ Ours(t)
  <2>1. empty \in TagTypes /\ empty.user = t.user /\ empty.name = t.name /\ empty.live /\ empty.rev = t.rev
    BY <1>3 DEF TagTypes, Ours
  <2> HIDE DEF empty
  <2>2. down \in TagTypes /\ down.user = t.user /\ down.name = t.name /\ ~ down.live /\ down.rev = t.rev + 1
    BY <2>1, DeleteFits
  <2> HIDE DEF down
  <2>3. x = [down EXCEPT !.origin = "server"]
    BY <1>3 DEF Apply, Ours, down, empty
  <2>4. /\ x \in TagTypes /\ x.user = t.user /\ x.name = t.name /\ x.origin = "server"
        /\ ~ x.live /\ x.rev = t.rev + 1
    BY <2>2, <2>3 DEF TagTypes
  <2> HIDE DEF x, d
  <2>5. x.rev > t.rev /\ x.rev # 0 /\ (x.live # t.live)
    <3>1. t.live
      BY <1>3 DEF Ours
    <3>2. x.live # t.live
      BY <3>1, <2>4
    <3> QED BY <1>0, <2>4, <3>2
  <2>6. Fits(t) => Fits(x)
    BY <2>4, <2>5 DEF Fits, None
  <2>7. ~ Deleted(x) /\ ~ Ours(x) /\ ~ Deleted(t)
    BY <1>3, <2>4 DEF Ours, Deleted
  <2> QED BY <1>3, <2>4, <2>5, <2>6, <2>7 DEF x, d
<1>4. CASE (d = {} \/ Deleted(t)) /\ (d # {} \/ ~ Ours(t))
  <2>1. Deleted(t) => ~ Ours(t)
    BY DEF Ours, Deleted
  <2>2. x = t
    BY <1>4, <2>1 DEF Apply, Ours, Deleted
  <2> HIDE DEF x
  <2> QED BY <1>4, <2>1, <2>2 DEF x
<1> QED BY <1>1, <1>2, <1>3, <1>4

-----------------------------------------------------------------------------
(***************************************************************************)
(* A rebuild.                                                              *)
(***************************************************************************)
Lacking(mode) == {p \in Users \X Names : Named(tag, p[1], p[2]) = {} /\ Derived(p[1], p[2], mode) # {}}
Made(p, mode) == Refill([Unissued EXCEPT !.user = p[1], !.name = p[2], !.origin = "calibre",
                                         !.live = TRUE, !.rev = 1], mode)

(* There is a row for every name that lacks one.                            *)
LEMMA RowsSuffice ==
  ASSUME TagsOK, NEW L \in SUBSET (Users \X Names), \A p \in L : Named(tag, p[1], p[2]) = {}
  PROVE  \E f \in [L -> Tags \ Issued(tag)] : \A p, q \in L : f[p] = f[q] => p = q
<1> DEFINE I == Issued(tag)
           P == Users \X Names
           key == [t \in I |-> <<tag[t].user, tag[t].name>>]
<1>1. IsFiniteSet(P) /\ IsFiniteSet(Tags) /\ Cardinality(Tags) >= Cardinality(P) /\ I \subseteq Tags
  BY CollectionsAssumption, FS_Product DEF Issued
<1>2. \A t \in I : tag[t].user \in Users /\ tag[t].name \in Names
  BY DEF TagsOK, TagTypes, Issued, Fits
<1>3. \A t \in I : key[t] \in P \ L
  <2> SUFFICES ASSUME NEW t \in I, key[t] \in L PROVE FALSE
    BY <1>2
  <2>1. t \in Named(tag, key[t][1], key[t][2])
    BY DEF Named
  <2> QED BY <2>1
<1>4. key \in Injection(I, P \ L)
  <2>1. key \in [I -> P \ L]
    BY <1>3
  <2>2. \A t, x \in I : key[t] = key[x] => t = x
    BY DEF TagsOK, Unique
  <2> QED BY <2>1, <2>2 DEF Injection, IsInjective
<1>5. IsFiniteSet(P \ L) /\ Cardinality(P \ L) = Cardinality(P) - Cardinality(L) /\ IsFiniteSet(L)
  <2>1. P \cap L = L
    OBVIOUS
  <2> HIDE DEF P
  <2> QED BY <1>1, <2>1, FS_Difference, FS_Subset
<1> HIDE DEF P, I, key
<1>6. Cardinality(I) <= Cardinality(P \ L) /\ IsFiniteSet(I)
  BY <1>4, <1>5, FS_Injection
<1>7. IsFiniteSet(Tags \ I) /\ Cardinality(Tags \ I) = Cardinality(Tags) - Cardinality(I)
  <2>1. Tags \cap I = I
    BY <1>1
  <2> QED BY <1>1, <2>1, FS_Difference
<1> DEFINE l == Cardinality(L)
           m == Cardinality(Tags \ I)
<1>8. l \in Nat /\ m \in Nat /\ l <= m
  <2>1. /\ Cardinality(L) \in Nat /\ Cardinality(P) \in Nat /\ Cardinality(P \ L) \in Nat
        /\ Cardinality(Tags) \in Nat /\ Cardinality(I) \in Nat /\ Cardinality(Tags \ I) \in Nat
    BY <1>1, <1>5, <1>6, <1>7, FS_CardinalityType
  <2> QED BY <2>1, <1>1, <1>5, <1>6, <1>7
<1>9. PICK a \in Bijection(1 .. l, L) : TRUE
  BY <1>5, FS_CardinalityType DEF ExistsBijection
<1>10. PICK c \in Bijection(1 .. m, Tags \ I) : TRUE
  BY <1>7, FS_CardinalityType DEF ExistsBijection
<1> HIDE DEF l, m
<1>11. /\ a \in [1 .. l -> L] /\ \A p \in L : \E n \in 1 .. l : a[n] = p
       /\ c \in [1 .. m -> Tags \ I] /\ \A i, j \in 1 .. m : c[i] = c[j] => i = j
  BY DEF Bijection, Injection, Surjection, IsInjective
<1> DEFINE f == [p \in L |-> c[CHOOSE n \in 1 .. l : a[n] = p]]
<1>12. f \in [L -> Tags \ I] /\ \A p, q \in L : f[p] = f[q] => p = q
  <2>1. 1 .. l \subseteq 1 .. m
    BY <1>8
  <2> QED BY <1>11, <2>1
<1> QED BY <1>12 DEF I

LEMMA MadeFits ==
  ASSUME WebOK, NEW mode, NEW p \in Users \X Names
  PROVE  LET x == Made(p, mode)
         IN  /\ x \in TagTypes /\ x.user = p[1] /\ x.name = p[2] /\ Fits(x)
             /\ Ours(x) /\ x.books = Derived(p[1], p[2], mode)
<1> DEFINE e == [Unissued EXCEPT !.user = p[1], !.name = p[2], !.origin = "calibre", !.live = TRUE, !.rev = 1]
<1>1. /\ e \in TagTypes /\ e.user = p[1] /\ e.name = p[2] /\ e.origin = "calibre" /\ e.live = TRUE
      /\ e.rev = 1
  BY DEF Unissued, TagTypes
<1> HIDE DEF e
<1>2. Made(p, mode) = Refill(e, mode)
  BY DEF Made, e
<1>3. LET x == Refill(e, mode)
      IN  /\ x \in TagTypes /\ x.user = p[1] /\ x.name = p[2] /\ x.origin = "calibre" /\ x.live = TRUE
          /\ x.rev # 0 /\ x.books = Derived(p[1], p[2], mode)
  BY <1>1, RefillFits
<1>4. p[2] \in Names
  OBVIOUS
<1> QED BY <1>2, <1>3, <1>4 DEF Fits, Ours, None

(* The rows there are, and one for each name that lacks one.                *)
LEMMA RebuiltRows ==
  ASSUME TagsOK, WebOK, NEW mode
  PROVE  LET new == Rebuilt(mode)
         IN  /\ DOMAIN new = Tags
             /\ \A t \in Issued(tag) : new[t] = Apply(tag[t], mode)
             /\ \A t \in Tags \ Issued(tag) :
                  new[t] = tag[t] \/ \E p \in Lacking(mode) : new[t] = Made(p, mode)
             /\ \A p \in Lacking(mode) : \E t \in Tags \ Issued(tag) : new[t] = Made(p, mode)
             /\ \A p \in Lacking(mode) : \A t, x \in Tags \ Issued(tag) :
                  new[t] = Made(p, mode) /\ new[x] = Made(p, mode) => t = x
<1> DEFINE L == Lacking(mode)
           new == Rebuilt(mode)
           ids == CHOOSE f \in [L -> Tags \ Issued(tag)] : \A p, q \in L : f[p] = f[q] => p = q
           pick(t) == CHOOSE q \in L : ids[q] = t
<1>1. L \subseteq Users \X Names /\ \A p \in L : Named(tag, p[1], p[2]) = {}
  BY DEF Lacking
<1>2. \E f \in [L -> Tags \ Issued(tag)] : \A p, q \in L : f[p] = f[q] => p = q
  <2> HIDE DEF L
  <2> QED BY <1>1, RowsSuffice
<1>3. ids \in [L -> Tags \ Issued(tag)] /\ \A p, q \in L : ids[p] = ids[q] => p = q
  <2> HIDE DEF L
  <2> QED BY <1>2
<1>4. new = [t \in Tags |-> IF \E p \in L : ids[p] = t THEN Made(pick(t), mode)
                            ELSE IF t \in Issued(tag) THEN Apply(tag[t], mode) ELSE tag[t]]
  BY DEF Rebuilt, Lacking, Made
<1> HIDE DEF ids, L
<1>5. \A p \in L : pick(ids[p]) = p
  BY <1>3
<1>6. Issued(tag) \subseteq Tags
  BY DEF Issued
<1> HIDE DEF new, pick
<1>7. \A t \in Issued(tag) : new[t] = Apply(tag[t], mode)
  BY <1>3, <1>4, <1>6
<1>8. \A p \in L : ids[p] \in Tags \ Issued(tag) /\ new[ids[p]] = Made(p, mode)
  BY <1>3, <1>4, <1>5
<1>9. \A t \in Tags \ Issued(tag) : \/ new[t] = tag[t] /\ \A p \in L : ids[p] # t
                                    \/ \E p \in L : ids[p] = t /\ new[t] = Made(p, mode)
  BY <1>3, <1>4, <1>5
<1>10. ASSUME NEW p \in L, NEW t \in Tags \ Issued(tag), new[t] = Made(p, mode)
       PROVE  t = ids[p]
  <2>1. Made(p, mode).user = p[1] /\ Made(p, mode).name = p[2] /\ p[1] \in Users
    BY <1>1, MadeFits
  <2>2. tag[t].user = None
    BY DEF Issued
  <2>3. PICK q \in L : ids[q] = t /\ new[t] = Made(q, mode)
    BY <1>9, <1>10, <2>1, <2>2, CollectionsAssumption
  <2>4. q[1] = p[1] /\ q[2] = p[2]
    BY <1>1, <1>10, <2>1, <2>3, MadeFits
  <2>5. q = p
    BY <1>1, <2>4
  <2> QED BY <2>3, <2>5
<1>11. DOMAIN new = Tags
  BY <1>4
<1> QED BY <1>7, <1>8, <1>9, <1>10, <1>11 DEF L, new
-----------------------------------------------------------------------------
(***************************************************************************)
(* Rows and what is remembered of the ones thrown away.                    *)
(***************************************************************************)
LEMMA SameKeys ==
  ASSUME TagsOK, NEW new \in [Tags -> TagTypes],
         \A t \in Tags : new[t].user = tag[t].user /\ new[t].name = tag[t].name
  PROVE  Issued(new) = Issued(tag) /\ \A u, n : Named(new, u, n) = Named(tag, u, n)
BY DEF Issued, Named

(* A step that changes rows and not whose they are.                         *)
LEMMA KeysKept ==
  ASSUME TagsOK, tag' \in [Tags -> TagTypes],
         \A t \in Tags : tag'[t].user = tag[t].user /\ tag'[t].name = tag[t].name,
         \A t \in Issued(tag) : Fits(tag'[t]),
         thrown' \subseteq Users \X Names
  PROVE  TagsOK'
<1>1. Issued(tag') = Issued(tag)
  BY SameKeys
<1>2. Issued(tag) \subseteq Tags
  BY DEF Issued
<1>3. Unique'
  BY <1>1, <1>2 DEF TagsOK, Unique
<1> QED BY <1>1, <1>3 DEF TagsOK

LEMMA DeletedKept ==
  ASSUME TagsOK, ThrownInRows, tag' \in [Tags -> TagTypes], thrown' = thrown,
         \A t \in Tags : tag'[t].user = tag[t].user /\ tag'[t].name = tag[t].name,
         \A t \in Issued(tag) : Fits(tag'[t]) /\ (Deleted(tag'[t]) <=> Deleted(tag[t]))
  PROVE  TagsOK' /\ ThrownInRows'
<1>1. TagsOK'
  BY KeysKept DEF TagsOK
<1>2. \A u, n : Named(tag', u, n) = Named(tag, u, n)
  BY SameKeys
<1>3. ThrownInRows'
  <2>1. \A u, n : Named(tag, u, n) \subseteq Issued(tag)
    BY DEF Named
  <2> QED BY <1>2, <2>1 DEF ThrownInRows
<1> QED BY <1>1, <1>3

LEMMA OneOfAName ==
  ASSUME TagsOK, NEW t \in Issued(tag)
  PROVE  /\ t \in Tags /\ tag[t] \in TagTypes /\ tag[t].user \in Users /\ tag[t].name \in Names
         /\ Fits(tag[t])
         /\ Named(tag, tag[t].user, tag[t].name) = {t}
         /\ \A u, n : t \in Named(tag, u, n) <=> u = tag[t].user /\ n = tag[t].name
BY DEF TagsOK, TagTypes, Issued, Fits, Unique, Named

LEMMA ItemsKeep ==
  ASSUME TagsOK, WebOK, ThrownInRows, NEW u, NEW t \in Tags, NEW bs \in SUBSET Books,
         HandleAddTagItems(u, t, bs) \/ HandleRemoveTagItems(u, t, bs)
  PROVE  TagsOK' /\ ThrownInRows' /\ tag'[t].rev > tag[t].rev /\ \A x \in Tags \ {t} : tag'[x] = tag[x]
<1> DEFINE a == IF HandleAddTagItems(u, t, bs) THEN AddTagItems(tag[t], bs) ELSE RemoveTagItems(tag[t], bs)
<1>1. t \in Issued(tag) /\ tag' = [tag EXCEPT ![t] = a] /\ thrown' = thrown
  BY DEF HandleAddTagItems, HandleRemoveTagItems, HandleTagItems
<1>2. tag[t] \in TagTypes /\ Fits(tag[t]) /\ tag[t].rev \in Nat
  BY <1>1, OneOfAName DEF TagTypes
<1>3. /\ a \in TagTypes /\ a.user = tag[t].user /\ a.name = tag[t].name /\ a.origin = tag[t].origin
      /\ a.live = tag[t].live /\ a.rev = tag[t].rev + 1
  BY <1>2, ItemsFit
<1> HIDE DEF a
<1>4. Fits(a) /\ (Deleted(a) <=> Deleted(tag[t])) /\ a.rev > tag[t].rev
  BY <1>2, <1>3 DEF Fits, Deleted
<1>5. tag \in [Tags -> TagTypes] /\ \A x \in Issued(tag) : x \in Tags /\ Fits(tag[x])
  BY DEF TagsOK, Issued
<1>6. tag' \in [Tags -> TagTypes] /\ tag'[t] = a /\ \A x \in Tags \ {t} : tag'[x] = tag[x]
  BY <1>1, <1>3, <1>5
<1> QED BY <1>1, <1>3, <1>4, <1>5, <1>6, DeletedKept

LEMMA DeleteKeeps ==
  ASSUME TagsOK, ThrownInRows, NEW u \in Users, NEW t \in Tags, HandleDeleteTag(u, t)
  PROVE  TagsOK' /\ ThrownInRows' /\ tag'[t].rev > tag[t].rev /\ \A x \in Tags \ {t} : tag'[x] = tag[x]
<1> DEFINE a == DeleteTag(tag[t])
           n == tag[t].name
<1>1. t \in Issued(tag) /\ tag[t].user = u /\ tag[t].live /\ tag' = [tag EXCEPT ![t] = a]
      /\ thrown' = IF tag[t].origin = "calibre" THEN thrown \cup {<<u, n>>} ELSE thrown
  BY DEF HandleDeleteTag
<1>2. /\ tag[t] \in TagTypes /\ Fits(tag[t]) /\ tag[t].rev \in Nat /\ n \in Names /\ Named(tag, u, n) = {t}
      /\ \A v, m : t \in Named(tag, v, m) <=> v = u /\ m = n
  BY <1>1, OneOfAName DEF TagTypes
<1>3. /\ a \in TagTypes /\ a.user = tag[t].user /\ a.name = tag[t].name /\ a.origin = tag[t].origin
      /\ ~ a.live /\ a.rev = tag[t].rev + 1
  BY <1>1, <1>2, DeleteFits
<1> HIDE DEF a, n
<1>4. Fits(a) /\ (Deleted(a) <=> tag[t].origin = "calibre") /\ ~ Deleted(tag[t]) /\ a.rev > tag[t].rev
  BY <1>1, <1>2, <1>3 DEF Fits, Deleted
<1>5. tag \in [Tags -> TagTypes] /\ \A x \in Issued(tag) : x \in Tags /\ Fits(tag[x])
  BY DEF TagsOK, Issued
<1>6. tag' \in [Tags -> TagTypes] /\ tag'[t] = a /\ \A x \in Tags \ {t} : tag'[x] = tag[x]
  BY <1>1, <1>3, <1>5
<1>7. \A x \in Tags : tag'[x].user = tag[x].user /\ tag'[x].name = tag[x].name
  BY <1>3, <1>6
<1>8. TagsOK'
  <2>1. \A x \in Issued(tag) : Fits(tag'[x])
    BY <1>4, <1>5, <1>6
  <2>2. thrown' \subseteq Users \X Names
    BY <1>1, <1>2 DEF TagsOK
  <2> QED BY <1>6, <1>7, <2>1, <2>2, KeysKept
<1>9. \A v, m : Named(tag', v, m) = Named(tag, v, m) /\ Named(tag, v, m) \subseteq Tags
  BY <1>6, <1>7, SameKeys DEF Named, Issued
<1>10. ThrownInRows'
  <2> SUFFICES ASSUME NEW v \in Users, NEW m \in Names
               PROVE  <<v, m>> \in thrown' <=> \E x \in Named(tag', v, m) : Deleted(tag'[x])
    BY DEF ThrownInRows
  <2>1. CASE v = u /\ m = n
    <3>1. <<u, n>> \notin thrown
      BY <1>2, <1>4, <2>1 DEF ThrownInRows
    <3>2. Named(tag', v, m) = {t} /\ tag'[t] = a
      BY <1>2, <1>6, <1>9, <2>1
    <3>3. <<v, m>> \in thrown' <=> tag[t].origin = "calibre"
      BY <1>1, <2>1, <3>1
    <3> QED BY <1>4, <3>2, <3>3
  <2>2. CASE ~ (v = u /\ m = n)
    <3>1. t \notin Named(tag, v, m) /\ (<<v, m>> \in thrown' <=> <<v, m>> \in thrown)
      BY <1>1, <1>2, <2>2
    <3>2. \A x \in Named(tag, v, m) : tag'[x] = tag[x]
      BY <1>6, <1>9, <3>1
    <3> QED BY <1>9, <3>1, <3>2 DEF ThrownInRows
  <2> QED BY <2>1, <2>2
<1> QED BY <1>4, <1>6, <1>8, <1>10

LEMMA RenameKeeps ==
  ASSUME TagsOK, ThrownInRows, NEW u \in Users, NEW t \in Tags, NEW n \in Names, HandleRenameTag(u, t, n)
  PROVE  TagsOK' /\ ThrownInRows' /\ tag'[t].rev > tag[t].rev /\ \A x \in Tags \ {t} : tag'[x] = tag[x]
<1> DEFINE y == [tag[t] EXCEPT !.name = n]
           a == TouchTag(y)
           o == tag[t].name
<1>1. t \in Issued(tag) /\ tag[t].user = u /\ Named(tag, u, n) = {} /\ tag' = [tag EXCEPT ![t] = a]
      /\ thrown' = IF <<u, o>> \in thrown THEN (thrown \ {<<u, o>>}) \cup {<<u, n>>} ELSE thrown
  BY DEF HandleRenameTag
<1>2. /\ tag[t] \in TagTypes /\ Fits(tag[t]) /\ tag[t].rev \in Nat /\ o \in Names /\ Named(tag, u, o) = {t}
      /\ \A v, m : t \in Named(tag, v, m) <=> v = u /\ m = o
  BY <1>1, OneOfAName DEF TagTypes
<1>3. /\ y \in TagTypes /\ y.user = u /\ y.name = n /\ y.origin = tag[t].origin
      /\ y.live = tag[t].live /\ y.rev = tag[t].rev
  BY <1>1, <1>2 DEF TagTypes
<1> HIDE DEF y, o
<1>4. /\ a \in TagTypes /\ a.user = u /\ a.name = n /\ a.origin = tag[t].origin
      /\ a.live = tag[t].live /\ a.rev = tag[t].rev + 1
  BY <1>3, TouchFits
<1> HIDE DEF a
<1>5. Fits(a) /\ (Deleted(a) <=> Deleted(tag[t])) /\ a.rev > tag[t].rev /\ o # n
  BY <1>1, <1>2, <1>4 DEF Fits, Deleted
<1>6. tag \in [Tags -> TagTypes] /\ \A x \in Issued(tag) : x \in Tags /\ Fits(tag[x])
  BY DEF TagsOK, Issued
<1>7. tag' \in [Tags -> TagTypes] /\ tag'[t] = a /\ \A x \in Tags \ {t} : tag'[x] = tag[x]
  BY <1>1, <1>4, <1>6
<1>8. Issued(tag') = Issued(tag)
  <2>1. \A x \in Tags : tag'[x].user = tag[x].user
    BY <1>1, <1>4, <1>7
  <2> QED BY <2>1 DEF Issued
<1>9. TagsOK'
  <2>1. Unique'
    <3> SUFFICES ASSUME NEW x \in Issued(tag), NEW z \in Issued(tag),
                        tag'[x].user = tag'[z].user, tag'[x].name = tag'[z].name, x # z
                 PROVE  FALSE
      BY <1>8 DEF Unique
    <3>1. CASE x # t /\ z # t
      BY <1>6, <1>7, <3>1 DEF TagsOK, Unique
    <3>2. CASE x = t \/ z = t
      <4>1. PICK w \in Issued(tag) : w # t /\ tag[w].user = u /\ tag[w].name = n
        BY <1>4, <1>6, <1>7, <3>2
      <4> QED BY <1>1, <4>1 DEF Named
    <3> QED BY <3>1, <3>2
  <2>2. \A x \in Issued(tag) : Fits(tag'[x])
    BY <1>5, <1>6, <1>7
  <2>3. thrown' \subseteq Users \X Names
    BY <1>1 DEF TagsOK
  <2> QED BY <1>7, <1>8, <2>1, <2>2, <2>3 DEF TagsOK
<1>10. \A v, m : Named(tag', v, m) = IF v = u /\ m = n THEN {t} ELSE Named(tag, v, m) \ {t}
  <2> SUFFICES ASSUME NEW v, NEW m
               PROVE  Named(tag', v, m) = IF v = u /\ m = n THEN {t} ELSE Named(tag, v, m) \ {t}
    OBVIOUS
  <2>1. \A x \in Tags \ {t} : x \in Named(tag', v, m) <=> x \in Named(tag, v, m)
    BY <1>7, <1>8 DEF Named
  <2>2. t \in Named(tag', v, m) <=> v = u /\ m = n
    BY <1>1, <1>4, <1>7, <1>8 DEF Named
  <2>3. Named(tag', v, m) \subseteq Tags /\ Named(tag, v, m) \subseteq Tags
    BY <1>6, <1>8 DEF Named
  <2> QED BY <1>1, <2>1, <2>2, <2>3
<1>11. ThrownInRows'
  <2> SUFFICES ASSUME NEW v \in Users, NEW m \in Names
               PROVE  <<v, m>> \in thrown' <=> \E x \in Named(tag', v, m) : Deleted(tag'[x])
    BY DEF ThrownInRows
  <2>0. <<u, o>> \in thrown <=> Deleted(tag[t])
    BY <1>2 DEF ThrownInRows
  <2>1. CASE v = u /\ m = n
    <3>1. <<u, n>> \notin thrown
      BY <1>1, <2>1 DEF ThrownInRows
    <3>2. Named(tag', v, m) = {t} /\ tag'[t] = a
      BY <1>7, <1>10, <2>1
    <3>3. <<v, m>> \in thrown' <=> <<u, o>> \in thrown
      BY <1>1, <2>1, <3>1
    <3> QED BY <1>5, <2>0, <3>2, <3>3
  <2>2. CASE v = u /\ m = o
    <3>1. Named(tag', v, m) = {}
      BY <1>2, <1>5, <1>10, <2>2
    <3>2. <<v, m>> \notin thrown'
      BY <1>1, <1>5, <2>2
    <3> QED BY <3>1, <3>2
  <2>3. CASE ~ (v = u /\ m = n) /\ ~ (v = u /\ m = o)
    <3>1. t \notin Named(tag, v, m) /\ (<<v, m>> \in thrown' <=> <<v, m>> \in thrown)
      BY <1>1, <1>2, <2>3
    <3>2. Named(tag', v, m) = Named(tag, v, m) /\ Named(tag, v, m) \subseteq Tags
      BY <1>6, <1>10, <2>3, <3>1 DEF Named
    <3>3. \A x \in Named(tag, v, m) : tag'[x] = tag[x]
      BY <1>7, <3>1, <3>2
    <3> QED BY <3>1, <3>2, <3>3 DEF ThrownInRows
  <2> QED BY <2>1, <2>2, <2>3
<1> QED BY <1>5, <1>7, <1>9, <1>11
(* A new collection, or the one of that name, back to life.                 *)
Revived(t, x, u, n) ==
  /\ tag' = [tag EXCEPT ![t] = x]
  /\ x.user = u /\ x.name = n /\ x.live = TRUE /\ Fits(x)
  /\ \/ Named(tag, u, n) = {} /\ t \notin Issued(tag)
     \/ Named(tag, u, n) = {t} /\ t \in Issued(tag) /\ x.rev > tag[t].rev

LEMMA CreateEffect ==
  ASSUME TagsOK, WebOK, NEW u \in Users, NEW n \in Names, NEW bs \in SUBSET Books,
         HandleCreateTag(u, n, bs)
  PROVE  \E t \in Tags, x \in TagTypes : Revived(t, x, u, n)
<1> DEFINE created == CreateTag(tag, u, n, "device")
           p == CHOOSE x \in Named(created, u, n) : TRUE
<1>0. tag' = [created EXCEPT ![p] = AddTagItems(created[p], bs)]
  BY DEF HandleCreateTag
<1>1. ASSUME NEW t \in Tags, NEW y \in TagTypes, created = [tag EXCEPT ![t] = y],
             y.user = u, y.name = n, y.live = TRUE, Fits(y), Named(created, u, n) = {t}
      PROVE  LET x == AddTagItems(y, bs)
             IN  /\ x \in TagTypes /\ tag' = [tag EXCEPT ![t] = x]
                 /\ x.user = u /\ x.name = n /\ x.live = TRUE /\ Fits(x) /\ x.rev = y.rev + 1
  <2>1. p = t
    BY <1>1
  <2> HIDE DEF created, p
  <2>2. created[t] = y
    BY <1>1 DEF TagsOK
  <2>3. [created EXCEPT ![t] = AddTagItems(y, bs)] = [tag EXCEPT ![t] = AddTagItems(y, bs)]
    <3> DEFINE z == AddTagItems(y, bs)
    <3> HIDE DEF z
    <3>1. [[tag EXCEPT ![t] = y] EXCEPT ![t] = z] = [tag EXCEPT ![t] = z]
      BY DEF TagsOK
    <3> QED BY <1>1, <3>1 DEF z
  <2>4. tag' = [tag EXCEPT ![t] = AddTagItems(y, bs)]
    BY <1>0, <2>1, <2>2, <2>3
  <2>5. LET x == AddTagItems(y, bs)
        IN  /\ x \in TagTypes /\ x.user = u /\ x.name = n /\ x.live = TRUE /\ x.rev = y.rev + 1
            /\ x.origin = y.origin
    BY <1>1, ItemsFit
  <2>6. y.rev + 1 # 0
    BY <1>1 DEF TagTypes
  <2> QED BY <1>1, <2>4, <2>5, <2>6 DEF Fits
<1>2. CASE Named(tag, u, n) = {}
  <2> DEFINE t == CHOOSE x \in Tags \ Issued(tag) : TRUE
             y == [Unissued EXCEPT !.user = u, !.name = n, !.origin = "device", !.live = TRUE, !.rev = 1]
  <2>1. t \in Tags \ Issued(tag)
    <3>1. \E f \in [{<<u, n>>} -> Tags \ Issued(tag)] : \A q, r \in {<<u, n>>} : f[q] = f[r] => q = r
      <4>1. {<<u, n>>} \in SUBSET (Users \X Names) /\ \A q \in {<<u, n>>} : Named(tag, q[1], q[2]) = {}
        BY <1>2
      <4> QED BY <4>1, RowsSuffice
    <3>2. PICK f \in [{<<u, n>>} -> Tags \ Issued(tag)] : TRUE
      BY <3>1
    <3>3. f[<<u, n>>] \in Tags \ Issued(tag)
      BY <3>2
    <3> QED BY <3>3
  <2>2. created = [tag EXCEPT ![t] = y]
    BY <1>2 DEF CreateTag
  <2>3. y \in TagTypes /\ y.user = u /\ y.name = n /\ y.live = TRUE /\ y.origin = "device" /\ y.rev = 1
    BY DEF TagTypes, Unissued
  <2> HIDE DEF t, y
  <2>4. Fits(y)
    BY <2>3 DEF Fits, None
  <2> HIDE DEF created
  <2>5. Named(created, u, n) = {t}
    <3>1. DOMAIN tag = Tags
      BY DEF TagsOK
    <3>2. \A x \in Tags : created[x] = IF x = t THEN y ELSE tag[x]
      BY <2>1, <2>2, <3>1
    <3>3. \A x \in Tags : x \in Named(created, u, n) <=> x = t
      BY <1>2, <2>3, <3>2, CollectionsAssumption DEF Named, Issued
    <3> QED BY <2>1, <3>3 DEF Named, Issued
  <2>6. LET x == AddTagItems(y, bs)
        IN  /\ x \in TagTypes /\ tag' = [tag EXCEPT ![t] = x]
            /\ x.user = u /\ x.name = n /\ x.live = TRUE /\ Fits(x)
    BY <2>1, <2>2, <2>3, <2>4, <2>5, <1>1 DEF created
  <2> QED BY <1>2, <2>1, <2>6 DEF Revived
<1>3. CASE Named(tag, u, n) # {}
  <2> DEFINE t == CHOOSE x \in Named(tag, u, n) : TRUE
             y == [tag[t] EXCEPT !.live = TRUE, !.rev = tag[t].rev + 1]
  <2>1. t \in Named(tag, u, n)
    BY <1>3
  <2>2. /\ created = [tag EXCEPT ![t].live = TRUE, ![t].rev = @ + 1]
    BY <1>3, Zenon DEF CreateTag
  <2> HIDE DEF t, created
  <2>3. t \in Issued(tag) /\ tag[t].user = u /\ tag[t].name = n
    BY <2>1 DEF Named
  <2>4. t \in Tags /\ tag[t] \in TagTypes /\ Fits(tag[t]) /\ Named(tag, u, n) = {t} /\ tag[t].rev \in Nat
    BY <2>3, OneOfAName DEF TagTypes
  <2>5. created = [tag EXCEPT ![t] = y]
    <3>1. tag \in [Tags -> TagTypes]
      BY DEF TagsOK
    <3>2. [tag EXCEPT ![t].live = TRUE, ![t].rev = @ + 1] = [tag EXCEPT ![t] = y]
      <4>1. [tag EXCEPT ![t].live = TRUE][t] = [tag[t] EXCEPT !.live = TRUE]
        BY <2>4, <3>1
      <4>2. [tag[t] EXCEPT !.live = TRUE].rev = tag[t].rev
        BY <2>4 DEF TagTypes
      <4> QED BY <2>4, <3>1, <4>1, <4>2
    <3> QED BY <2>2, <3>2
  <2>6. /\ y \in TagTypes /\ y.user = u /\ y.name = n /\ y.live = TRUE /\ y.origin = tag[t].origin
        /\ y.rev = tag[t].rev + 1
    <3>1. tag[t].rev + 1 \in Nat
      BY <2>4
    <3> QED BY <2>3, <2>4, <3>1 DEF TagTypes
  <2> HIDE DEF y
  <2>7. Fits(y)
    BY <2>4, <2>6 DEF Fits
  <2>8. Named(created, u, n) = {t}
    <3>1. DOMAIN tag = Tags
      BY DEF TagsOK
    <3>2. created \in [Tags -> TagTypes] /\ \A x \in Tags : created[x] = IF x = t THEN y ELSE tag[x]
      BY <2>4, <2>5, <2>6, <3>1 DEF TagsOK
    <3>3. \A x \in Tags : created[x].user = tag[x].user /\ created[x].name = tag[x].name
      BY <2>3, <2>6, <3>2
    <3>4. Named(created, u, n) = Named(tag, u, n)
      BY <3>2, <3>3, SameKeys
    <3> QED BY <2>4, <3>4
  <2>9. LET x == AddTagItems(y, bs)
        IN  /\ x \in TagTypes /\ tag' = [tag EXCEPT ![t] = x]
            /\ x.user = u /\ x.name = n /\ x.live = TRUE /\ Fits(x) /\ x.rev = y.rev + 1
    BY <2>4, <2>5, <2>6, <2>7, <2>8, <1>1
  <2>10. tag[t].rev + 1 + 1 > tag[t].rev
    BY <2>4
  <2> QED BY <2>3, <2>4, <2>6, <2>9, <2>10 DEF Revived
<1> QED BY <1>2, <1>3

LEMMA CreateKeeps ==
  ASSUME TagsOK, WebOK, ThrownInRows, NEW u \in Users, NEW n \in Names, NEW bs \in SUBSET Books,
         HandleCreateTag(u, n, bs)
  PROVE  TagsOK' /\ ThrownInRows' /\ \A t \in Issued(tag) : tag'[t] = tag[t] \/ tag'[t].rev > tag[t].rev
<1>0. PICK t \in Tags, x \in TagTypes : Revived(t, x, u, n)
  BY CreateEffect
<1>1. /\ tag' = [tag EXCEPT ![t] = x]
      /\ x.user = u /\ x.name = n /\ x.live = TRUE /\ Fits(x)
      /\ \/ Named(tag, u, n) = {} /\ t \notin Issued(tag)
         \/ Named(tag, u, n) = {t} /\ t \in Issued(tag) /\ x.rev > tag[t].rev
  BY <1>0 DEF Revived
<1>2. thrown' = thrown \ {<<u, n>>}
  BY DEF HandleCreateTag
<1>3. tag \in [Tags -> TagTypes] /\ \A z \in Issued(tag) : z \in Tags /\ Fits(tag[z])
  BY DEF TagsOK, Issued
<1>4. tag' \in [Tags -> TagTypes] /\ tag'[t] = x /\ \A z \in Tags \ {t} : tag'[z] = tag[z]
  BY <1>1, <1>3
<1>5. Issued(tag') = Issued(tag) \cup {t}
  BY <1>1, <1>4, CollectionsAssumption DEF Issued
<1>6. \A z \in Issued(tag) : tag[z].user = u /\ tag[z].name = n => z = t
  BY <1>1 DEF Named
<1>7. TagsOK'
  <2>1. Unique'
    <3> SUFFICES ASSUME NEW w \in Issued(tag) \cup {t}, NEW z \in Issued(tag) \cup {t},
                        tag'[w].user = tag'[z].user, tag'[w].name = tag'[z].name, w # z
                 PROVE  FALSE
      BY <1>5 DEF Unique
    <3>1. CASE w # t /\ z # t
      BY <1>3, <1>4, <3>1 DEF TagsOK, Unique
    <3>2. CASE w = t \/ z = t
      BY <1>1, <1>3, <1>4, <1>6, <3>2
    <3> QED BY <3>1, <3>2
  <2>2. \A z \in Issued(tag') : Fits(tag'[z])
    BY <1>1, <1>3, <1>4, <1>5
  <2>3. thrown' \subseteq Users \X Names
    BY <1>2 DEF TagsOK
  <2> QED BY <1>4, <2>1, <2>2, <2>3 DEF TagsOK
<1>8. \A v, m : Named(tag', v, m) = IF v = u /\ m = n THEN {t} ELSE Named(tag, v, m)
  <2> SUFFICES ASSUME NEW v, NEW m
               PROVE  Named(tag', v, m) = IF v = u /\ m = n THEN {t} ELSE Named(tag, v, m)
    OBVIOUS
  <2>1. \A z \in Tags \ {t} : z \in Named(tag', v, m) <=> z \in Named(tag, v, m)
    BY <1>4, <1>5 DEF Named
  <2>2. t \in Named(tag', v, m) <=> v = u /\ m = n
    BY <1>1, <1>4, <1>5 DEF Named
  <2>4. Named(tag', v, m) \subseteq Tags /\ Named(tag, v, m) \subseteq Tags
    BY <1>3, <1>5 DEF Named
  <2>5. CASE v = u /\ m = n
    <3>1. \A z \in Tags \ {t} : z \notin Named(tag, v, m)
      BY <1>1, <2>5
    <3> QED BY <2>1, <2>2, <2>4, <2>5, <3>1
  <2>6. CASE ~ (v = u /\ m = n)
    <3>1. t \notin Named(tag, v, m)
      BY <1>1, <2>6 DEF Named
    <3> QED BY <2>1, <2>2, <2>4, <2>6, <3>1
  <2> QED BY <2>5, <2>6
<1>9. ThrownInRows'
  <2> SUFFICES ASSUME NEW v \in Users, NEW m \in Names
               PROVE  <<v, m>> \in thrown' <=> \E z \in Named(tag', v, m) : Deleted(tag'[z])
    BY DEF ThrownInRows
  <2>1. CASE v = u /\ m = n
    <3>1. Named(tag', v, m) = {t} /\ tag'[t] = x
      BY <1>4, <1>8, <2>1
    <3>2. ~ Deleted(x) /\ <<v, m>> \notin thrown'
      BY <1>1, <1>2, <2>1 DEF Deleted
    <3> QED BY <3>1, <3>2
  <2>2. CASE ~ (v = u /\ m = n)
    <3>1. <<v, m>> \in thrown' <=> <<v, m>> \in thrown
      BY <1>2, <2>2
    <3>2. Named(tag', v, m) = Named(tag, v, m) /\ t \notin Named(tag, v, m) /\ Named(tag, v, m) \subseteq Tags
      <4>1. Named(tag', v, m) = Named(tag, v, m)
        BY <1>8, <2>2
      <4>2. t \notin Named(tag, v, m)
        BY <1>1, <2>2 DEF Named
      <4>3. Named(tag, v, m) \subseteq Tags
        BY <1>3 DEF Named
      <4> QED BY <4>1, <4>2, <4>3
    <3>3. \A z \in Named(tag, v, m) : tag'[z] = tag[z]
      BY <1>4, <3>2
    <3> QED BY <3>1, <3>2, <3>3 DEF ThrownInRows
  <2> QED BY <2>1, <2>2
<1>10. \A z \in Issued(tag) : tag'[z] = tag[z] \/ tag'[z].rev > tag[z].rev
  <2> SUFFICES ASSUME NEW z \in Issued(tag), z = t PROVE tag'[z].rev > tag[z].rev
    BY <1>3, <1>4
  <2> QED BY <1>1, <1>4
<1> QED BY <1>7, <1>9, <1>10

(* A merge moves members, and nothing else.                                 *)
LEMMA MergeKeeps ==
  ASSUME TagsOK, ThrownInRows, thrown' = thrown, NEW l \in Books, NEW w \in Books, MergeBooks(l, w)
  PROVE  TagsOK' /\ ThrownInRows'
<1>1. tag \in [Tags -> TagTypes] /\ \A z \in Issued(tag) : z \in Tags /\ Fits(tag[z])
  BY DEF TagsOK, Issued
<1>2. ASSUME NEW t \in Tags
      PROVE  /\ tag'[t] \in TagTypes /\ tag'[t].user = tag[t].user /\ tag'[t].name = tag[t].name
             /\ tag'[t].origin = tag[t].origin /\ tag'[t].live = tag[t].live /\ tag'[t].rev = tag[t].rev
  <2> DEFINE bs == (tag[t].books \ {l}) \cup {w}
  <2>1. tag'[t] = IF l \in tag[t].books THEN [tag[t] EXCEPT !.books = bs] ELSE tag[t]
    BY DEF MergeBooks
  <2>2. bs \subseteq Books /\ tag[t] \in TagTypes
    BY <1>1 DEF TagTypes
  <2> HIDE DEF bs
  <2>3. CASE l \in tag[t].books
    <3>1. tag'[t] = [tag[t] EXCEPT !.books = bs]
      BY <2>1, <2>3
    <3> QED BY <2>2, <3>1 DEF TagTypes
  <2>4. CASE l \notin tag[t].books
    BY <2>1, <2>2, <2>4
  <2> QED BY <2>3, <2>4
<1>3. tag' \in [Tags -> TagTypes]
  <2>1. DOMAIN tag' = Tags /\ tag' = [t \in Tags |-> tag'[t]]
    BY DEF MergeBooks
  <2> QED BY <1>2, <2>1
<1>4. \A t \in Issued(tag) : Fits(tag'[t]) /\ (Deleted(tag'[t]) <=> Deleted(tag[t]))
  BY <1>1, <1>2 DEF Fits, Deleted
<1> QED BY <1>2, <1>3, <1>4, DeletedKept

(* A rebuild throws nothing away and brings nothing back, and leaves the      *)
(* shelves that its mode asks for.                                            *)
LEMMA RebuildKeeps ==
  ASSUME TagsOK, WebOK, ThrownInRows, NEW mode, tag' = Rebuilt(mode), thrown' = thrown,
         UNCHANGED <<row, book, source, setting>>
  PROVE  TagsOK' /\ ThrownInRows' /\ Match(mode)'
<1> DEFINE I == Issued(tag)
           L == Lacking(mode)
<1>1. /\ DOMAIN tag' = Tags
      /\ \A t \in I : tag'[t] = Apply(tag[t], mode)
      /\ \A t \in Tags \ I : tag'[t] = tag[t] \/ \E p \in L : tag'[t] = Made(p, mode)
      /\ \A p \in L : \E t \in Tags \ I : tag'[t] = Made(p, mode)
      /\ \A p \in L : \A t, x \in Tags \ I : tag'[t] = Made(p, mode) /\ tag'[x] = Made(p, mode) => t = x
  BY RebuiltRows
<1>2. \A t \in I : /\ t \in Tags /\ tag[t] \in TagTypes /\ tag[t].user \in Users /\ tag[t].name \in Names
                   /\ Fits(tag[t]) /\ Named(tag, tag[t].user, tag[t].name) = {t}
  BY OneOfAName
<1>3. \A p \in L : /\ p \in Users \X Names /\ Named(tag, p[1], p[2]) = {} /\ Derived(p[1], p[2], mode) # {}
  BY DEF Lacking
<1>4. \A p \in L : LET x == Made(p, mode)
                   IN  /\ x \in TagTypes /\ x.user = p[1] /\ x.name = p[2] /\ Fits(x)
                       /\ Ours(x) /\ x.books = Derived(p[1], p[2], mode)
  BY <1>3, MadeFits
<1>5. \A t \in Tags \ I : tag[t].user = None /\ tag[t] \in TagTypes
  BY DEF Issued, TagsOK
<1>6. \A t \in I : LET x == tag'[t]
                       d == Derived(tag[t].user, tag[t].name, mode)
                   IN  /\ x \in TagTypes /\ x.user = tag[t].user /\ x.name = tag[t].name
                       /\ Fits(x) /\ (Deleted(x) <=> Deleted(tag[t]))
                       /\ d # {} /\ ~ Deleted(tag[t]) => Ours(x) /\ x.books = d
                       /\ d = {} => ~ Ours(x)
  <2> SUFFICES ASSUME NEW t \in I
               PROVE  LET x == Apply(tag[t], mode)
                          d == Derived(tag[t].user, tag[t].name, mode)
                      IN  /\ x \in TagTypes /\ x.user = tag[t].user /\ x.name = tag[t].name
                          /\ Fits(x) /\ (Deleted(x) <=> Deleted(tag[t]))
                          /\ d # {} /\ ~ Deleted(tag[t]) => Ours(x) /\ x.books = d
                          /\ d = {} => ~ Ours(x)
    BY <1>1
  <2> HIDE DEF I
  <2>1. tag[t] \in TagTypes /\ Fits(tag[t])
    BY <1>2
  <2> QED BY <2>1, ApplyFits
<1> HIDE DEF L
<1>7. tag' \in [Tags -> TagTypes]
  <2>1. \A t \in Tags : tag'[t] \in TagTypes
    BY <1>1, <1>4, <1>5, <1>6
  <2>2. tag' = [t \in Tags |-> tag'[t]]
    BY DEF Rebuilt
  <2> QED BY <2>1, <2>2
<1>8. \A t \in Issued(tag') : t \in I \/ \E p \in L : t \in Tags \ I /\ tag'[t] = Made(p, mode)
  BY <1>1, <1>5 DEF Issued
<1>9. I \subseteq Issued(tag')
  BY <1>2, <1>6, CollectionsAssumption DEF Issued
<1>10. \A p \in L : \A t \in Tags \ I : tag'[t] = Made(p, mode) => t \in Issued(tag')
  BY <1>3, <1>4, CollectionsAssumption DEF Issued
<1> HIDE DEF I
<1>11. ASSUME NEW t \in Issued(tag'), NEW x \in Issued(tag'),
              tag'[t].user = tag'[x].user, tag'[t].name = tag'[x].name
       PROVE  t = x
  <2>1. CASE t \in I /\ x \in I
    BY <1>2, <1>6, <1>11, <2>1
  <2>2. CASE t \in I /\ x \notin I
    <3>1. PICK p \in L : tag'[x] = Made(p, mode)
      BY <1>8, <2>2
    <3>2. Named(tag, tag[t].user, tag[t].name) = {}
      BY <1>3, <1>4, <1>6, <1>11, <2>2, <3>1
    <3> QED BY <1>2, <2>2, <3>2
  <2>3. CASE t \notin I /\ x \in I
    <3>1. PICK p \in L : tag'[t] = Made(p, mode)
      BY <1>8, <2>3
    <3>2. Named(tag, tag[x].user, tag[x].name) = {}
      BY <1>3, <1>4, <1>6, <1>11, <2>3, <3>1
    <3> QED BY <1>2, <2>3, <3>2
  <2>4. CASE t \notin I /\ x \notin I
    <3>1. PICK p \in L : tag'[t] = Made(p, mode) /\ t \in Tags \ I
      BY <1>8, <2>4
    <3>2. PICK q \in L : tag'[x] = Made(q, mode) /\ x \in Tags \ I
      BY <1>8, <2>4
    <3>3. p = q
      BY <1>3, <1>4, <1>11, <3>1, <3>2
    <3> QED BY <1>1, <3>1, <3>2, <3>3
  <2> QED BY <2>1, <2>2, <2>3, <2>4
<1>12. TagsOK'
  <2>1. \A t \in Issued(tag') : Fits(tag'[t])
    BY <1>4, <1>6, <1>8
  <2> QED BY <1>7, <1>11, <2>1 DEF TagsOK, Unique
(* Of a name that has a row, that row; of one that has none, the one made. *)
<1>13. ASSUME NEW u \in Users, NEW n \in Names
       PROVE  LET d == Derived(u, n, mode)
                  new == Named(tag', u, n)
              IN  /\ \A t \in new : Deleted(tag'[t]) <=> <<u, n>> \in thrown
                  /\ <<u, n>> \in thrown => new # {}
                  /\ d # {} => new # {}
                  /\ d # {} /\ <<u, n>> \notin thrown => \A t \in new : Ours(tag'[t]) /\ tag'[t].books = d
                  /\ d = {} => \A t \in new : ~ Ours(tag'[t])
  <2> DEFINE d == Derived(u, n, mode)
             new == Named(tag', u, n)
  <2>1. CASE \E t \in Tags : Named(tag, u, n) = {t}
    <3>1. PICK t \in Tags : Named(tag, u, n) = {t}
      BY <2>1
    <3>2. t \in I /\ tag[t].user = u /\ tag[t].name = n
      BY <3>1 DEF Named, I
    <3>3. tag'[t].user = u /\ tag'[t].name = n /\ t \in Issued(tag')
      BY <1>6, <1>9, <3>2
    <3>4. new = {t}
      BY <1>11, <3>3 DEF Named
    <3>5. Deleted(tag[t]) <=> <<u, n>> \in thrown
      BY <3>1 DEF ThrownInRows
    <3> HIDE DEF d, new
    <3>6. /\ Deleted(tag'[t]) <=> Deleted(tag[t])
          /\ d # {} /\ ~ Deleted(tag[t]) => Ours(tag'[t]) /\ tag'[t].books = d
          /\ d = {} => ~ Ours(tag'[t])
      BY <1>6, <3>2 DEF d
    <3> QED BY <3>4, <3>5, <3>6 DEF d, new
  <2>2. CASE Named(tag, u, n) = {}
    <3>1. <<u, n>> \notin thrown
      BY <2>2 DEF ThrownInRows
    <3>2. CASE d = {}
      <4>1. new = {}
        <5> SUFFICES ASSUME NEW t \in new PROVE FALSE
          OBVIOUS
        <5>1. t \in Issued(tag') /\ tag'[t].user = u /\ tag'[t].name = n
          BY DEF Named
        <5>2. CASE t \in I
          <6>1. t \in Named(tag, u, n)
            BY <1>6, <5>1, <5>2 DEF Named, I
          <6> QED BY <2>2, <6>1
        <5>3. CASE t \notin I
          <6>1. PICK p \in L : tag'[t] = Made(p, mode)
            BY <1>8, <5>1, <5>3
          <6>2. p[1] = u /\ p[2] = n
            BY <1>4, <5>1, <6>1
          <6> QED BY <1>3, <3>2, <6>2
        <5> QED BY <5>2, <5>3
      <4> QED BY <3>1, <3>2, <4>1
    <3>3. CASE d # {}
      <4>1. <<u, n>> \in L
        BY <2>2, <3>3 DEF L, Lacking
      <4>2. PICK t \in Tags \ I : tag'[t] = Made(<<u, n>>, mode)
        BY <1>1, <4>1
      <4>3. t \in Issued(tag') /\ tag'[t].user = u /\ tag'[t].name = n /\ Ours(tag'[t]) /\ tag'[t].books = d
        BY <1>4, <1>10, <4>1, <4>2
      <4>4. new = {t}
        BY <1>11, <4>3 DEF Named
      <4>5. ~ Deleted(tag'[t])
        BY <4>3 DEF Ours, Deleted
      <4> HIDE DEF d, new
      <4> QED BY <3>1, <3>3, <4>3, <4>4, <4>5 DEF d, new
    <3> QED BY <3>2, <3>3
  <2>3. Named(tag, u, n) = {} \/ \E t \in Tags : Named(tag, u, n) = {t}
    <3> SUFFICES ASSUME NEW t \in Named(tag, u, n) PROVE t \in Tags /\ Named(tag, u, n) = {t}
      OBVIOUS
    <3> QED BY <1>2 DEF Named, I
  <2> QED BY <2>1, <2>2, <2>3
<1>14. ThrownInRows'
  BY <1>13 DEF ThrownInRows
<1>15. \A u, n : Derived(u, n, mode)' = Derived(u, n, mode)
  BY DEF Derived, Visible, Listings, SeriesOf
<1>16. Match(mode)'
  <2>1. \A u \in Users, n \in Names :
          IF Derived(u, n, mode) = {} \/ <<u, n>> \in thrown
          THEN \A t \in Named(tag', u, n) : ~ Ours(tag'[t])
          ELSE \E t \in Named(tag', u, n) : Ours(tag'[t]) /\ tag'[t].books = Derived(u, n, mode)
    <3> SUFFICES ASSUME NEW u \in Users, NEW n \in Names
                 PROVE  IF Derived(u, n, mode) = {} \/ <<u, n>> \in thrown
                        THEN \A t \in Named(tag', u, n) : ~ Ours(tag'[t])
                        ELSE \E t \in Named(tag', u, n) : Ours(tag'[t]) /\ tag'[t].books = Derived(u, n, mode)
      OBVIOUS
    <3> DEFINE d == Derived(u, n, mode)
               new == Named(tag', u, n)
    <3>1. /\ \A t \in new : Deleted(tag'[t]) <=> <<u, n>> \in thrown
          /\ d # {} => new # {}
          /\ d # {} /\ <<u, n>> \notin thrown => \A t \in new : Ours(tag'[t]) /\ tag'[t].books = d
          /\ d = {} => \A t \in new : ~ Ours(tag'[t])
      BY <1>13
    <3>2. \A t \in new : Deleted(tag'[t]) => ~ Ours(tag'[t])
      BY DEF Ours, Deleted
    <3> HIDE DEF d, new
    <3> QED BY <3>1, <3>2 DEF d, new
  <2> QED BY <1>15, <2>1 DEF Match
<1> QED BY <1>12, <1>14, <1>16
-----------------------------------------------------------------------------
(***************************************************************************)
(* Scans.                                                                  *)
(***************************************************************************)
LEMMA ReadAsFits ==
  ASSUME NEW says \in SayTypes, NEW labels
  PROVE  ReadAs(says, labels) \in SayTypes
<1>1. says.columns \in [Labels -> SUBSET Names]
  BY DEF SayTypes
<1> DEFINE cols == [l \in Labels |-> IF l \in labels THEN says.columns[l] ELSE {}]
<1>2. cols \in [Labels -> SUBSET Names]
  BY <1>1
<1>3. ReadAs(says, labels) = [says EXCEPT !.columns = cols]
  BY DEF ReadAs
<1> HIDE DEF cols
<1> QED BY <1>2, <1>3 DEF SayTypes

LEMMA SameSource ==
  ASSUME NEW z, SignedOK(z), RowsOK(z), ReadOK(z),
         scan'[z] = scan[z], z \in missed' <=> z \in missed,
         source'[z].signed = source[z].signed, source'[z].columnsRead = source[z].columnsRead,
         \A b \in BooksOf(z) : library'[b] = library[b] /\ row'[b] = row[b]
  PROVE  SignedOK(z)' /\ RowsOK(z)' /\ ReadOK(z)'
<1>1. \A b \in BooksOf(z) : \A x : UpToDate(b, x)' <=> UpToDate(b, x)
  BY DEF UpToDate, BooksOf
<1>2. SignedOK(z)'
  BY DEF SignedOK, BooksOf
<1>3. RowsOK(z)'
  <2> SUFFICES ASSUME RowsOK(z), ~ (scan[z].running /\ scan[z].all) /\ z \notin missed,
                      NEW b \in BooksOf(z), ~ library[b].changed
               PROVE  row[b] = ReadAs(library[b].says, source'[BookSource[b]].columnsRead)
    BY DEF RowsOK, BooksOf, UpToDate
  <2> QED BY DEF RowsOK, BooksOf, UpToDate
<1>4. ReadOK(z)'
  <2> SUFFICES ASSUME scan[z].running
               PROVE
                 /\ DOMAIN scan[z].books \subseteq BooksOf(z)
                 /\ scan[z].all => DOMAIN scan[z].books = BooksOf(z)
                 /\ scan[z].current => scan[z].later = {}
                 /\ \A b \in DOMAIN scan[z].books \ scan[z].later :
                      scan[z].books[b] = ReadAs(library'[b].says, source'[BookSource[b]].columnsRead)
                 /\ \A b \in BooksOf(z) \cap scan[z].later : library'[b].changed
                 /\ \A b \in BooksOf(z) \ DOMAIN scan[z].books : library'[b].changed => b \in scan[z].later
    BY DEF ReadOK, BooksOf, UpToDate
  <2>1. DOMAIN scan[z].books \subseteq BooksOf(z)
    BY DEF ReadOK
  <2>2. \A b \in DOMAIN scan[z].books \ scan[z].later :
                      scan[z].books[b] = ReadAs(library'[b].says, source'[BookSource[b]].columnsRead)
    BY <2>1 DEF ReadOK, BooksOf, UpToDate
  <2>3. /\ \A b \in BooksOf(z) \cap scan[z].later : library'[b].changed
        /\ \A b \in BooksOf(z) \ DOMAIN scan[z].books : library'[b].changed => b \in scan[z].later
    BY DEF ReadOK
  <2> QED BY <2>1, <2>2, <2>3 DEF ReadOK
<1> QED BY <1>2, <1>3, <1>4

LEMMA LibraryStays ==
  ASSUME LibraryOK, ScansOK, UNCHANGED <<row, library, source, scan, missed>>
  PROVE  LibraryOK' /\ ScansOK'
<1>1. LibraryOK'
  BY DEF LibraryOK
<1>2. ScansOK'
  BY SameSource DEF ScansOK
<1> QED BY <1>1, <1>2

(* What an operator sets at a source is not what scans go by.               *)
LEMMA SourceSet ==
  ASSUME LibraryOK, ScansOK, UNCHANGED <<row, library, scan, missed>>, source' \in [Sources -> SourceTypes],
         \A z \in Sources : /\ source'[z].signed = source[z].signed
                            /\ source'[z].columnsRead = source[z].columnsRead
                            /\ source'[z].chosen \subseteq source'[z].known \cap Usable
  PROVE  LibraryOK' /\ ScansOK'
<1>1. LibraryOK'
  BY DEF LibraryOK
<1>2. ScansOK'
  BY SameSource DEF ScansOK
<1> QED BY <1>1, <1>2

LEMMA SharingKeeps ==
  ASSUME LibraryOK, ScansOK, NEW s \in Sources, NEW users \in SUBSET Users, HandleSetSharing(s, users)
  PROVE  LibraryOK' /\ ScansOK'
<1> DEFINE x == [source[s] EXCEPT !.shareAll = (users = {}), !.acl = users]
<1>1. source \in [Sources -> SourceTypes] /\ source[s] \in SourceTypes
  BY DEF LibraryOK
<1>2. x \in SourceTypes /\ x.signed = source[s].signed /\ x.columnsRead = source[s].columnsRead
      /\ x.known = source[s].known /\ x.chosen = source[s].chosen
  BY <1>1 DEF SourceTypes
<1>3. source' = [source EXCEPT ![s] = x]
  BY <1>1 DEF HandleSetSharing, SourceTypes
<1> HIDE DEF x
<1>4. source' \in [Sources -> SourceTypes] /\ source'[s] = x /\ \A z \in Sources \ {s} : source'[z] = source[z]
  BY <1>1, <1>2, <1>3
<1>5. UNCHANGED <<row, library, scan, missed>>
  BY DEF HandleSetSharing, libraryVars
<1> QED BY <1>2, <1>4, <1>5, SourceSet DEF LibraryOK

LEMMA ToggleKeeps ==
  ASSUME LibraryOK, ScansOK, NEW s \in Sources, HandleToggleSource(s)
  PROVE  LibraryOK' /\ ScansOK'
<1> DEFINE x == [source[s] EXCEPT !.enabled = ~ source[s].enabled]
<1>1. source \in [Sources -> SourceTypes] /\ source[s] \in SourceTypes
  BY DEF LibraryOK
<1>2. x \in SourceTypes /\ x.signed = source[s].signed /\ x.columnsRead = source[s].columnsRead
      /\ x.known = source[s].known /\ x.chosen = source[s].chosen
  BY <1>1 DEF SourceTypes
<1>3. source' = [source EXCEPT ![s] = x]
  BY <1>1 DEF HandleToggleSource
<1> HIDE DEF x
<1>4. source' \in [Sources -> SourceTypes] /\ source'[s] = x /\ \A z \in Sources \ {s} : source'[z] = source[z]
  BY <1>1, <1>2, <1>3
<1>5. UNCHANGED <<row, library, scan, missed>>
  BY DEF HandleToggleSource, libraryVars
<1> QED BY <1>2, <1>4, <1>5, SourceSet DEF LibraryOK

LEMMA ColumnsKeep ==
  ASSUME LibraryOK, ScansOK, NEW s \in Sources, NEW labels \in SUBSET Labels, SetShelfColumns(s, labels)
  PROVE  LibraryOK' /\ ScansOK'
<1> DEFINE c == labels \cap source[s].known \cap Usable
           x == [source[s] EXCEPT !.chosen = c]
<1>1. source \in [Sources -> SourceTypes] /\ source[s] \in SourceTypes
  BY DEF LibraryOK
<1>2. c \in SUBSET Labels /\ c \subseteq source[s].known \cap Usable
  OBVIOUS
<1>3. source' = [source EXCEPT ![s] = x]
  BY <1>1 DEF SetShelfColumns
<1> HIDE DEF c
<1>4. x \in SourceTypes /\ x.signed = source[s].signed /\ x.columnsRead = source[s].columnsRead
      /\ x.known = source[s].known /\ x.chosen = c
  BY <1>1, <1>2 DEF SourceTypes
<1> HIDE DEF x
<1>5. source' \in [Sources -> SourceTypes] /\ source'[s] = x /\ \A z \in Sources \ {s} : source'[z] = source[z]
  BY <1>1, <1>3, <1>4
<1>6. UNCHANGED <<row, library, scan, missed>>
  BY DEF SetShelfColumns, libraryVars
<1> QED BY <1>2, <1>4, <1>5, <1>6, SourceSet DEF LibraryOK

(* Calibre changes a book: what a scan under way has read of it is old.     *)
LEMMA EditKeeps ==
  ASSUME LibraryOK, ScansOK, NEW b \in Books, NEW says \in Says[b], CalibreEdits(b, says)
  PROVE  LibraryOK' /\ ScansOK'
<1> DEFINE s == BookSource[b]
           x == [source[s] EXCEPT !.signed = FALSE]
           y == [scan[s] EXCEPT !.current = FALSE, !.later = scan[s].later \cup {b}]
<1>1. /\ source \in [Sources -> SourceTypes] /\ library \in [Books -> [says : SayTypes, changed : BOOLEAN]]
      /\ s \in Sources /\ source[s] \in SourceTypes
      /\ scan[s] = Idle \/ scan[s] \in ReadTypes
      /\ says \in SayTypes
  BY CollectionsAssumption DEF LibraryOK, SayTypes
<1>2. /\ x \in SourceTypes /\ ~ x.signed /\ x.columnsRead = source[s].columnsRead
      /\ x.known = source[s].known /\ x.chosen = source[s].chosen
  BY <1>1 DEF SourceTypes
<1>3. source' = [source EXCEPT ![s] = x]
  BY <1>1 DEF CalibreEdits
<1>4. /\ library' = [library EXCEPT ![b] = [says |-> says, changed |-> TRUE]]
      /\ scan' = [z \in Sources |-> IF z = s /\ scan[z].running
                                    THEN [scan[z] EXCEPT !.current = FALSE, !.later = scan[z].later \cup {b}]
                                    ELSE scan[z]]
      /\ row' = row /\ missed' = missed
  BY DEF CalibreEdits
<1>5. scan[s].running => /\ scan[s] \in ReadTypes /\ y \in ReadTypes /\ y.running /\ ~ y.current
                         /\ y.later = scan[s].later \cup {b}
                         /\ y.books = scan[s].books /\ y.all = scan[s].all
  <2> SUFFICES ASSUME scan[s] \in ReadTypes
               PROVE  /\ y \in ReadTypes /\ y.running /\ ~ y.current /\ y.later = scan[s].later \cup {b}
                      /\ y.books = scan[s].books /\ y.all = scan[s].all
    BY <1>1 DEF Idle
  <2>1. scan[s].later \cup {b} \in SUBSET Books
    BY DEF ReadTypes
  <2> QED BY <2>1 DEF ReadTypes
<1>6. scan'[s] = (IF scan[s].running THEN y ELSE scan[s]) /\ DOMAIN scan' = Sources
      /\ \A z \in Sources \ {s} : scan'[z] = scan[z]
  BY <1>1, <1>4
<1> HIDE DEF x, y
<1>7. source' \in [Sources -> SourceTypes] /\ source'[s] = x /\ \A z \in Sources \ {s} : source'[z] = source[z]
  BY <1>1, <1>2, <1>3
<1>8. /\ library' \in [Books -> [says : SayTypes, changed : BOOLEAN]]
      /\ library'[b].changed /\ \A c \in Books \ {b} : library'[c] = library[c]
  BY <1>1, <1>4
<1>9. LibraryOK'
  <2>1. \A z \in Sources : source'[z].chosen \subseteq source'[z].known \cap Usable
    BY <1>2, <1>7 DEF LibraryOK
  <2>2. \A z \in Sources : scan'[z] = Idle \/ scan'[z] \in ReadTypes
    BY <1>5, <1>6 DEF LibraryOK
  <2> QED BY <1>4, <1>6, <1>7, <1>8, <2>1, <2>2 DEF LibraryOK
<1>10. ASSUME NEW z \in Sources \ {s}
       PROVE  SignedOK(z)' /\ RowsOK(z)' /\ ReadOK(z)'
  <2>1. \A c \in BooksOf(z) : library'[c] = library[c] /\ row'[c] = row[c]
    BY <1>4, <1>8 DEF BooksOf
  <2> QED BY <1>4, <1>6, <1>7, <2>1, SameSource DEF ScansOK
<1>11. SignedOK(s)'
  BY <1>2, <1>7 DEF SignedOK
<1>12. \A c \in BooksOf(s) : /\ c \in Books /\ BookSource[c] = s
                             /\ source'[s].columnsRead = source[s].columnsRead
                             /\ c # b => library'[c] = library[c]
  BY <1>2, <1>7, <1>8 DEF BooksOf
<1> HIDE DEF s
<1>13. RowsOK(s)'
  <2> SUFFICES ASSUME ~ (scan'[s].running /\ scan'[s].all), s \notin missed,
                      NEW c \in BooksOf(s), ~ library'[c].changed
               PROVE  row[c] = ReadAs(library'[c].says, source'[s].columnsRead)
    BY <1>4, <1>12 DEF RowsOK, BooksOf, UpToDate
  <2>1. c # b /\ library'[c] = library[c]
    BY <1>8, <1>12
  <2>2. ~ (scan[s].running /\ scan[s].all)
    BY <1>5, <1>6
  <2> QED BY <1>1, <1>12, <2>1, <2>2 DEF ScansOK, RowsOK, UpToDate
<1>14. ReadOK(s)'
  <2> SUFFICES ASSUME scan'[s].running
               PROVE
                 /\ DOMAIN scan'[s].books \subseteq BooksOf(s)
                 /\ scan'[s].all => DOMAIN scan'[s].books = BooksOf(s)
                 /\ scan'[s].current => scan'[s].later = {}
                 /\ \A c \in DOMAIN scan'[s].books \ scan'[s].later :
                      scan'[s].books[c] = ReadAs(library'[c].says, source'[BookSource[c]].columnsRead)
                 /\ \A c \in BooksOf(s) \cap scan'[s].later : library'[c].changed
                 /\ \A c \in BooksOf(s) \ DOMAIN scan'[s].books : library'[c].changed => c \in scan'[s].later
    BY DEF ReadOK, BooksOf, UpToDate
  <2>1. scan[s].running /\ scan'[s] = y
    BY <1>6
  <2>2. /\ ~ y.current /\ y.later = scan[s].later \cup {b} /\ y.books = scan[s].books /\ y.all = scan[s].all
    BY <1>5, <2>1
  <2>3. /\ DOMAIN scan[s].books \subseteq BooksOf(s)
        /\ scan[s].all => DOMAIN scan[s].books = BooksOf(s)
        /\ \A c \in DOMAIN scan[s].books \ scan[s].later : UpToDate(c, scan[s].books[c])
        /\ \A c \in BooksOf(s) \cap scan[s].later : library[c].changed
        /\ \A c \in BooksOf(s) \ DOMAIN scan[s].books : library[c].changed => c \in scan[s].later
    BY <1>1, <2>1 DEF ScansOK, ReadOK
  <2>4. \A c \in DOMAIN scan'[s].books \ scan'[s].later :
                      scan'[s].books[c] = ReadAs(library'[c].says, source'[BookSource[c]].columnsRead)
    BY <1>12, <2>1, <2>2, <2>3 DEF UpToDate
  <2>5. \A c \in BooksOf(s) \cap scan'[s].later : library'[c].changed
    BY <1>8, <1>12, <2>1, <2>2, <2>3
  <2>6. \A c \in BooksOf(s) \ DOMAIN scan'[s].books : library'[c].changed => c \in scan'[s].later
    BY <1>8, <1>12, <2>1, <2>2, <2>3
  <2> QED BY <2>1, <2>2, <2>3, <2>4, <2>5, <2>6
<1> QED BY <1>9, <1>10, <1>11, <1>13, <1>14 DEF ScansOK
LEMMA ScanReadsKeeps ==
  ASSUME LibraryOK, ScansOK, NEW s \in Sources, ScanReads(s)
  PROVE  /\ LibraryOK' /\ ScansOK'
         /\ \A z \in Sources : /\ source'[z].enabled = source[z].enabled
                               /\ source'[z].shareAll = source[z].shareAll /\ source'[z].acl = source[z].acl
<1> DEFINE labels == source[s].chosen \cap Labels \cap Usable
           read == ToRead(s, labels)
           books == [b \in read |-> ReadAs(library[b].says, labels)]
           whole == labels # source[s].columnsRead
           x == [source[s] EXCEPT !.known = Labels, !.columnsRead = labels, !.signed = FALSE]
           y == [running |-> TRUE, books |-> books, current |-> TRUE, later |-> {}, all |-> whole]
<1>1. /\ source \in [Sources -> SourceTypes] /\ library \in [Books -> [says : SayTypes, changed : BOOLEAN]]
      /\ source[s] \in SourceTypes
  BY DEF LibraryOK
<1>2. labels \in SUBSET Labels /\ labels \subseteq Usable
  OBVIOUS
<1>3. /\ ~ scan[s].running /\ scan' = [scan EXCEPT ![s] = y]
      /\ row' = row /\ library' = library /\ missed' = missed
  BY DEF ScanReads
<1>4. source' = [source EXCEPT ![s] = x]
  BY <1>1 DEF ScanReads
<1>5. /\ x \in SourceTypes /\ ~ x.signed /\ x.columnsRead = labels /\ x.known = Labels
      /\ x.chosen = source[s].chosen /\ x.enabled = source[s].enabled /\ x.shareAll = source[s].shareAll
      /\ x.acl = source[s].acl
  BY <1>1, <1>2 DEF SourceTypes
<1>6. read = {b \in BooksOf(s) : library[b].changed \/ whole} /\ read \subseteq Books
  BY DEF ToRead, BooksOf
<1> HIDE DEF read, labels
<1>7. books \in [read -> SayTypes] /\ DOMAIN books = read
      /\ \A b \in read : books[b] = ReadAs(library[b].says, labels)
  <2>1. \A b \in read : library[b].says \in SayTypes
    BY <1>1, <1>6
  <2> QED BY <2>1, ReadAsFits
<1>8. whole \in BOOLEAN /\ (~ whole => source[s].columnsRead = labels)
  OBVIOUS
<1> HIDE DEF books, whole, x
<1>9. y \in ReadTypes /\ y.running /\ y.books = books /\ y.later = {} /\ y.all = whole
  BY <1>6, <1>7, <1>8 DEF ReadTypes
<1> HIDE DEF y
<1>10. /\ source' \in [Sources -> SourceTypes] /\ source'[s] = x
       /\ \A z \in Sources \ {s} : source'[z] = source[z]
       /\ scan'[s] = y /\ DOMAIN scan' = Sources /\ \A z \in Sources \ {s} : scan'[z] = scan[z]
  BY <1>1, <1>3, <1>4, <1>5 DEF LibraryOK
<1>11. LibraryOK'
  <2>1. \A z \in Sources : source'[z].chosen \subseteq source'[z].known \cap Usable
    BY <1>1, <1>5, <1>10 DEF LibraryOK, SourceTypes
  <2>2. \A z \in Sources : scan'[z] = Idle \/ scan'[z] \in ReadTypes
    BY <1>9, <1>10 DEF LibraryOK
  <2> QED BY <1>3, <1>10, <2>1, <2>2 DEF LibraryOK
<1>12. ASSUME NEW z \in Sources \ {s}
       PROVE  SignedOK(z)' /\ RowsOK(z)' /\ ReadOK(z)'
  BY <1>3, <1>10, SameSource DEF ScansOK
<1>13. SignedOK(s)'
  BY <1>5, <1>10 DEF SignedOK
<1>14. RowsOK(s)'
  <2> SUFFICES ASSUME ~ whole, s \notin missed, NEW b \in BooksOf(s), ~ library[b].changed
               PROVE  row[b] = ReadAs(library[b].says, labels)
    BY <1>3, <1>5, <1>9, <1>10 DEF RowsOK, BooksOf, UpToDate
  <2> QED BY <1>3, <1>8 DEF ScansOK, RowsOK, UpToDate, BooksOf
<1>15. ReadOK(s)'
  <2>1. \A b \in read : books[b] = ReadAs(library'[b].says, source'[BookSource[b]].columnsRead)
    BY <1>3, <1>5, <1>6, <1>7, <1>10 DEF BooksOf
  <2>2. \A b \in BooksOf(s) \ read : ~ library'[b].changed
    BY <1>3, <1>6
  <2>3. whole => read = BooksOf(s)
    BY <1>6
  <2>4. /\ DOMAIN scan'[s].books = read /\ scan'[s].books = books /\ scan'[s].later = {}
        /\ scan'[s].all = whole
    BY <1>7, <1>9, <1>10
  <2>5. \A b \in DOMAIN scan'[s].books \ scan'[s].later :
          scan'[s].books[b] = ReadAs(library'[b].says, source'[BookSource[b]].columnsRead)
    BY <2>1, <2>4
  <2>6. /\ DOMAIN scan'[s].books \subseteq BooksOf(s)
        /\ scan'[s].all => DOMAIN scan'[s].books = BooksOf(s)
        /\ \A b \in BooksOf(s) \cap scan'[s].later : library'[b].changed
        /\ \A b \in BooksOf(s) \ DOMAIN scan'[s].books : library'[b].changed => b \in scan'[s].later
    BY <1>6, <2>2, <2>3, <2>4
  <2> QED BY <2>4, <2>5, <2>6 DEF ReadOK, BooksOf, UpToDate
<1>16. ScansOK'
  BY <1>12, <1>13, <1>14, <1>15 DEF ScansOK
<1> QED BY <1>5, <1>10, <1>11, <1>16

(* The batches and the end of a scan: what was read and did not change since  *)
(* is no longer marked, and the source is signed if nothing did.              *)
LEMMA ScanWritesKeeps ==
  ASSUME LibraryOK, ScansOK, NEW s \in Sources, ScanWrites(s)
  PROVE  LibraryOK' /\ ScansOK'
<1> DEFINE read == scan[s]
           x == [source[s] EXCEPT !.signed = read.current]
<1>1. /\ source \in [Sources -> SourceTypes] /\ library \in [Books -> [says : SayTypes, changed : BOOLEAN]]
      /\ row \in [Books -> SayTypes] /\ source[s] \in SourceTypes
  BY DEF LibraryOK
<1>2. /\ read.running /\ scan' = [scan EXCEPT ![s] = Idle]
      /\ row' = [b \in Books |-> IF b \in DOMAIN read.books THEN read.books[b] ELSE row[b]]
      /\ library' = [b \in Books |-> IF b \in DOMAIN read.books \ read.later
                                     THEN [library[b] EXCEPT !.changed = FALSE] ELSE library[b]]
      /\ missed' = IF read.all THEN missed \ {s} ELSE missed
  BY DEF ScanWrites
<1>3. source' = [source EXCEPT ![s] = x]
  BY <1>1 DEF ScanWrites
<1>4. read \in ReadTypes
  BY <1>2 DEF LibraryOK, Idle
<1>5. read.current \in BOOLEAN /\ DOMAIN read.books \subseteq Books
      /\ \A b \in DOMAIN read.books : read.books[b] \in SayTypes
  BY <1>4 DEF ReadTypes
<1>6. /\ DOMAIN read.books \subseteq BooksOf(s)
      /\ read.all => DOMAIN read.books = BooksOf(s)
      /\ read.current => read.later = {}
      /\ \A c \in DOMAIN read.books \ read.later : UpToDate(c, read.books[c])
      /\ \A c \in BooksOf(s) \cap read.later : library[c].changed
      /\ \A c \in BooksOf(s) \ DOMAIN read.books : library[c].changed => c \in read.later
  BY <1>2 DEF ScansOK, ReadOK
<1> HIDE DEF read
<1>7. /\ x \in SourceTypes /\ x.signed = read.current /\ x.columnsRead = source[s].columnsRead
      /\ x.known = source[s].known /\ x.chosen = source[s].chosen
  BY <1>1, <1>5 DEF SourceTypes
<1> HIDE DEF x
<1>8. /\ source' \in [Sources -> SourceTypes] /\ source'[s] = x
      /\ \A z \in Sources \ {s} : source'[z] = source[z]
      /\ scan'[s] = Idle /\ DOMAIN scan' = Sources /\ \A z \in Sources \ {s} : scan'[z] = scan[z]
  BY <1>1, <1>2, <1>3, <1>7 DEF LibraryOK
<1>9. ASSUME NEW b \in Books
      PROVE  /\ library'[b] \in [says : SayTypes, changed : BOOLEAN] /\ library'[b].says = library[b].says
             /\ b \in DOMAIN read.books \ read.later => ~ library'[b].changed
             /\ b \notin DOMAIN read.books \ read.later => library'[b] = library[b]
             /\ row'[b] \in SayTypes
             /\ row'[b] = IF b \in DOMAIN read.books THEN read.books[b] ELSE row[b]
  <2>1. library[b] \in [says : SayTypes, changed : BOOLEAN]
    BY <1>1
  <2>2. /\ [library[b] EXCEPT !.changed = FALSE] \in [says : SayTypes, changed : BOOLEAN]
        /\ [library[b] EXCEPT !.changed = FALSE].says = library[b].says
        /\ [library[b] EXCEPT !.changed = FALSE].changed = FALSE
    BY <2>1
  <2>3. CASE b \in DOMAIN read.books \ read.later
    <3>1. library'[b] = [library[b] EXCEPT !.changed = FALSE]
      BY <1>2, <2>3
    <3>2. row'[b] = read.books[b] /\ row'[b] \in SayTypes
      BY <1>2, <1>5, <2>3
    <3> QED BY <2>2, <2>3, <3>1, <3>2
  <2>4. CASE b \notin DOMAIN read.books \ read.later
    BY <1>1, <1>2, <1>5, <2>1, <2>4
  <2> QED BY <2>3, <2>4
<1>10. LibraryOK'
  <2>1. row' \in [Books -> SayTypes]
    <3>1. row' = [b \in Books |-> row'[b]]
      BY <1>2
    <3> QED BY <1>9, <3>1
  <2>2. library' \in [Books -> [says : SayTypes, changed : BOOLEAN]]
    <3>1. library' = [b \in Books |-> library'[b]]
      BY <1>2
    <3> QED BY <1>9, <3>1
  <2>3. \A z \in Sources : source'[z].chosen \subseteq source'[z].known \cap Usable
    BY <1>7, <1>8 DEF LibraryOK
  <2>4. \A z \in Sources : scan'[z] = Idle \/ scan'[z] \in ReadTypes
    BY <1>8 DEF LibraryOK
  <2>5. missed' \subseteq Sources
    BY <1>2 DEF LibraryOK
  <2> QED BY <1>8, <2>1, <2>2, <2>3, <2>4, <2>5 DEF LibraryOK
<1>11. ASSUME NEW z \in Sources \ {s}
       PROVE  SignedOK(z)' /\ RowsOK(z)' /\ ReadOK(z)'
  <2>1. \A c \in BooksOf(z) : c \in Books /\ c \notin DOMAIN read.books
    BY <1>6 DEF BooksOf
  <2>2. \A c \in BooksOf(z) : library'[c] = library[c] /\ row'[c] = row[c]
    BY <1>9, <2>1
  <2>3. z \in missed' <=> z \in missed
    BY <1>2
  <2> QED BY <1>8, <2>2, <2>3, SameSource DEF ScansOK
<1>12. \A b \in BooksOf(s) : b \in Books /\ BookSource[b] = s
  BY DEF BooksOf
<1>13. ~ scan'[s].running
  BY <1>8 DEF Idle
<1>14. SignedOK(s)'
  <2> SUFFICES ASSUME read.current, NEW b \in BooksOf(s) PROVE ~ library'[b].changed
    BY <1>7, <1>8, <1>13 DEF SignedOK, BooksOf
  <2> QED BY <1>6, <1>9, <1>12
<1>15. RowsOK(s)'
  <2> SUFFICES ASSUME s \notin missed', NEW b \in BooksOf(s), ~ library'[b].changed
               PROVE  row'[b] = ReadAs(library'[b].says, source[s].columnsRead)
    BY <1>7, <1>8, <1>12 DEF RowsOK, BooksOf, UpToDate
  <2>1. CASE b \in DOMAIN read.books \ read.later
    BY <1>6, <1>9, <1>12, <2>1 DEF UpToDate
  <2>2. CASE b \notin DOMAIN read.books
    <3>1. ~ read.all /\ s \notin missed
      BY <1>2, <1>6, <2>2
    <3>2. UpToDate(b, row[b])
      BY <1>9, <1>12, <2>2, <3>1 DEF ScansOK, RowsOK, read
    <3> QED BY <1>9, <1>12, <2>2, <3>2 DEF UpToDate
  <2>3. CASE b \in read.later
    BY <1>6, <1>9, <1>12, <2>3
  <2> QED BY <2>1, <2>2, <2>3
<1>16. ReadOK(s)'
  BY <1>13 DEF ReadOK
<1> QED BY <1>10, <1>11, <1>14, <1>15, <1>16 DEF ScansOK

(* Scans that end badly: nothing is written, and a change of columns that was *)
(* under way is missed.                                                       *)
LEMMA ScansStop ==
  ASSUME LibraryOK, ScansOK, UNCHANGED <<row, library, source>>, NEW S \in SUBSET Sources,
         DOMAIN scan' = Sources,
         \A z \in Sources : scan'[z] = IF z \in S THEN Idle ELSE scan[z],
         missed' = missed \cup {z \in S : scan[z].running /\ scan[z].all}
  PROVE  LibraryOK' /\ ScansOK'
<1>1. LibraryOK'
  BY DEF LibraryOK
<1>2. ASSUME NEW z \in Sources, z \notin S
      PROVE  SignedOK(z)' /\ RowsOK(z)' /\ ReadOK(z)'
  <2>1. z \in missed' <=> z \in missed
    BY <1>2
  <2> QED BY <1>2, <2>1, SameSource DEF ScansOK
<1>3. ASSUME NEW z \in S
      PROVE  SignedOK(z)' /\ RowsOK(z)' /\ ReadOK(z)'
  <2>1. z \in Sources /\ ~ scan'[z].running
    BY DEF Idle
  <2>2. SignedOK(z)'
    BY <2>1 DEF ScansOK, SignedOK, BooksOf
  <2>3. RowsOK(z)'
    <3> SUFFICES ASSUME z \notin missed', NEW b \in BooksOf(z), ~ library[b].changed
                 PROVE  UpToDate(b, row[b])
      BY DEF RowsOK, BooksOf, UpToDate
    <3>1. ~ (scan[z].running /\ scan[z].all) /\ z \notin missed
      OBVIOUS
    <3> QED BY <2>1, <3>1 DEF ScansOK, RowsOK
  <2>4. ReadOK(z)'
    BY <2>1 DEF ReadOK
  <2> QED BY <2>2, <2>3, <2>4
<1> QED BY <1>1, <1>2, <1>3 DEF ScansOK

LEMMA FailKeeps ==
  ASSUME LibraryOK, ScansOK, NEW s \in Sources, ScanFails(s)
  PROVE  LibraryOK' /\ ScansOK'
<1>1. /\ scan' = [scan EXCEPT ![s] = Idle] /\ scan[s].running
      /\ missed' = IF scan[s].all THEN missed \cup {s} ELSE missed
      /\ UNCHANGED <<row, library, source>>
  BY DEF ScanFails, webVars
<1> DEFINE S == {s}
<1>2. DOMAIN scan' = Sources /\ \A z \in Sources : scan'[z] = IF z \in S THEN Idle ELSE scan[z]
  BY <1>1 DEF LibraryOK
<1>3. missed' = missed \cup {z \in S : scan[z].running /\ scan[z].all}
  BY <1>1
<1>4. S \in SUBSET Sources
  OBVIOUS
<1> HIDE DEF S
<1> QED BY <1>1, <1>2, <1>3, <1>4, ScansStop

LEMMA RestartKeeps ==
  ASSUME LibraryOK, ScansOK, Restart
  PROVE  LibraryOK' /\ ScansOK'
<1>1. /\ scan' = [s \in Sources |-> Idle]
      /\ missed' = missed \cup {s \in Sources : scan[s].running /\ scan[s].all}
      /\ UNCHANGED <<row, library, source>>
  BY DEF Restart, webVars
<1>2. DOMAIN scan' = Sources /\ \A z \in Sources : scan'[z] = IF z \in Sources THEN Idle ELSE scan[z]
  BY <1>1
<1> QED BY <1>1, <1>2, ScansStop
-----------------------------------------------------------------------------
(***************************************************************************)
(* Every step.                                                             *)
(***************************************************************************)
LEMMA TagsStay ==
  ASSUME TagsOK, ThrownInRows, UNCHANGED <<tag, thrown>>
  PROVE  TagsOK' /\ ThrownInRows'
BY DEF TagsOK, ThrownInRows, Unique, Issued, Named

(* Who sees which book does not depend on what a scan remembers.            *)
LEMMA MatchStays ==
  ASSUME NEW mode, Match(mode), UNCHANGED <<tag, thrown, row, book, setting>>,
         \A z \in Sources : /\ source'[z].enabled = source[z].enabled
                            /\ source'[z].shareAll = source[z].shareAll /\ source'[z].acl = source[z].acl
  PROVE  Match(mode)'
<1>1. \A b \in Books : BookSource[b] \in Sources
  BY CollectionsAssumption
<1>2. \A u : \A b \in Books : Visible(u, b)' <=> Visible(u, b)
  BY <1>1 DEF Visible
<1>3. \A b, n : Listings(b, n, mode)' = Listings(b, n, mode)
  BY DEF Listings, SeriesOf
<1>4. \A u, n : Derived(u, n, mode)' = Derived(u, n, mode)
  BY <1>2, <1>3 DEF Derived
<1>5. \A u, n : Named(tag, u, n)' = Named(tag, u, n)
  BY DEF Named, Issued
<1> QED BY <1>4, <1>5 DEF Match, Ours

LEMMA FollowStays ==
  ASSUME Follow, UNCHANGED <<tag, thrown, row, book, setting, due, begun, adrift>>,
         \A z \in Sources : /\ source'[z].enabled = source[z].enabled
                            /\ source'[z].shareAll = source[z].shareAll /\ source'[z].acl = source[z].acl
  PROVE  Follow'
<1> SUFFICES ASSUME due = {}, begun = {}, ~ adrift, NEW mode \in Modes, mode = setting.mode
             PROVE  Match(mode)'
  BY DEF Follow
<1>1. Match(mode)
  BY DEF Follow
<1> QED BY <1>1, MatchStays

LEMMA WebStays ==
  ASSUME WebOK, UNCHANGED <<book, setting, due, begun>>, adrift' \in BOOLEAN
  PROVE  WebOK'
BY DEF WebOK

LEMMA DeviceStep ==
  ASSUME Inv, Device
  PROVE  Inv' /\ begun' = begun /\ \A t \in Issued(tag) : tag'[t] = tag[t] \/ tag'[t].rev > tag[t].rev
<1> USE DEF Inv
<1>0. PICK u \in Readers :
        \/ \E n \in Names, b \in Books : HandleCreateTag(u, n, {}) \/ HandleCreateTag(u, n, {b})
        \/ \E t \in Tags :
             \/ \E n \in Names : HandleRenameTag(u, t, n)
             \/ HandleDeleteTag(u, t)
             \/ \E b \in Books : HandleAddTagItems(u, t, {b}) \/ HandleRemoveTagItems(u, t, {b})
  BY DEF Device
<1>1. u \in Users /\ Issued(tag) \subseteq Tags
  BY CollectionsAssumption DEF Issued
<1>2. CASE \E n \in Names, b \in Books : HandleCreateTag(u, n, {}) \/ HandleCreateTag(u, n, {b})
  <2>1. PICK n \in Names, bs \in SUBSET Books : HandleCreateTag(u, n, bs)
    <3>1. PICK n \in Names, b \in Books : HandleCreateTag(u, n, {}) \/ HandleCreateTag(u, n, {b})
      BY <1>2
    <3>2. {} \in SUBSET Books /\ {b} \in SUBSET Books
      OBVIOUS
    <3> QED BY <3>1, <3>2
  <2>2. TagsOK' /\ ThrownInRows' /\ \A t \in Issued(tag) : tag'[t] = tag[t] \/ tag'[t].rev > tag[t].rev
    BY <1>1, <2>1, CreateKeeps
  <2>3. /\ adrift' = TRUE
        /\ UNCHANGED <<row, library, source, scan, missed, book, setting, due, begun>>
    BY <2>1 DEF HandleCreateTag, libraryVars, webVars, rebuildVars
  <2> QED BY <2>2, <2>3, LibraryStays, WebStays DEF Follow
<1>3. ASSUME NEW t \in Tags, NEW n \in Names, HandleRenameTag(u, t, n)
      PROVE  Inv' /\ begun' = begun /\ \A x \in Issued(tag) : tag'[x] = tag[x] \/ tag'[x].rev > tag[x].rev
  <2>1. TagsOK' /\ ThrownInRows' /\ tag'[t].rev > tag[t].rev /\ \A x \in Tags \ {t} : tag'[x] = tag[x]
    BY <1>1, <1>3, RenameKeeps
  <2>2. /\ adrift' = TRUE
        /\ UNCHANGED <<row, library, source, scan, missed, book, setting, due, begun>>
    BY <1>3 DEF HandleRenameTag, libraryVars, webVars, rebuildVars
  <2> QED BY <1>1, <2>1, <2>2, LibraryStays, WebStays DEF Follow
<1>4. ASSUME NEW t \in Tags, HandleDeleteTag(u, t)
      PROVE  Inv' /\ begun' = begun /\ \A x \in Issued(tag) : tag'[x] = tag[x] \/ tag'[x].rev > tag[x].rev
  <2>1. TagsOK' /\ ThrownInRows' /\ tag'[t].rev > tag[t].rev /\ \A x \in Tags \ {t} : tag'[x] = tag[x]
    BY <1>1, <1>4, DeleteKeeps
  <2>2. /\ adrift' = TRUE
        /\ UNCHANGED <<row, library, source, scan, missed, book, setting, due, begun>>
    BY <1>4 DEF HandleDeleteTag, libraryVars, webVars, rebuildVars
  <2> QED BY <1>1, <2>1, <2>2, LibraryStays, WebStays DEF Follow
<1>5. ASSUME NEW t \in Tags, NEW bs \in SUBSET Books, HandleAddTagItems(u, t, bs) \/ HandleRemoveTagItems(u, t, bs)
      PROVE  Inv' /\ begun' = begun /\ \A x \in Issued(tag) : tag'[x] = tag[x] \/ tag'[x].rev > tag[x].rev
  <2>1. TagsOK' /\ ThrownInRows' /\ tag'[t].rev > tag[t].rev /\ \A x \in Tags \ {t} : tag'[x] = tag[x]
    BY <1>1, <1>5, ItemsKeep
  <2>2. /\ adrift' = TRUE
        /\ UNCHANGED <<row, library, source, scan, missed, book, setting, due, begun>>
    BY <1>5 DEF HandleAddTagItems, HandleRemoveTagItems, HandleTagItems, libraryVars, webVars, rebuildVars
  <2> QED BY <1>1, <2>1, <2>2, LibraryStays, WebStays DEF Follow
<1>6. \A b \in Books : {b} \in SUBSET Books
  OBVIOUS
<1> HIDE DEF Inv
<1> QED BY <1>0, <1>2, <1>3, <1>4, <1>5, <1>6

LEMMA WebStep ==
  ASSUME Inv, Web
  PROVE  Inv' /\ tag' = tag /\ begun' = begun
<1> USE DEF Inv
<1>1. CASE \E mode \in Modes, loose \in LooseNames : HandleSetCollections(mode, loose)
  <2>1. PICK mode \in Modes, loose \in LooseNames : HandleSetCollections(mode, loose)
    BY <1>1
  <2>2. /\ setting' = [mode |-> mode, loose |-> loose] /\ due' = due \cup {"setting"}
        /\ UNCHANGED <<row, library, source, scan, missed, book, tag, thrown, adrift, begun>>
    BY <2>1 DEF HandleSetCollections, libraryVars, shelfVars
  <2>3. WebOK'
    BY <2>2 DEF WebOK
  <2>4. Follow'
    BY <2>2 DEF Follow
  <2> QED BY <2>2, <2>3, <2>4, LibraryStays, TagsStay
<1>2. CASE \E mode \in Modes : HandleSetCollectionsFails(mode)
  <2>1. PICK mode \in Modes : HandleSetCollectionsFails(mode)
    BY <1>2
  <2>2. /\ setting' = [setting EXCEPT !.mode = mode] /\ adrift' = TRUE
        /\ UNCHANGED <<row, library, source, scan, missed, book, tag, thrown, due, begun>>
    BY <2>1 DEF HandleSetCollectionsFails, libraryVars, rebuildVars
  <2>3. WebOK'
    BY <2>2 DEF WebOK
  <2>4. Follow'
    BY <2>2 DEF Follow
  <2> QED BY <2>2, <2>3, <2>4, LibraryStays, TagsStay
<1>3. CASE \E b \in Books : HandleHide(b)
  <2>1. PICK b \in Books : HandleHide(b)
    BY <1>3
  <2>2. /\ book' = [book EXCEPT ![b].hidden = ~ book[b].hidden] /\ adrift' = TRUE
        /\ UNCHANGED <<row, library, source, scan, missed, setting, tag, thrown, due, begun>>
    BY <2>1 DEF HandleHide, libraryVars, rebuildVars
  <2>3. WebOK'
    BY <2>2 DEF WebOK, BookTypes
  <2>4. Follow'
    BY <2>2 DEF Follow
  <2> QED BY <2>2, <2>3, <2>4, LibraryStays, TagsStay
<1>4. CASE \E b \in Books : \E n \in Names \cup {NoSeries, None} : HandleSetSeries(b, n)
  <2>1. PICK b \in Books, n \in Names \cup {NoSeries, None} : HandleSetSeries(b, n)
    BY <1>4
  <2>2. /\ book' = [book EXCEPT ![b].override = n] /\ due' = due \cup {"series"}
        /\ UNCHANGED <<row, library, source, scan, missed, setting, tag, thrown, adrift, begun>>
    BY <2>1 DEF HandleSetSeries, libraryVars, shelfVars
  <2>3. WebOK'
    BY <2>2 DEF WebOK, BookTypes
  <2>4. Follow'
    BY <2>2 DEF Follow
  <2> QED BY <2>2, <2>3, <2>4, LibraryStays, TagsStay
<1>5. CASE \E s \in Sources : HandleToggleSource(s)
  <2>1. PICK s \in Sources : HandleToggleSource(s)
    BY <1>5
  <2>2. adrift' = TRUE /\ UNCHANGED <<book, setting, tag, thrown, due, begun>>
    BY <2>1 DEF HandleToggleSource, rebuildVars
  <2>3. Follow'
    BY <2>2 DEF Follow
  <2> QED BY <2>1, <2>2, <2>3, ToggleKeeps, TagsStay, WebStays
<1>6. CASE \E s \in Sources : HandleScanSource(s)
  <2>1. PICK s \in Sources : ScanReads(s)
    BY <1>6 DEF HandleScanSource
  <2>2. UNCHANGED <<book, setting, tag, thrown, due, begun, adrift, row>> /\ adrift \in BOOLEAN
    BY <2>1 DEF ScanReads, rebuildVars, shelfVars, WebOK
  <2> QED BY <2>1, <2>2, ScanReadsKeeps, FollowStays, TagsStay, WebStays
<1>7. CASE \E s \in Sources : \E users \in SUBSET Users : HandleSetSharing(s, users)
  <2>1. PICK s \in Sources, users \in SUBSET Users : HandleSetSharing(s, users)
    BY <1>7
  <2>2. due' = due \cup {"sharing"} /\ UNCHANGED <<book, setting, tag, thrown, adrift, begun>>
    BY <2>1 DEF HandleSetSharing, shelfVars
  <2>3. WebOK'
    BY <2>2 DEF WebOK
  <2>4. Follow'
    BY <2>2 DEF Follow
  <2> QED BY <2>1, <2>2, <2>3, <2>4, SharingKeeps, TagsStay
<1>8. CASE \E s \in Sources : \E labels \in SUBSET Labels : SetShelfColumns(s, labels)
  <2>1. PICK s \in Sources, labels \in SUBSET Labels : SetShelfColumns(s, labels)
    BY <1>8
  <2>2. UNCHANGED <<book, setting, tag, thrown, due, begun, adrift, row>> /\ adrift \in BOOLEAN
    BY <2>1 DEF SetShelfColumns, libraryVars, rebuildVars, shelfVars, WebOK
  <2>3. \A z \in Sources : /\ source'[z].enabled = source[z].enabled
                           /\ source'[z].shareAll = source[z].shareAll /\ source'[z].acl = source[z].acl
    <3>1. source' = [source EXCEPT ![s].chosen = labels \cap source[s].known \cap Usable]
      BY <2>1 DEF SetShelfColumns
    <3>2. source \in [Sources -> SourceTypes]
      BY DEF LibraryOK
    <3> QED BY <3>1, <3>2 DEF SourceTypes
  <2> QED BY <2>1, <2>2, <2>3, ColumnsKeep, FollowStays, TagsStay, WebStays
<1> HIDE DEF Inv
<1> QED BY <1>1, <1>2, <1>3, <1>4, <1>5, <1>6, <1>7, <1>8 DEF Web
(* MergeBooks moves members only where a book is merged away.               *)
LEMMA ScanWritesStep ==
  ASSUME Inv, NEW s \in Sources, ScanWrites(s)
  PROVE  Inv' /\ begun' = begun /\ (book' = book => tag' = tag)
<1>1. /\ due' = due \cup {"scan"} /\ UNCHANGED <<setting, begun, thrown, adrift>>
      /\ \/ UNCHANGED <<book, tag>>
         \/ \E l \in DOMAIN scan[s].books, w \in Books : l # w /\ book[l].into = l /\ MergeBooks(l, w)
  BY DEF ScanWrites
<1>2. DOMAIN scan[s].books \subseteq Books
  <2>1. scan[s].running
    BY DEF ScanWrites
  <2>2. scan[s] \in ReadTypes
    BY <2>1 DEF Inv, LibraryOK, Idle
  <2> QED BY <2>2 DEF ReadTypes
<1>3. TagsOK' /\ ThrownInRows' /\ WebOK' /\ (book' = book => tag' = tag)
  <2>1. CASE UNCHANGED <<book, tag>>
    <3>1. TagsOK' /\ ThrownInRows'
      BY <1>1, <2>1, TagsStay DEF Inv
    <3>2. WebOK'
      BY <1>1, <2>1 DEF Inv, WebOK
    <3> QED BY <2>1, <3>1, <3>2
  <2>2. CASE \E l \in DOMAIN scan[s].books, w \in Books : l # w /\ book[l].into = l /\ MergeBooks(l, w)
    <3>1. PICK l \in Books, w \in Books : l # w /\ book[l].into = l /\ MergeBooks(l, w)
      BY <1>2, <2>2
    <3>2. TagsOK' /\ ThrownInRows'
      BY <1>1, <3>1, MergeKeeps DEF Inv
    <3>3. book' = [book EXCEPT ![l].into = w] /\ book \in [Books -> BookTypes]
      BY <3>1 DEF MergeBooks, Inv, WebOK
    <3>4. book' \in [Books -> BookTypes] /\ book' # book
      <4>1. book'[l].into = w
        BY <3>3 DEF BookTypes
      <4>2. book' \in [Books -> BookTypes]
        BY <3>3 DEF BookTypes
      <4> QED BY <3>1, <4>1, <4>2
    <3>5. WebOK'
      BY <1>1, <3>4 DEF Inv, WebOK
    <3> QED BY <3>2, <3>4, <3>5
  <2> QED BY <1>1, <2>1, <2>2
<1>4. LibraryOK' /\ ScansOK'
  BY ScanWritesKeeps DEF Inv
<1>5. Follow'
  BY <1>1 DEF Follow
<1> QED BY <1>1, <1>3, <1>4, <1>5 DEF Inv

LEMMA RebuildStep ==
  ASSUME Inv, NEW mode \in begun, RebuildWrites(mode)
  PROVE  Inv'
<1>1. /\ tag' = Rebuilt(mode) /\ begun' = begun \ {mode} /\ adrift' = (mode # setting.mode)
      /\ UNCHANGED <<due, thrown, row, library, source, scan, missed, book, setting>>
  BY DEF RebuildWrites, libraryVars, webVars
<1>2. TagsOK' /\ ThrownInRows' /\ Match(mode)'
  BY <1>1, RebuildKeeps DEF Inv
<1>3. LibraryOK' /\ ScansOK'
  BY <1>1, LibraryStays DEF Inv
<1>4. WebOK'
  BY <1>1 DEF Inv, WebOK
<1>5. Follow'
  <2> SUFFICES ASSUME ~ adrift', NEW m \in Modes, m = setting'.mode
               PROVE  Match(m)'
    BY DEF Follow
  <2>1. m = mode
    BY <1>1
  <2> QED BY <1>2, <2>1
<1> QED BY <1>2, <1>3, <1>4, <1>5 DEF Inv

LEMMA ServerStep ==
  ASSUME Inv,
         \/ Restart
         \/ \E b \in Books : \E says \in Says[b] : CalibreEdits(b, says)
         \/ \E s \in Sources : Scan(s) \/ ScanFails(s)
         \/ \E who \in due : RebuildBegins(who)
         \/ \E mode \in begun : RebuildFails(mode)
  PROVE  Inv' /\ tag' = tag /\ (begun \subseteq begun' \/ changes' # changes)
<1> USE DEF Inv
<1>0. ASSUME NEW kind, Change(kind) PROVE changes' # changes
  BY <1>0 DEF Change
<1>1. CASE Restart
  <2>1. due' = {} /\ begun' = {} /\ adrift' = (adrift \/ due \cup begun # {})
        /\ UNCHANGED <<tag, thrown, library, row, source, setting, book>>
    BY <1>1 DEF Restart, webVars
  <2>2. WebOK'
    BY <2>1 DEF WebOK
  <2>3. Follow'
    <3>1. CASE due = {} /\ begun = {} /\ ~ adrift
      <4>1. due' = due /\ begun' = begun /\ source' = source
        BY <2>1, <3>1
      <4>2. adrift' = adrift
        <5>1. adrift = FALSE /\ (due \cup begun # {}) = FALSE
          BY <3>1 DEF WebOK
        <5> QED BY <2>1, <5>1
      <4>3. UNCHANGED <<tag, thrown, row, book, setting, due, begun, adrift>>
        BY <2>1, <4>1, <4>2
      <4>4. \A z \in Sources : /\ source'[z].enabled = source[z].enabled
                               /\ source'[z].shareAll = source[z].shareAll /\ source'[z].acl = source[z].acl
        BY <4>1
      <4> QED BY <4>3, <4>4, FollowStays
    <3>2. CASE due # {} \/ begun # {} \/ adrift
      BY <2>1, <3>2 DEF Follow
    <3> QED BY <3>1, <3>2
  <2>4. changes' # changes
    BY <1>1, <1>0 DEF Restart
  <2> QED BY <1>1, <2>1, <2>2, <2>3, <2>4, RestartKeeps, TagsStay
<1>2. CASE \E b \in Books : \E says \in Says[b] : CalibreEdits(b, says)
  <2>1. PICK b \in Books : \E says \in Says[b] : CalibreEdits(b, says)
    BY <1>2
  <2>2. PICK says \in Says[b] : CalibreEdits(b, says)
    BY <2>1
  <2>3. UNCHANGED <<row, setting, book, due, begun, tag, thrown, adrift>> /\ adrift \in BOOLEAN
    BY <2>2 DEF CalibreEdits, rebuildVars, shelfVars, WebOK
  <2>4. \A z \in Sources : /\ source'[z].enabled = source[z].enabled
                           /\ source'[z].shareAll = source[z].shareAll /\ source'[z].acl = source[z].acl
    <3>1. source' = [source EXCEPT ![BookSource[b]].signed = FALSE]
      BY <2>2 DEF CalibreEdits
    <3>2. source \in [Sources -> SourceTypes]
      BY DEF LibraryOK
    <3> QED BY <3>1, <3>2 DEF SourceTypes
  <2>5. LibraryOK' /\ ScansOK'
    BY <2>2, EditKeeps
  <2> QED BY <2>3, <2>4, <2>5, FollowStays, TagsStay, WebStays
<1>3. CASE \E s \in Sources : Scan(s)
  <2>1. PICK s \in Sources : ScanReads(s)
    BY <1>3 DEF Scan
  <2>2. UNCHANGED <<book, setting, tag, thrown, due, begun, adrift, row>> /\ adrift \in BOOLEAN
    BY <2>1 DEF ScanReads, rebuildVars, shelfVars, WebOK
  <2> QED BY <2>1, <2>2, ScanReadsKeeps, FollowStays, TagsStay, WebStays
<1>4. CASE \E s \in Sources : ScanFails(s)
  <2>1. PICK s \in Sources : ScanFails(s)
    BY <1>4
  <2>2. UNCHANGED <<book, setting, source, tag, thrown, due, begun, adrift, row>> /\ adrift \in BOOLEAN
    BY <2>1 DEF ScanFails, webVars, rebuildVars, shelfVars, WebOK
  <2> QED BY <2>1, <2>2, FailKeeps, FollowStays, TagsStay, WebStays
<1>5. CASE \E who \in due : RebuildBegins(who)
  <2>1. PICK who \in due : RebuildBegins(who)
    BY <1>5
  <2>2. /\ due' = due \ {who}
        /\ \/ adrift' = TRUE /\ begun' = begun
           \/ begun' = begun \cup {setting.mode} /\ adrift' = adrift
        /\ UNCHANGED <<tag, thrown, row, library, source, scan, missed, book, setting>>
    BY <2>1 DEF RebuildBegins, libraryVars, webVars
  <2>3. WebOK'
    BY <2>2 DEF WebOK
  <2>4. Follow'
    BY <2>2 DEF Follow
  <2> QED BY <2>2, <2>3, <2>4, LibraryStays, TagsStay
<1>6. CASE \E mode \in begun : RebuildFails(mode)
  <2>1. PICK mode \in begun : RebuildFails(mode)
    BY <1>6
  <2>2. /\ begun' = begun \ {mode} /\ adrift' = TRUE /\ changes' # changes
        /\ UNCHANGED <<tag, thrown, due, row, library, source, scan, missed, book, setting>>
    BY <2>1, <1>0 DEF RebuildFails, libraryVars, webVars
  <2>3. WebOK'
    BY <2>2 DEF WebOK
  <2>4. Follow'
    BY <2>2 DEF Follow
  <2> QED BY <2>2, <2>3, <2>4, LibraryStays, TagsStay
<1> HIDE DEF Inv
<1> QED BY <1>1, <1>2, <1>3, <1>4, <1>5, <1>6

LEMMA InitInv ==
  ASSUME Init
  PROVE  Inv
<1>1. \A b \in Books : library[b].says \in SayTypes /\ library[b].changed = FALSE
  BY CollectionsAssumption DEF Init, SayTypes
<1>2. /\ tag = [t \in Tags |-> Unissued] /\ thrown = {}
      /\ book = [b \in Books |-> [into |-> b, hidden |-> FALSE, override |-> None]]
      /\ library = [b \in Books |-> library[b]]
      /\ row = [b \in Books |-> ReadAs(library[b].says, {})]
      /\ source = [s \in Sources |-> [enabled |-> TRUE, shareAll |-> TRUE, acl |-> {}, known |-> Labels,
                                      chosen |-> {}, columnsRead |-> {}, signed |-> TRUE]]
      /\ setting = [mode |-> "off", loose |-> NoSeries]
      /\ scan = [s \in Sources |-> Idle]
      /\ due = {} /\ begun = {} /\ adrift = FALSE /\ missed = {}
  BY DEF Init
<1>3. Unissued \in TagTypes /\ Issued(tag) = {}
  <2>1. Unissued \in TagTypes /\ Unissued.user = None
    BY DEF Unissued, TagTypes
  <2>2. \A t \in Tags : tag[t].user = None
    BY <1>2, <2>1
  <2> QED BY <2>1, <2>2 DEF Issued
<1>4. TagsOK
  BY <1>2, <1>3 DEF TagsOK, Unique
<1>5. LibraryOK
  <2>1. row \in [Books -> SayTypes]
    BY <1>1, <1>2, ReadAsFits
  <2>2. library \in [Books -> [says : SayTypes, changed : BOOLEAN]]
    <3>1. \A b \in Books : library[b] \in [says : SayTypes, changed : BOOLEAN]
      <4>1. library \in [Books -> [says : UNION {Says[b] : b \in Books}, changed : {FALSE}]]
        BY DEF Init
      <4> QED BY <1>1, <4>1
    <3> QED BY <1>2, <3>1
  <2>3. source \in [Sources -> SourceTypes] /\ \A s \in Sources : source[s].chosen = {}
    BY <1>2 DEF SourceTypes
  <2> QED BY <1>2, <2>1, <2>2, <2>3 DEF LibraryOK
<1>6. WebOK
  BY <1>2, CollectionsAssumption DEF WebOK, BookTypes
<1>7. \A u, n : Named(tag, u, n) = {}
  BY <1>3 DEF Named
<1>8. ThrownInRows
  BY <1>2, <1>7 DEF ThrownInRows
<1>9. Follow
  <2> SUFFICES ASSUME NEW u \in Users, NEW n \in Names PROVE Derived(u, n, "off") = {}
    BY <1>2, <1>7 DEF Follow, Match
  <2> SUFFICES ASSUME NEW b \in Books PROVE ~ (Listings(b, n, "off") > 0)
    BY DEF Derived
  <2>1. row[b] = ReadAs(library[b].says, {}) /\ library[b].says \in SayTypes
    BY <1>1, <1>2
  <2>2. \A l \in Labels : row[b].columns[l] = {}
    <3>1. row[b] = [library[b].says EXCEPT !.columns = [l \in Labels |-> {}]]
      BY <2>1 DEF ReadAs
    <3> QED BY <2>1, <3>1 DEF SayTypes
  <2>3. {l \in Labels : n \in row[b].columns[l]} = {}
    BY <2>2
  <2>4. Cardinality({l \in Labels : n \in row[b].columns[l]}) = 0
    BY <2>3, FS_EmptySet
  <2> QED BY <2>4 DEF Listings
<1>10. ScansOK
  <2>1. \A s \in Sources : ~ scan[s].running
    BY <1>2 DEF Idle
  <2>2. \A b \in Books : UpToDate(b, row[b])
    BY <1>2, CollectionsAssumption DEF UpToDate
  <2> QED BY <1>1, <2>1, <2>2 DEF ScansOK, SignedOK, RowsOK, ReadOK, BooksOf
<1> QED BY <1>4, <1>5, <1>6, <1>8, <1>9, <1>10 DEF Inv

LEMMA StutterInv ==
  ASSUME Inv, UNCHANGED vars
  PROVE  Inv'
<1> USE DEF Inv
<1>1. UNCHANGED <<tag, book, row, library, source, setting, scan, due, begun, thrown, adrift, missed>>
      /\ adrift \in BOOLEAN
  BY DEF vars, WebOK
<1> QED BY <1>1, TagsStay, LibraryStays, WebStays, FollowStays

LEMMA NextInv ==
  ASSUME Inv, Next
  PROVE  Inv'
BY DeviceStep, WebStep, ServerStep, ScanWritesStep, RebuildStep DEF Next

(* The invariant of the readers' requests, the settings, the scans and the    *)
(* rebuilds holds in every reachable state.                                   *)
THEOREM Invariance == Spec => []Inv
<1>1. Init => Inv
  BY InitInv
<1>2. Inv /\ [Next]_vars => Inv'
  BY NextInv, StutterInv
<1> QED BY <1>1, <1>2, PTL DEF Spec

(* Type correctness of the collections model (TypeOK): with it, that no user  *)
(* ever has two collections of one name, live or deleted.                     *)
THEOREM CollectionsTypes == Spec => []TypeOK
<1>1. Inv => TypeOK
  <2> SUFFICES ASSUME Inv PROVE TypeOK
    OBVIOUS
  <2>1. \A t \in Issued(tag) :
       /\ tag[t].user \in Users /\ tag[t].name \in Names /\ tag[t].rev \in Nat \ {0}
       /\ tag[t].origin \in {"device", "calibre", "server"} /\ tag[t].books \subseteq Books
       /\ Named(tag, tag[t].user, tag[t].name) = {t}
    BY OneOfAName DEF Inv, TagTypes, Fits
  <2>2. \A b \in Books : book[b].into \in Books
    BY DEF Inv, WebOK, BookTypes
  <2> QED BY <2>1, <2>2 DEF Inv, TypeOK, TagsOK, WebOK, LibraryOK
<1> QED BY <1>1, Invariance, PTL

(* A shelf of the library that a reader threw away stays away, whatever is    *)
(* scanned, set or rebuilt (ThrownAwayStaysGone; applyCollections).           *)
THEOREM ThrownStaysGone == Spec => []ThrownAwayStaysGone
<1>1. Inv => ThrownAwayStaysGone
  <2> SUFFICES ASSUME Inv, NEW t \in Issued(tag), tag[t].live
               PROVE  <<tag[t].user, tag[t].name>> \notin thrown
    BY DEF ThrownAwayStaysGone
  <2>1. tag[t].user \in Users /\ tag[t].name \in Names /\ Named(tag, tag[t].user, tag[t].name) = {t}
    BY OneOfAName DEF Inv
  <2> QED BY <2>1 DEF Inv, ThrownInRows, Deleted
<1> QED BY <1>1, Invariance, PTL

(* Once no rebuild is on its way the shelves of the library are those it asks *)
(* for, with the books it says, for each user those he may see (ShelvesFollow; *)
(* Scanner.RebuildCollections and its callers).                               *)
THEOREM ShelvesAreRight == Spec => []ShelvesFollow
<1>1. Inv => ShelvesFollow
  <2> SUFFICES ASSUME Inv, due = {}, begun = {}, ~ adrift, NEW u \in Users, NEW n \in Names
               PROVE  LET ours == {t \in Named(tag, u, n) : tag[t].live /\ tag[t].origin = "calibre"}
                          asked == Derived(u, n, setting.mode)
                      IN  IF asked = {} \/ <<u, n>> \in thrown THEN ours = {}
                          ELSE \E t \in ours : tag[t].books = asked
    BY DEF ShelvesFollow
  <2>1. Match(setting.mode)
    BY DEF Inv, Follow, WebOK
  <2> QED BY <2>1 DEF Match, Ours
<1> QED BY <1>1, Invariance, PTL

(* A library the next scan skips as unchanged has nothing left to tell        *)
(* (SkippedScansMissNothing; Scanner.Scan and rememberColumns).               *)
THEOREM NothingIsMissed == Spec => []SkippedScansMissNothing
<1>1. Inv => SkippedScansMissNothing
  BY DEF Inv, ScansOK, SignedOK, RowsOK, BooksOf, UpToDate, SkippedScansMissNothing
<1> QED BY <1>1, Invariance, PTL

(* A device hears of every change of a collection but those of a merge, and   *)
(* of nothing else (RevMovesWithTheShelf; TouchTag and its callers).          *)
THEOREM RevisionsMove == Spec => RevMovesWithTheShelf
<1> DEFINE seen(x) == <<x.name, x.live, x.books>>
           rebuilt(t) == \E m \in begun \ begun' : changes' = changes
                           /\ ~ ListedTwice(tag[t].user, tag[t].name, m)
           moves == \A t \in Issued(tag) :
                      /\ seen(tag'[t]) # seen(tag[t]) /\ book' = book => tag'[t].rev > tag[t].rev
                      /\ rebuilt(t) /\ seen(tag'[t]) = seen(tag[t]) /\ tag'[t].origin = tag[t].origin
                           => tag'[t].rev = tag[t].rev
<1>1. ASSUME Inv, Next PROVE moves
  <2>1. CASE Device
    BY <1>1, <2>1, DeviceStep
  <2>2. CASE Web
    BY <1>1, <2>2, WebStep
  <2>3. CASE \E s \in Sources : ScanWrites(s)
    BY <1>1, <2>3, ScanWritesStep
  <2>4. CASE \E mode \in begun : RebuildWrites(mode)
    <3>1. PICK mode \in begun : RebuildWrites(mode)
      BY <2>4
    <3>2. tag' = Rebuilt(mode) /\ begun' = begun \ {mode} /\ TagsOK /\ WebOK
      BY <1>1, <3>1 DEF RebuildWrites, Inv
    <3>3. \A t \in Issued(tag) : tag'[t] = Apply(tag[t], mode) /\ tag[t] \in TagTypes
      BY <3>2, RebuiltRows, OneOfAName
    <3> SUFFICES ASSUME NEW t \in Issued(tag)
                 PROVE  /\ seen(tag'[t]) # seen(tag[t]) => tag'[t].rev > tag[t].rev
                        /\ rebuilt(t) /\ seen(tag'[t]) = seen(tag[t]) /\ tag'[t].origin = tag[t].origin
                             => tag'[t].rev = tag[t].rev
      OBVIOUS
    <3>4. /\ tag'[t] = tag[t] \/ tag'[t].rev > tag[t].rev
          /\ tag'[t].rev # tag[t].rev => \/ tag'[t].books # tag[t].books \/ tag'[t].live # tag[t].live
                                         \/ tag'[t].origin # tag[t].origin
                                         \/ ListedTwice(tag[t].user, tag[t].name, mode)
      BY <3>2, <3>3, ApplyFits
    <3>5. rebuilt(t) => ~ ListedTwice(tag[t].user, tag[t].name, mode)
      BY <3>2
    <3> HIDE DEF rebuilt
    <3> QED BY <3>4, <3>5
  <2>5. CASE \/ Restart
             \/ \E b \in Books : \E says \in Says[b] : CalibreEdits(b, says)
             \/ \E s \in Sources : Scan(s) \/ ScanFails(s)
             \/ \E who \in due : RebuildBegins(who)
             \/ \E mode \in begun : RebuildFails(mode)
    <3>1. tag' = tag /\ (begun \subseteq begun' \/ changes' # changes)
      BY <1>1, <2>5, ServerStep
    <3> QED BY <3>1
  <2> HIDE DEF moves
  <2> QED BY <1>1, <2>1, <2>2, <2>3, <2>4, <2>5 DEF Next
<1>2. Inv /\ [Next]_vars => [moves]_vars
  <2> HIDE DEF moves
  <2> QED BY <1>1
<1>3. Spec => [][moves]_vars
  BY <1>2, Invariance, PTL DEF Spec
<1> QED BY <1>3 DEF RevMovesWithTheShelf
=============================================================================
